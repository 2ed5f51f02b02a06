----------------------------- MODULE Mailboxes -----------------------------
(***************************************************************************)
(* The message queues of disastrOS with the resources and descriptors they *)
(* are made of: mq_open, mq_close, mq_unlink, mq_send and mq_receive, the  *)
(* calls open, close and destroy on plain resources, and what the exit of  *)
(* a process does to its descriptors.                                      *)
(*                                                                         *)
(* Who runs is decided elsewhere (module Processes).  Here `running` moves *)
(* to any process at any time, and a call that blocks hands the CPU to any *)
(* other process.  Each system call is one atomic step of `running`.       *)
(*                                                                         *)
(* Abstractions.  A block is named by its address, and blocks in a list    *)
(* are the domain of the function that holds their fields: ids and file    *)
(* descriptors are looked up by value, so the order of these lists does    *)
(* not matter.  A descriptor and its DescriptorPtr are one block, for they *)
(* are allocated and freed together from pools of the same size.  An open  *)
(* mode is the set of its bits, and a message is a value of Msgs.          *)
(***************************************************************************)
EXTENDS Integers, Sequences, SequencesExt, FiniteSets

CONSTANTS
  Proc,                \* PCBs of the processes that make calls
  MAX_NUM_RESOURCES,   \* blocks in the MessageQueue and in the Resource pool
  MAX_NUM_MESSAGES,    \* blocks in the Message pool (as many, in the code)
  MAX_NUM_DESCRIPTORS, \* blocks in the Descriptor pool (one per process, in the code)
  MQ_MAX_MSG_SIZE,     \* messages in a full queue
  Ids, Msgs, Modes,    \* bound: ids, messages and open modes given in calls
  MaxFd,               \* bound: a process that got MaxFd fds opens no more
  Liberties            \* what processes do beyond the discipline of the tests

Null     == 0
MqBlock  == 1..MAX_NUM_RESOURCES
ResBlock == MAX_NUM_RESOURCES + 1..2 * MAX_NUM_RESOURCES
Desc     == 1..MAX_NUM_DESCRIPTORS

(***************************************************************************)
(* Each liberty drops one part of the discipline of the test programs:     *)
(*   "undrained"  unlink a queue that holds messages                       *)
(*   "unclosed"   exit with open descriptors                               *)
(*   "exhaust"    make calls that need a block when a pool has none left   *)
(*   "plain"      use mq_open for a type other than DSOS_MQ                *)
(*   "destroy_mq" destroy a queue with the call for plain resources        *)
(*   "no_sleeper" block when no other process is ready                     *)
(* Queue calls on a plain resource, and plain resources of type DSOS_MQ,   *)
(* which the code casts to queues that are not there, are never made.      *)
(***************************************************************************)
AllLiberties ==
  {"undrained", "unclosed", "exhaust", "plain", "destroy_mq", "no_sleeper"}

CREATE == "DSOS_CREATE"
EXCL   == "DSOS_EXCL"
READ   == "DSOS_READ"      \* DSOS_WRITE is 0x3, the bits CREATE and READ

DSOS_MQ == 1
PLAIN   == 2               \* bound: one type of plain resources

DSOS_ERESOURCECREATE == -8
DSOS_ERESOURCEOPEN   == -9
DSOS_ERESOURCENOEXCL == -10
DSOS_ERESOURCENOFD   == -11
DSOS_ERESOURCECLOSE  == -12
DSOS_ERESOURCEINUSE  == -13
DSOS_ERESOURCESEND   == -14
DSOS_ERESOURCERECV   == -15
DSOS_MQ_EMPTY        == -16
DSOS_MQ_FULL         == -17

NoMsg == "no message"      \* an argument that is not a message

ASSUME MailboxesAssumption ==
  /\ Null \notin Proc
  /\ {MAX_NUM_RESOURCES, MAX_NUM_MESSAGES, MAX_NUM_DESCRIPTORS,
      MQ_MAX_MSG_SIZE, MaxFd} \subseteq Nat \ {0}
  /\ Modes \subseteq SUBSET {CREATE, EXCL, READ}
  /\ NoMsg \notin Msgs
  /\ Liberties \subseteq AllLiberties

VARIABLES
  running, retvalue, system,   \* as in Processes
  syscall_arg1,        \* PCB -> its second argument, where receive puts a message
  resources_list,      \* block in the list -> [id, type, opened]
  messages, num_msg,   \* queue block -> its messages, its counter
  mq_allocator, resource_allocator,  \* free blocks, next one first
  messages_allocator,  \* number of free Message blocks
  desc,                \* allocated descriptor -> [pcb, resource, fd]
  descriptors,         \* PCB -> its open descriptors
  last_fd              \* PCB -> the fd of the next descriptor

queues == <<messages, num_msg, messages_allocator>>
blocks == <<resources_list, mq_allocator, resource_allocator>>
files  == <<desc, descriptors, last_fd>>
mailVars == <<blocks, queues, files>>
vars == <<running, retvalue, system, syscall_arg1, mailVars>>

-----------------------------------------------------------------------------
(* Look-ups *)

\* ResourceList_byId, as the set of the blocks found: at most one.
ById(list, i) == {b \in DOMAIN list : list[b].id = i}

\* DescriptorList_byFd in the descriptors of the caller.
ByFd(fd) == {d \in descriptors[running] : desc[d].fd = fd}

Returns(code) == retvalue' = [retvalue EXCEPT ![running] = code]

\* disastrOS_syscall leaves the second argument in the PCB.
SecondArg(arg) == syscall_arg1' = [syscall_arg1 EXCEPT ![running] = arg]

\* A null pointer is followed: the host process is killed.
Crash ==
  /\ system' = "crashed"
  /\ UNCHANGED <<retvalue, syscall_arg1, mailVars>>

-----------------------------------------------------------------------------
(* Opening.  mq_open may run the whole of open before its own code, so both *)
(* are functions from one kernel state to the next.                         *)

Kernel ==
  [list |-> resources_list, mqs |-> mq_allocator, res |-> resource_allocator,
   msgs |-> messages, desc |-> desc, fds |-> descriptors[running],
   last_fd |-> last_fd[running], ret |-> 0, fault |-> FALSE]

Fails(k, code) == [k EXCEPT !.ret = code]
Faults(k)      == [k EXCEPT !.fault = TRUE]

FreeDescs(k) == Desc \ DOMAIN k.desc

\* Mutation: the first fd is one too low.
AddDescriptor_OffByOne(k, b) ==
  LET d == Min(FreeDescs(k))
      file == [pcb |-> running, resource |-> b, fd |-> k.last_fd - 1]
  IN  [k EXCEPT !.desc = [x \in DOMAIN @ \cup {d} |-> IF x = d THEN file ELSE @[x]],
                !.fds = @ \cup {d},
                !.list[b].opened = @ \cup {d},
                !.last_fd = @ + 1,
                !.ret = file.fd]

\* A descriptor of the caller for b, known to the caller and to b.
AddDescriptor(k, b) ==
  LET d == Min(FreeDescs(k))
      file == [pcb |-> running, resource |-> b, fd |-> k.last_fd]
  IN  [k EXCEPT !.desc = [x \in DOMAIN @ \cup {d} |-> IF x = d THEN file ELSE @[x]],
                !.fds = @ \cup {d},
                !.list[b].opened = @ \cup {d},
                !.last_fd = @ + 1,
                !.ret = k.last_fd]

\* Mutation: an exclusive open looks for other users last.
OpenExisting_ExclusiveLate(k, i, type, mode) ==
  LET found == ById(k.list, i)
      b     == CHOOSE x \in found : TRUE
  IN  IF found = {} \/ k.list[b].type # type THEN Fails(k, DSOS_ERESOURCEOPEN)
      ELSE IF FreeDescs(k) = {} THEN Fails(k, DSOS_ERESOURCENOFD)
      ELSE LET opened == AddDescriptor(k, b)
           IN  IF EXCL \in mode /\ k.list[b].opened # {}
               THEN Fails(opened, DSOS_ERESOURCENOEXCL) ELSE opened

\* The part that open and mq_open have in common.
OpenExisting(k, i, type, mode) ==
  LET found == ById(k.list, i)
      b     == CHOOSE x \in found : TRUE
  IN  IF found = {} \/ k.list[b].type # type THEN Fails(k, DSOS_ERESOURCEOPEN)
      ELSE IF EXCL \in mode /\ k.list[b].opened # {} THEN Fails(k, DSOS_ERESOURCENOEXCL)
      ELSE IF FreeDescs(k) = {} THEN Fails(k, DSOS_ERESOURCENOFD)
      ELSE AddDescriptor(k, b)

Insert(list, b, i, type) ==
  [x \in DOMAIN list \cup {b} |->
     IF x = b THEN [id |-> i, type |-> type, opened |-> {}] ELSE list[x]]

\* Resource_alloc.
NewResource(k, i, type) ==
  [k EXCEPT !.list = Insert(@, Head(k.res), i, type),
            !.res = Tail(@)]

\* MessageQueue_alloc copies a Resource it then forgets, and leaves num_msg
\* as it finds it.
NewQueue(k, i) ==
  [k EXCEPT !.list = Insert(@, Head(k.mqs), i, DSOS_MQ),
            !.msgs[Head(k.mqs)] = <<>>,
            !.mqs = Tail(@),
            !.res = Tail(@)]

\* Mutation: the block is taken before the id is looked up.
OpenResource_AllocatesFirst(k, i, type, mode) ==
  IF CREATE \notin mode THEN OpenExisting(k, i, type, mode)
  ELSE IF k.res = <<>> THEN Faults(k)
  ELSE IF ById(k.list, i) # {} THEN Fails([k EXCEPT !.res = Tail(@)], DSOS_ERESOURCECREATE)
  ELSE OpenExisting(NewResource(k, i, type), i, type, mode)

OpenResource(k, i, type, mode) ==
  IF CREATE \notin mode THEN OpenExisting(k, i, type, mode)
  ELSE IF ById(k.list, i) # {} THEN Fails(k, DSOS_ERESOURCECREATE)
  ELSE IF k.res = <<>> THEN Faults(k)
  ELSE OpenExisting(NewResource(k, i, type), i, type, mode)

\* Mutation: create does not look whether the queue exists.
OpenQueue_CreatesTwice(k, i, type, mode) ==
  IF mode # {CREATE} THEN OpenExisting(k, i, type, mode)
  ELSE IF k.mqs = <<>> \/ k.res = <<>> THEN Faults(k)
  ELSE OpenExisting(NewQueue(k, i), i, type, mode)

\* The own code of mq_open: only the mode that is exactly CREATE creates.
OpenQueue(k, i, type, mode) ==
  IF mode # {CREATE} THEN OpenExisting(k, i, type, mode)
  ELSE IF ById(k.list, i) # {} THEN Fails(k, DSOS_ERESOURCECREATE)
  ELSE IF k.mqs = <<>> \/ k.res = <<>> THEN Faults(k)
  ELSE OpenExisting(NewQueue(k, i), i, type, mode)

MqOpen(k, i, type, mode) ==
  IF type = DSOS_MQ THEN OpenQueue(k, i, type, mode)
  ELSE LET opened == OpenResource(k, i, type, mode)
       IN  IF opened.fault THEN opened ELSE OpenQueue(opened, i, type, mode)

\* The call leaves the kernel in state k.
Becomes(k) ==
  IF k.fault THEN Crash
  ELSE /\ resources_list' = k.list
       /\ mq_allocator' = k.mqs
       /\ resource_allocator' = k.res
       /\ messages' = k.msgs
       /\ desc' = k.desc
       /\ descriptors' = [descriptors EXCEPT ![running] = k.fds]
       /\ last_fd' = [last_fd EXCEPT ![running] = k.last_fd]
       /\ Returns(k.ret)
       /\ SecondArg(NoMsg)
       /\ UNCHANGED <<num_msg, messages_allocator, system>>

MayOpen ==
  /\ last_fd[running] < MaxFd
  /\ "exhaust" \in Liberties \/ (resource_allocator # <<>> /\ DOMAIN desc # Desc)

internal_openResource(i, mode) ==
  /\ MayOpen
  /\ Becomes(OpenResource(Kernel, i, PLAIN, mode))

internal_mqOpen(i, type, mode) ==
  /\ MayOpen
  /\ type = DSOS_MQ \/ "plain" \in Liberties
  /\ Becomes(MqOpen(Kernel, i, type, mode))

-----------------------------------------------------------------------------
(* Closing *)

\* The resources once the descriptors ds are out of their lists.
Released(ds) ==
  [b \in DOMAIN resources_list |-> [resources_list[b] EXCEPT !.opened = @ \ ds]]

\* Descriptors and their pointers go back to the pools.
Descriptors_free(ds) ==
  /\ resources_list' = Released(ds)
  /\ desc' = [d \in DOMAIN desc \ ds |-> desc[d]]

\* internal_mqClose is internal_closeResource.
internal_closeResource(fd) ==
  IF ByFd(fd) = {}
  THEN /\ Returns(DSOS_ERESOURCECLOSE)
       /\ UNCHANGED <<syscall_arg1, mailVars, system>>
  ELSE /\ Descriptors_free(ByFd(fd))
       /\ descriptors' = [descriptors EXCEPT ![running] = @ \ ByFd(fd)]
       /\ Returns(0)
       /\ UNCHANGED <<syscall_arg1, mq_allocator, resource_allocator, queues, last_fd, system>>

\* Mutation: nobody looks whether the resource is in use.
InUse_Never(i) == FALSE

InUse(i) == \E b \in ById(resources_list, i) : resources_list[b].opened # {}

Detached(i) ==
  [b \in DOMAIN resources_list \ ById(resources_list, i) |-> resources_list[b]]

\* A block goes back to the pool it is from.  Resource_free of a queue's block
\* is refused (OutOfRange or UnalignedFree), and nobody looks at the result.
internal_destroyResource(i) ==
  LET found == ById(resources_list, i)
      b     == CHOOSE x \in found : TRUE
  IN  /\ "destroy_mq" \in Liberties \/ found \cap MqBlock = {}
      /\ CASE found = {} ->
                Returns(DSOS_ERESOURCECLOSE) /\ UNCHANGED mailVars
           [] found # {} /\ InUse(i) ->
                Returns(DSOS_ERESOURCEINUSE) /\ UNCHANGED mailVars
           [] OTHER ->
                /\ resources_list' = Detached(i)
                /\ resource_allocator' = IF b \in ResBlock THEN <<b>> \o resource_allocator
                                         ELSE resource_allocator
                /\ Returns(0)
                /\ UNCHANGED <<mq_allocator, queues, files>>
      /\ UNCHANGED <<syscall_arg1, system>>

\* Mutation: the messages left in the queue are not freed.
MessageQueue_free_LeaksMessages(b) ==
  /\ messages' = [messages EXCEPT ![b] = <<>>]
  /\ mq_allocator' = <<b>> \o mq_allocator
  /\ UNCHANGED messages_allocator

\* MessageQueue_free returns the messages and the block, not the Resource that
\* MessageQueue_alloc took, and leaves num_msg as it is.
MessageQueue_free(b) ==
  /\ messages' = [messages EXCEPT ![b] = <<>>]
  /\ messages_allocator' = messages_allocator + Len(messages[b])
  /\ mq_allocator' = <<b>> \o mq_allocator

internal_mqUnlink(i) ==
  LET found == ById(resources_list, i)
  IN  /\ found \subseteq MqBlock
      /\ CASE found = {} ->
                Returns(DSOS_ERESOURCECLOSE) /\ UNCHANGED mailVars
           [] found # {} /\ InUse(i) ->
                Returns(DSOS_ERESOURCEINUSE) /\ UNCHANGED mailVars
           [] OTHER ->
                /\ "undrained" \in Liberties \/ \A b \in found : messages[b] = <<>>
                /\ resources_list' = Detached(i)
                /\ \A b \in found : MessageQueue_free(b)
                /\ Returns(0)
                /\ UNCHANGED <<resource_allocator, num_msg, files>>
      /\ UNCHANGED <<syscall_arg1, system>>

-----------------------------------------------------------------------------
(* Sending and receiving *)

QueueOf(fd) == desc[CHOOSE d \in ByFd(fd) : TRUE].resource

\* The call finds a full, or an empty, queue and blocks.
BlocksInSend(fd)    == ByFd(fd) # {} /\ num_msg[QueueOf(fd)] = MQ_MAX_MSG_SIZE
BlocksInReceive(fd) == ByFd(fd) # {} /\ num_msg[QueueOf(fd)] = 0

IsQueue(fd) == ByFd(fd) # {} => QueueOf(fd) \in MqBlock

\* Mutation: the counter is not incremented.
Enqueue_NotCounted(q, m) ==
  /\ messages' = [messages EXCEPT ![q] = Append(@, m)]
  /\ messages_allocator' = messages_allocator - 1
  /\ UNCHANGED num_msg
\* Mutation: the message goes in front of the others.
Enqueue_AtFront(q, m) ==
  /\ messages' = [messages EXCEPT ![q] = <<m>> \o @]
  /\ num_msg' = [num_msg EXCEPT ![q] = @ + 1]
  /\ messages_allocator' = messages_allocator - 1

Enqueue(q, m) ==
  /\ messages' = [messages EXCEPT ![q] = Append(@, m)]
  /\ num_msg' = [num_msg EXCEPT ![q] = @ + 1]
  /\ messages_allocator' = messages_allocator - 1

\* Mutation: the first message is handed out and stays in the queue.
Dequeue_NotDetached(q) == UNCHANGED queues

\* Mutation: the counter is not decremented.
Dequeue_NotCounted(q) ==
  /\ messages' = [messages EXCEPT ![q] = Tail(@)]
  /\ messages_allocator' = messages_allocator + 1
  /\ UNCHANGED num_msg

Dequeue(q) ==
  /\ messages' = [messages EXCEPT ![q] = Tail(@)]
  /\ num_msg' = [num_msg EXCEPT ![q] = @ - 1]
  /\ messages_allocator' = messages_allocator + 1

\* internal_mqSend, when it does not block.  Message_alloc does not look at
\* the block it gets.
internal_mqSend(fd, m) ==
  /\ IsQueue(fd) /\ ~BlocksInSend(fd)
  /\ "exhaust" \in Liberties \/ messages_allocator > 0
  /\ IF ByFd(fd) = {}
     THEN /\ Returns(DSOS_ERESOURCESEND) /\ SecondArg(m)
          /\ UNCHANGED <<mailVars, system>>
     ELSE IF messages_allocator = 0 THEN Crash
     ELSE /\ Enqueue(QueueOf(fd), m)
          /\ Returns(0) /\ SecondArg(m)
          /\ UNCHANGED <<blocks, files, system>>

\* internal_mqReceive, when it does not block.  The message replaces the
\* caller's second argument; List_detach follows the null `first` of an empty
\* list before assert(msg_read) is reached.
internal_mqReceive(fd) ==
  /\ IsQueue(fd) /\ ~BlocksInReceive(fd)
  /\ IF ByFd(fd) = {}
     THEN /\ Returns(DSOS_ERESOURCERECV) /\ SecondArg(NoMsg)
          /\ UNCHANGED <<mailVars, system>>
     ELSE LET q == QueueOf(fd)
          IN  IF messages[q] = <<>> THEN Crash
              ELSE /\ Dequeue(q)
                   /\ Returns(0) /\ SecondArg(Head(messages[q]))
                   /\ UNCHANGED <<blocks, files, system>>

-----------------------------------------------------------------------------
(* The other side of the processes' lives *)

\* The loop of internal_exit, when a parent waits for the process: every
\* descriptor is released.
ReleaseAll(p) == Descriptors_free(descriptors[p])

\* PCB_alloc: the block of a process that died begins a new life.
FreshPcb(p) ==
  /\ descriptors' = [descriptors EXCEPT ![p] = {}]
  /\ last_fd' = [last_fd EXCEPT ![p] = 0]

-----------------------------------------------------------------------------
(* Processes that come and go, in place of the process manager *)

InUserCode == system = "up" /\ running # Null

\* The running process exits and another process starts in its PCB.  Nobody
\* releases the descriptors of a process whose parent was not waiting.
ExitAndRespawn(awaited) ==
  /\ "unclosed" \in Liberties \/ descriptors[running] = {}
  /\ IF awaited THEN ReleaseAll(running) ELSE UNCHANGED <<resources_list, desc>>
  /\ FreshPcb(running)
  /\ running' \in Proc
  /\ UNCHANGED <<retvalue, syscall_arg1, mq_allocator, resource_allocator, queues, system>>

\* A call that blocks: the caller is put to sleep, and the code then stores the
\* result in the PCB that runs next.  With nobody ready it crashes.
Park(code, arg) ==
  \/ /\ running' \in Proc \ {running}
     /\ retvalue' = [retvalue EXCEPT ![running'] = code]
     /\ SecondArg(arg)
     /\ UNCHANGED <<mailVars, system>>
  \/ /\ "no_sleeper" \in Liberties
     /\ Crash /\ UNCHANGED running

\* The timer interrupt and the other calls give the CPU to any process.
Reschedule ==
  /\ running' \in Proc \ {running}
  /\ UNCHANGED <<retvalue, system, syscall_arg1, mailVars>>

\* Bound: the fds a process uses, those it got and one it never got.
KnownFds == 0..last_fd[running]

MailCall ==
  \/ \E i \in Ids, mode \in Modes : internal_openResource(i, mode)
  \/ \E i \in Ids, type \in {DSOS_MQ, PLAIN}, mode \in Modes : internal_mqOpen(i, type, mode)
  \/ \E fd \in KnownFds : internal_closeResource(fd)
  \/ \E i \in Ids : internal_destroyResource(i)
  \/ \E i \in Ids : internal_mqUnlink(i)
  \/ \E fd \in KnownFds, m \in Msgs : internal_mqSend(fd, m)
  \/ \E fd \in KnownFds : internal_mqReceive(fd)

BlockingCall ==
  \/ \E fd \in KnownFds, m \in Msgs : IsQueue(fd) /\ BlocksInSend(fd) /\ Park(DSOS_MQ_FULL, m)
  \/ \E fd \in KnownFds : IsQueue(fd) /\ BlocksInReceive(fd) /\ Park(DSOS_MQ_EMPTY, NoMsg)

Init ==
  /\ running \in Proc
  /\ system = "up"
  /\ retvalue = [p \in Proc |-> 0]
  /\ syscall_arg1 = [p \in Proc |-> NoMsg]
  /\ resources_list = [b \in {} |-> <<>>]
  /\ messages = [b \in MqBlock |-> <<>>]
  /\ num_msg = [b \in MqBlock |-> 0]
  /\ mq_allocator = [i \in 1..MAX_NUM_RESOURCES |-> i]
  /\ resource_allocator = [i \in 1..MAX_NUM_RESOURCES |-> MAX_NUM_RESOURCES + i]
  /\ messages_allocator = MAX_NUM_MESSAGES
  /\ desc = [d \in {} |-> <<>>]
  /\ descriptors = [p \in Proc |-> {}]
  /\ last_fd = [p \in Proc |-> 0]

Next ==
  /\ InUserCode
  /\ \/ MailCall /\ UNCHANGED running
     \/ BlockingCall
     \/ \E awaited \in BOOLEAN : ExitAndRespawn(awaited)
     \/ Reschedule

Spec == Init /\ [][Next]_vars

-----------------------------------------------------------------------------
(* Properties *)

Listed == DOMAIN resources_list
Queues == Listed \cap MqBlock

Resource   == [id: Ids, type: {DSOS_MQ, PLAIN}, opened: SUBSET Desc]
Descriptor == [pcb: Proc, resource: MqBlock \cup ResBlock, fd: 0..MaxFd]

\* Every variable has its type; blocks of the two kinds never mix.
TypeOK ==
  /\ running \in Proc
  /\ system \in {"up", "crashed"}
  /\ retvalue \in [Proc -> Int]
  /\ syscall_arg1 \in [Proc -> Msgs \cup {NoMsg}]
  /\ Listed \subseteq MqBlock \cup ResBlock
  /\ resources_list \in [Listed -> Resource]
  /\ messages \in [MqBlock -> Seq(Msgs)]
  /\ num_msg \in [MqBlock -> Int]
  /\ mq_allocator \in Seq(MqBlock)
  /\ resource_allocator \in Seq(ResBlock)
  /\ messages_allocator \in Nat
  /\ DOMAIN desc \subseteq Desc
  /\ desc \in [DOMAIN desc -> Descriptor]
  /\ descriptors \in [Proc -> SUBSET Desc]
  /\ last_fd \in [Proc -> 0..MaxFd + 1]

\* A block is free once or in the list, never both: the list is intrusive, and
\* mq_open writes in the block it gets.  An id names one block, or else the
\* second queue of a name could be neither opened nor unlinked.
EachBlockInOnePlace ==
  /\ IsInjective(mq_allocator) /\ IsInjective(resource_allocator)
  /\ Listed \cap (Range(mq_allocator) \cup Range(resource_allocator)) = {}
  /\ \A b, c \in Listed : resources_list[b].id = resources_list[c].id => b = c

\* No descriptor dangles: what a process has open is in the resource list, and
\* that resource counts it among its users, so that unlink and destroy refuse.
\* An fd names one descriptor of a process, and the next fd is a new one.
DescriptorsAgree ==
  \A p \in Proc : \A d \in descriptors[p] :
    /\ d \in DOMAIN desc /\ desc[d].pcb = p
    /\ desc[d].resource \in Listed
    /\ d \in resources_list[desc[d].resource].opened
    /\ desc[d].fd < last_fd[p]
    /\ \A e \in descriptors[p] : desc[e].fd = desc[d].fd => e = d

\* The items of the queues, listed or not.
QueuedItems == UNION {{q} \X DOMAIN messages[q] : q \in MqBlock}

\* A Message block is free or in a queue, through sends, receives, unlinks of
\* queues that still hold messages, and the reuse of queue blocks.
MessagesConserved ==
  messages_allocator + Cardinality(QueuedItems) = MAX_NUM_MESSAGES

\* The Resource blocks that are free or in the list.
ResourceStock == Len(resource_allocator) + Cardinality(Listed \cap ResBlock)

\* A Resource block is free or in the list, but for the one that MessageQueue_alloc
\* takes for each new queue (disastrOS_message_queue.c:42 copies and forgets it):
\* no other call, failed or not, changes their number.
OnlyNewQueueLosesResource ==
  [][\/ ResourceStock' = ResourceStock
     \/ /\ ResourceStock' = ResourceStock - 1
        /\ \E q \in MqBlock \ Queues : Queues' = Queues \cup {q}]_vars

\* The counter that decides whether send and receive block is the length of the
\* list it counts, and so within the capacity.
CounterIsLength ==
  \A q \in Queues : num_msg[q] = Len(messages[q]) /\ num_msg[q] <= MQ_MAX_MSG_SIZE

\* No call follows a null pointer.
NeverFaults == system = "up"

\* A call that reports an error has done nothing: README.md gives every call "<0
\* if not" successful, and a caller who sees it has no fd to undo the rest with.
FailedCallChangesNothing ==
  [][MailCall /\ retvalue'[running] < 0 => UNCHANGED mailVars]_vars

\* A step that takes nothing from anybody: it leaves every message, descriptor
\* and name as it was, and adds at most one resource and one descriptor.  If the
\* resource is a queue, nobody has it open; the descriptor is the caller's, for a
\* plain resource.
OnlyAdds ==
  /\ UNCHANGED <<num_msg, messages_allocator>>
  /\ \A q \in Queues : messages'[q] = messages[q]
  /\ \A b \in Listed : b \in Listed' /\ resources_list'[b].id = resources_list[b].id
  /\ \A d \in DOMAIN desc : d \in DOMAIN desc' /\ desc'[d] = desc[d]
  /\ \A b, c \in Listed' \ Listed : b = c
  /\ \A q \in Queues' \ Queues : resources_list'[q].opened = {}
  /\ \A d, e \in DOMAIN desc' \ DOMAIN desc : d = e
  /\ \A d \in DOMAIN desc' \ DOMAIN desc :
       /\ desc'[d].pcb = running /\ desc'[d].resource \in Listed'
       /\ resources_list'[desc'[d].resource].type = PLAIN

\* Also when pools run out, or mq_open is given the type of a plain resource, where
\* a call that reports an error may have done something (disastrOS_mq_open.c:43
\* and :20), nobody loses anything: it only adds.
FailedCallOnlyAdds ==
  [][OnlyAdds \/ ~(retvalue'[running] < 0 /\ MailCall)]_vars

-----------------------------------------------------------------------------
(* The promise to the callers *)

\* The block of the queue i.
Block(i) == CHOOSE q \in Queues : resources_list[q].id = i

Handles ==
  LET Handle(d) == [pcb |-> desc[d].pcb, fd |-> desc[d].fd,
                    id |-> resources_list[desc[d].resource].id]
  IN  {Handle(d) : d \in UNION Range(descriptors)}

Promise == INSTANCE MessageQueues WITH
  Fds          <- 0..MaxFd,
  Capacity     <- MQ_MAX_MSG_SIZE,
  OpenErrors   <- {DSOS_ERESOURCECREATE, DSOS_ERESOURCEOPEN, DSOS_ERESOURCENOEXCL,
                   DSOS_ERESOURCENOFD},
  CloseErrors  <- {DSOS_ERESOURCECLOSE, DSOS_ERESOURCEINUSE},
  SendError    <- DSOS_ERESOURCESEND,
  ReceiveError <- DSOS_ERESOURCERECV,
  Full         <- DSOS_MQ_FULL,
  Empty        <- DSOS_MQ_EMPTY,
  queue        <- [i \in {resources_list[q].id : q \in Queues} |-> messages[Block(i)]],
  plain        <- {resources_list[b].id : b \in Listed \ Queues},
  handles      <- Handles,
  argument     <- syscall_arg1,
  result       <- retvalue

\* To the callers every queue is a bounded FIFO.  A receive that answers 0 has
\* taken the first message off a queue the caller has open, so that messages are
\* received once each and in the order they were sent; a send that answers 0 has
\* appended its message; a call that answers with an error has done nothing; only
\* sends to full queues and receives from empty ones block; and what is open does
\* not disappear.  The message is where the tests look for it after a receive
\* (disastrOS_test.c:49), in the caller's PCB, and not in the buffer of README.md:12.
QueuesKeepPromise == Promise!Spec

=============================================================================
