---------------------------- MODULE PromiseProofs ----------------------------
(***************************************************************************)
(* The calls keep their promise: every step of Mailboxes is, to the        *)
(* callers, a step of MessageQueues or none.                               *)
(*                                                                         *)
(* QueueMap, PlainIds and HandleSet are the refinement mapping as          *)
(* functions of the resource list, the messages and the descriptors, so    *)
(* that they can be followed through the kernel states of an open as well. *)
(* An open ends in one of five ways (OpenedAs): it faults, it fails with   *)
(* an error of its own and changes nothing, or it adds a descriptor for a  *)
(* block that was listed, for a new plain resource or for a new queue, and *)
(* returns its fd.                                                         *)
(***************************************************************************)
EXTENDS MailboxesProofs

QueueBlocks(list) == DOMAIN list \cap MqBlock

QueueMap(list, msgs) ==
  [i \in {list[q].id : q \in QueueBlocks(list)} |->
     msgs[CHOOSE q \in QueueBlocks(list) : list[q].id = i]]

PlainIds(list) == {list[b].id : b \in DOMAIN list \ QueueBlocks(list)}

Handle(list, dsc, d) ==
  [pcb |-> dsc[d].pcb, fd |-> dsc[d].fd, id |-> list[dsc[d].resource].id]

HandleSet(list, dsc, ds) == {Handle(list, dsc, d) : d \in ds}

\* Of the variables: what the promise calls queue, plain and handles.
OpenDescs   == UNION Range(descriptors)
QueuesSeen  == QueueMap(resources_list, messages)
PlainSeen   == PlainIds(resources_list)
HandlesSeen == HandleSet(resources_list, desc, OpenDescs)
NamesSeen   == DOMAIN QueuesSeen \cup PlainSeen

\* What an open that is refused returns.
OpenErrs == {DSOS_ERESOURCECREATE, DSOS_ERESOURCEOPEN, DSOS_ERESOURCENOEXCL,
             DSOS_ERESOURCENOFD}

\* The running process is told code, and has arg as its second argument.
Answered(code, arg) ==
  /\ retvalue' = [retvalue EXCEPT ![running] = code]
  /\ syscall_arg1' = [syscall_arg1 EXCEPT ![running] = arg]

-----------------------------------------------------------------------------
(* The steps of the promise *)

PromiseStep == [Promise!Next]_(Promise!vars)

USE DEF Handles, HandlesSeen, QueuesSeen, PlainSeen, NamesSeen, QueueMap, PlainIds,
        HandleSet, Handle, OpenDescs, QueueBlocks, Block, Queues, Listed

LEMMA SeenStutter ==
  ASSUME UNCHANGED QueuesSeen, UNCHANGED PlainSeen, UNCHANGED HandlesSeen,
         UNCHANGED syscall_arg1, UNCHANGED retvalue
  PROVE  PromiseStep
  BY DEF PromiseStep, Promise!vars

\* A call is refused with an error, and the argument that goes with it.
LEMMA SeenRefused ==
  ASSUME running \in Proc, NEW code, NEW arg, Answered(code, arg),
         \/ code \in OpenErrs \cup {DSOS_ERESOURCERECV} /\ arg = NoMsg
         \/ code \in {DSOS_ERESOURCECLOSE, DSOS_ERESOURCEINUSE} /\ arg = syscall_arg1[running]
         \/ code = DSOS_ERESOURCESEND /\ arg \in Msgs,
         UNCHANGED QueuesSeen, UNCHANGED PlainSeen, UNCHANGED HandlesSeen
  PROVE  PromiseStep
<1>1. Promise!Refuse(running, code, arg)
  BY DEF Promise!Refuse, Promise!Answers, Answered
<1>2. Promise!Refusal(running)
  BY <1>1 DEF Promise!Refusal, OpenErrs
<1> QED
  BY <1>2 DEF PromiseStep, Promise!Next

\* The caller of h blocks, and n is told.
LEMMA SeenBlocked ==
  ASSUME NEW h \in HandlesSeen, NEW n \in Proc, n # h.pcb, h.id \in DOMAIN QueuesSeen,
         NEW code, NEW arg,
         retvalue' = [retvalue EXCEPT ![n] = code],
         syscall_arg1' = [syscall_arg1 EXCEPT ![h.pcb] = arg],
         \/ /\ Len(QueuesSeen[h.id]) = MQ_MAX_MSG_SIZE
            /\ code = DSOS_MQ_FULL /\ arg \in Msgs
         \/ QueuesSeen[h.id] = <<>> /\ code = DSOS_MQ_EMPTY /\ arg = NoMsg,
         UNCHANGED QueuesSeen, UNCHANGED PlainSeen, UNCHANGED HandlesSeen
  PROVE  PromiseStep
<1>1. Promise!Block(h, n, code, arg)
  BY DEF Promise!Block
<1>2. \/ arg \in Msgs /\ Promise!BlockInSend(h, n, arg)
      \/ Promise!BlockInReceive(h, n)
  BY <1>1 DEF Promise!BlockInSend, Promise!BlockInReceive
<1>3. Promise!UseQueue(h) /\ h \in Handles
  <2> HIDE DEF HandlesSeen, QueuesSeen, HandleSet
  <2>1. h \in Handles
    BY DEF HandlesSeen, HandleSet
  <2>2. h.id \in DOMAIN [i \in {resources_list[q].id : q \in Queues} |-> messages[Block(i)]]
    BY DEF QueuesSeen
  <2> QED
    BY <1>2, <2>1, <2>2 DEF Promise!UseQueue
<1> QED
  BY <1>3 DEF PromiseStep, Promise!Next

LEMMA SeenOpen ==
  ASSUME running \in Proc, NEW fd \in 0..MaxFd, NEW i \in Ids,
         \A h \in HandlesSeen : h.pcb = running => h.fd # fd,
         HandlesSeen' = HandlesSeen \cup {[pcb |-> running, fd |-> fd, id |-> i]},
         \/ i \in NamesSeen /\ UNCHANGED QueuesSeen /\ UNCHANGED PlainSeen
         \/ /\ i \notin NamesSeen /\ UNCHANGED PlainSeen
            /\ QueuesSeen' = [j \in DOMAIN QueuesSeen \cup {i} |->
                                IF j = i THEN <<>> ELSE QueuesSeen[j]]
         \/ /\ i \notin NamesSeen /\ UNCHANGED QueuesSeen
            /\ PlainSeen' = PlainSeen \cup {i},
         Answered(fd, NoMsg)
  PROVE  PromiseStep
<1>1. Promise!Open(running, fd, i)
  BY DEF Promise!Open, Promise!Answers, Promise!Named, Answered
<1> QED
  BY <1>1 DEF PromiseStep, Promise!Next

LEMMA SeenClose ==
  ASSUME NEW h \in HandlesSeen, h.pcb = running, HandlesSeen' = HandlesSeen \ {h},
         UNCHANGED QueuesSeen, UNCHANGED PlainSeen, Answered(0, syscall_arg1[running])
  PROVE  PromiseStep
<1>1. Promise!Close(h) /\ h \in Handles
  BY DEF Promise!Close, Promise!Answers, Answered
<1> QED
  BY <1>1 DEF PromiseStep, Promise!Next

LEMMA SeenExit ==
  ASSUME NEW p \in Proc, HandlesSeen' = {h \in HandlesSeen : h.pcb # p},
         UNCHANGED QueuesSeen, UNCHANGED PlainSeen,
         UNCHANGED syscall_arg1, UNCHANGED retvalue
  PROVE  PromiseStep
<1>1. Promise!Exit(p)
  BY DEF Promise!Exit
<1> QED
  BY <1>1 DEF PromiseStep, Promise!Next

LEMMA SeenRemoved ==
  ASSUME running \in Proc, NEW i \in NamesSeen, \A h \in HandlesSeen : h.id # i,
         QueuesSeen' = [j \in DOMAIN QueuesSeen \ {i} |-> QueuesSeen[j]],
         PlainSeen' = PlainSeen \ {i},
         UNCHANGED HandlesSeen, Answered(0, syscall_arg1[running])
  PROVE  PromiseStep
<1>1. PICK p \in Proc : p = running
  OBVIOUS
<1>2. Promise!Remove(p, i) /\ i \in Promise!Named
  BY <1>1 DEF Promise!Remove, Promise!Answers, Promise!Named, Answered
<1> QED
  BY <1>2 DEF PromiseStep, Promise!Next

LEMMA SeenSend ==
  ASSUME NEW h \in HandlesSeen, h.pcb = running, h.id \in DOMAIN QueuesSeen, NEW m \in Msgs,
         Len(QueuesSeen[h.id]) < MQ_MAX_MSG_SIZE,
         QueuesSeen' = [QueuesSeen EXCEPT ![h.id] = Append(@, m)],
         Answered(0, m),
         UNCHANGED PlainSeen, UNCHANGED HandlesSeen
  PROVE  PromiseStep
<1>1. Promise!Send(h, m) /\ h \in Handles
  BY DEF Promise!Send, Promise!Answers, Answered
<1>2. h.id \in DOMAIN [i \in {resources_list[q].id : q \in Queues} |-> messages[Block(i)]]
  OBVIOUS
<1>3. Promise!UseQueue(h)
  <2> HIDE DEF HandlesSeen, QueuesSeen, HandleSet
  <2>1. \E n \in Msgs : Promise!Send(h, n)
    BY <1>1
  <2> QED
    BY <1>2, <2>1 DEF Promise!UseQueue
<1> QED
  BY <1>1, <1>3 DEF PromiseStep, Promise!Next

LEMMA SeenReceive ==
  ASSUME NEW h \in HandlesSeen, h.pcb = running, h.id \in DOMAIN QueuesSeen,
         QueuesSeen[h.id] # <<>>,
         QueuesSeen' = [QueuesSeen EXCEPT ![h.id] = Tail(@)],
         Answered(0, Head(QueuesSeen[h.id])),
         UNCHANGED PlainSeen, UNCHANGED HandlesSeen
  PROVE  PromiseStep
<1>1. Promise!Receive(h) /\ h \in Handles
  BY DEF Promise!Receive, Promise!Answers, Answered
<1>2. h.id \in DOMAIN [i \in {resources_list[q].id : q \in Queues} |-> messages[Block(i)]]
  OBVIOUS
<1>3. Promise!UseQueue(h)
  BY <1>1, <1>2 DEF Promise!UseQueue
<1> QED
  BY <1>1, <1>3 DEF PromiseStep, Promise!Next

HIDE DEF Handles, HandlesSeen, QueuesSeen, PlainSeen, NamesSeen, QueueMap, PlainIds,
         HandleSet, Handle, OpenDescs, QueueBlocks, Block, Queues, Listed


-----------------------------------------------------------------------------
(* The refinement mapping *)

IdsUnique(list) == \A b, c \in DOMAIN list : list[b].id = list[c].id => b = c

\* The map is given by its ids and by what it says of each queue block.
LEMMA QueueMapIs ==
  ASSUME NEW list, IdsUnique(list), NEW msgs, NEW f,
         f = [i \in DOMAIN f |-> f[i]],
         DOMAIN f = {list[q].id : q \in QueueBlocks(list)},
         \A q \in QueueBlocks(list) : f[list[q].id] = msgs[q]
  PROVE  QueueMap(list, msgs) = f
<1>1. ASSUME NEW i \in DOMAIN f
      PROVE  msgs[CHOOSE q \in QueueBlocks(list) : list[q].id = i] = f[i]
  <2> DEFINE q == CHOOSE q \in QueueBlocks(list) : list[q].id = i
  <2>1. q \in QueueBlocks(list) /\ list[q].id = i
    BY <1>1
  <2> HIDE DEF q
  <2>2. f[i] = msgs[q]
    BY <2>1
  <2> QED
    BY <2>2 DEF q
<1>2. QueueMap(list, msgs) = [i \in DOMAIN f |-> f[i]]
  BY <1>1 DEF QueueMap
<1> QED
  BY <1>2

LEMMA QueueMapAt ==
  ASSUME NEW list, IdsUnique(list), NEW msgs, NEW q \in QueueBlocks(list)
  PROVE  QueueMap(list, msgs)[list[q].id] = msgs[q]
<1>1. \A r \in QueueBlocks(list) : list[r].id = list[q].id => r = q
  BY DEF IdsUnique, QueueBlocks
<1>2. (CHOOSE r \in QueueBlocks(list) : list[r].id = list[q].id) = q
  BY <1>1
<1> QED
  BY <1>2 DEF QueueMap

LEMMA QueueMapDomain ==
  ASSUME NEW list, NEW msgs
  PROVE  DOMAIN QueueMap(list, msgs) = {list[q].id : q \in QueueBlocks(list)}
  BY DEF QueueMap

\* The same blocks with the same ids: only the users may differ.
SameNames(list, new) ==
  DOMAIN new = DOMAIN list /\ \A b \in DOMAIN list : new[b].id = list[b].id

\* The same queue blocks with the same ids.
SameQueues(list, new) ==
  /\ QueueBlocks(new) = QueueBlocks(list)
  /\ \A q \in QueueBlocks(list) : new[q].id = list[q].id

LEMMA QueueMapSame ==
  ASSUME NEW list, NEW new, SameQueues(list, new), IdsUnique(list), IdsUnique(new),
         NEW msgs, NEW msgs1, \A q \in QueueBlocks(list) : msgs1[q] = msgs[q]
  PROVE  QueueMap(new, msgs1) = QueueMap(list, msgs)
<1> DEFINE f == QueueMap(list, msgs)
<1>1. /\ f = [i \in DOMAIN f |-> f[i]]
      /\ DOMAIN f = {list[q].id : q \in QueueBlocks(list)}
      /\ \A q \in QueueBlocks(list) : f[list[q].id] = msgs[q]
  <2>1. f = [i \in DOMAIN f |-> f[i]]
    BY DEF QueueMap
  <2>2. DOMAIN f = {list[q].id : q \in QueueBlocks(list)}
    BY DEF QueueMap
  <2>3. \A q \in QueueBlocks(list) : f[list[q].id] = msgs[q]
    BY QueueMapAt
  <2> QED
    BY <2>1, <2>2, <2>3
<1> HIDE DEF f
<1>2. /\ DOMAIN f = {new[q].id : q \in QueueBlocks(new)}
      /\ \A q \in QueueBlocks(new) : f[new[q].id] = msgs1[q]
  BY <1>1 DEF SameQueues
<1>3. QueueMap(new, msgs1) = f
  BY <1>1, <1>2, QueueMapIs
<1> QED
  BY <1>3 DEF f

LEMMA NamesSame ==
  ASSUME NEW list, NEW new, SameNames(list, new)
  PROVE  /\ SameQueues(list, new) /\ PlainIds(new) = PlainIds(list)
         /\ IdsUnique(list) => IdsUnique(new)
  BY DEF SameNames, SameQueues, PlainIds, QueueBlocks, IdsUnique

\* Descriptors that stay the same are seen the same, if their resources stay.
LEMMA HandlesSame ==
  ASSUME NEW list, NEW new, NEW dsc, NEW dsc1, NEW ds,
         \A d \in ds : dsc1[d] = dsc[d] /\ new[dsc[d].resource].id = list[dsc[d].resource].id
  PROVE  HandleSet(new, dsc1, ds) = HandleSet(list, dsc, ds)
<1>1. \A d \in ds : Handle(new, dsc1, d) = Handle(list, dsc, d)
  BY DEF Handle
<1> QED
  BY <1>1 DEF HandleSet

-----------------------------------------------------------------------------
(* Opening, on the kernel states *)

\* What an open makes of the kernel state k.
OpenedAs(k, k1, i, type) ==
  \/ k1.fault
  \/ \E code \in OpenErrs : k1 = Fails(k, code)
  \/ /\ FreeDescs(k) # {}
     /\ \/ \E b \in ById(k.list, i) : k.list[b].type = type /\ k1 = AddDescriptor(k, b)
        \/ /\ k.res # <<>> /\ ById(k.list, i) = {}
           /\ \/ /\ type = PLAIN
                 /\ k1 = AddDescriptor(NewResource(k, i, type), Head(k.res))
              \/ /\ type = DSOS_MQ /\ k.mqs # <<>>
                 /\ k1 = AddDescriptor(NewQueue(k, i), Head(k.mqs))

\* The next free blocks are not listed, and of their kinds.
LEMMA FreeHeads ==
  ASSUME NEW k, KernelOK(k)
  PROVE  /\ k.res # <<>> => /\ Head(k.res) \in ResBlock \ MqBlock
                            /\ Head(k.res) \notin DOMAIN k.list
         /\ k.mqs # <<>> => Head(k.mqs) \in MqBlock /\ Head(k.mqs) \notin DOMAIN k.list
<1>1. /\ k.mqs \in Seq(MqBlock) /\ k.res \in Seq(ResBlock)
      /\ DOMAIN k.list \cap (Range(k.mqs) \cup Range(k.res)) = {}
  BY DEF KernelOK, Placed
<1>2. k.res # <<>> => Head(k.res) \in Range(k.res) /\ Range(k.res) \subseteq ResBlock
  BY <1>1, TailElements, RangeOfSeq
<1>3. k.mqs # <<>> => Head(k.mqs) \in Range(k.mqs) /\ Range(k.mqs) \subseteq MqBlock
  BY <1>1, TailElements, RangeOfSeq
<1> QED
  BY <1>1, <1>2, <1>3, BlockFacts

LEMMA OpenExistingAs ==
  ASSUME NEW k, NEW i, NEW type, NEW mode
  PROVE  OpenedAs(k, OpenExisting(k, i, type, mode), i, type)
<1> DEFINE b == CHOOSE x \in ById(k.list, i) : TRUE
<1>1. ById(k.list, i) # {} => b \in ById(k.list, i)
  OBVIOUS
<1>2. {DSOS_ERESOURCEOPEN, DSOS_ERESOURCENOEXCL, DSOS_ERESOURCENOFD} \subseteq OpenErrs
  BY DEF OpenErrs
<1>3. \/ \E code \in OpenErrs : OpenExisting(k, i, type, mode) = Fails(k, code)
      \/ /\ ById(k.list, i) # {} /\ FreeDescs(k) # {} /\ k.list[b].type = type
         /\ OpenExisting(k, i, type, mode) = AddDescriptor(k, b)
  BY <1>2 DEF OpenExisting
<1> QED
  BY <1>1, <1>3 DEF OpenedAs

\* A resource that has just been inserted can be opened.
LEMMA CreatedOpens ==
  ASSUME NEW k, NEW list, NEW b, NEW i, NEW type, NEW mode,
         ById(list, i) = {}, b \notin DOMAIN list, k.list = Insert(list, b, i, type),
         FreeDescs(k) # {}
  PROVE  OpenExisting(k, i, type, mode) = AddDescriptor(k, b)
<1>1. /\ DOMAIN k.list = DOMAIN list \cup {b}
      /\ k.list[b].id = i /\ k.list[b].type = type /\ k.list[b].opened = {}
      /\ \A c \in DOMAIN list : k.list[c] = list[c]
  BY DEF Insert
<1>2. ById(k.list, i) = {b}
  BY <1>1 DEF ById
<1>3. (CHOOSE x \in ById(k.list, i) : TRUE) = b
  BY <1>2
<1> QED
  BY <1>1, <1>2, <1>3 DEF OpenExisting

LEMMA OpenResourceAs ==
  ASSUME NEW k, KernelOK(k), FreeDescs(k) # {}, NEW i, NEW mode
  PROVE  OpenedAs(k, OpenResource(k, i, PLAIN, mode), i, PLAIN)
<1>1. CASE CREATE \notin mode
  BY <1>1, OpenExistingAs DEF OpenResource
<1>2. CASE CREATE \in mode /\ ById(k.list, i) # {}
  BY <1>2 DEF OpenResource, OpenedAs, OpenErrs
<1>3. CASE CREATE \in mode /\ ById(k.list, i) = {} /\ k.res = <<>>
  <2>1. OpenResource(k, i, PLAIN, mode) = Faults(k)
    BY <1>3 DEF OpenResource
  <2> QED
    BY <2>1, FaultsKeeps DEF OpenedAs
<1>4. CASE CREATE \in mode /\ ById(k.list, i) = {} /\ k.res # <<>>
  <2> DEFINE k1 == NewResource(k, i, PLAIN)
             b == Head(k.res)
  <2>1. OpenResource(k, i, PLAIN, mode) = OpenExisting(k1, i, PLAIN, mode)
    BY <1>4 DEF OpenResource
  <2>2. k1.list = Insert(k.list, b, i, PLAIN) /\ FreeDescs(k1) = FreeDescs(k)
    BY NewResourceIs DEF FreeDescs
  <2>3. b \notin DOMAIN k.list
    BY <1>4, FreeHeads
  <2> HIDE DEF k1, b
  <2>4. OpenExisting(k1, i, PLAIN, mode) = AddDescriptor(k1, b)
    BY <1>4, <2>2, <2>3, CreatedOpens
  <2> QED
    BY <1>4, <2>1, <2>4 DEF OpenedAs, k1, b
<1> QED
  BY <1>1, <1>2, <1>3, <1>4

LEMMA OpenQueueAs ==
  ASSUME NEW k, KernelOK(k), FreeDescs(k) # {}, NEW i, NEW mode
  PROVE  OpenedAs(k, OpenQueue(k, i, DSOS_MQ, mode), i, DSOS_MQ)
<1>1. CASE mode # {CREATE}
  BY <1>1, OpenExistingAs DEF OpenQueue
<1>2. CASE mode = {CREATE} /\ ById(k.list, i) # {}
  BY <1>2 DEF OpenQueue, OpenedAs, OpenErrs
<1>3. CASE mode = {CREATE} /\ ById(k.list, i) = {} /\ (k.mqs = <<>> \/ k.res = <<>>)
  <2>1. OpenQueue(k, i, DSOS_MQ, mode) = Faults(k)
    BY <1>3 DEF OpenQueue
  <2> QED
    BY <2>1, FaultsKeeps DEF OpenedAs
<1>4. CASE mode = {CREATE} /\ ById(k.list, i) = {} /\ k.mqs # <<>> /\ k.res # <<>>
  <2> DEFINE k1 == NewQueue(k, i)
             b == Head(k.mqs)
  <2>1. OpenQueue(k, i, DSOS_MQ, mode) = OpenExisting(k1, i, DSOS_MQ, mode)
    BY <1>4 DEF OpenQueue
  <2>2. k1.list = Insert(k.list, b, i, DSOS_MQ) /\ FreeDescs(k1) = FreeDescs(k)
    BY NewQueueIs DEF FreeDescs
  <2>3. b \notin DOMAIN k.list
    BY <1>4, FreeHeads
  <2> HIDE DEF k1, b
  <2>4. OpenExisting(k1, i, DSOS_MQ, mode) = AddDescriptor(k1, b)
    BY <1>4, <2>2, <2>3, CreatedOpens
  <2> QED
    BY <1>4, <2>1, <2>4 DEF OpenedAs, k1, b
<1> QED
  BY <1>1, <1>2, <1>3, <1>4

-----------------------------------------------------------------------------
(* What an open shows to the callers *)

\* The descriptors that are open in the kernel state k.
OpenIn(k) == k.fds \cup UNION {descriptors[p] : p \in Proc \ {running}}

QueuesIn(k)  == QueueMap(k.list, k.msgs)
PlainIn(k)   == PlainIds(k.list)
HandlesIn(k) == HandleSet(k.list, k.desc, OpenIn(k))

\* The queues q, and i without messages.
WithQueue(q, i) == [j \in DOMAIN q \cup {i} |-> IF j = i THEN <<>> ELSE q[j]]

SameNamesSeen(k, k1) == QueuesIn(k1) = QueuesIn(k) /\ PlainIn(k1) = PlainIn(k)

NewName(k, i) == i \notin DOMAIN QueuesIn(k) \cup PlainIn(k)

SeenSame(k, k1) == SameNamesSeen(k, k1) /\ HandlesIn(k1) = HandlesIn(k)

SeenOpened(k, k1, i) ==
  /\ HandlesIn(k1) = HandlesIn(k) \cup {[pcb |-> running, fd |-> k.last_fd, id |-> i]}
  /\ \/ i \in DOMAIN QueuesIn(k) \cup PlainIn(k) /\ SameNamesSeen(k, k1)
     \/ /\ NewName(k, i) /\ PlainIn(k1) = PlainIn(k)
        /\ QueuesIn(k1) = WithQueue(QueuesIn(k), i)
     \/ /\ NewName(k, i) /\ QueuesIn(k1) = QueuesIn(k)
        /\ PlainIn(k1) = PlainIn(k) \cup {i}
  /\ k1.ret = k.last_fd

LEMMA KernelFacts ==
  ASSUME NEW k, KernelOK(k)
  PROVE  /\ IdsUnique(k.list) /\ OpenIn(k) \subseteq DOMAIN k.desc
         /\ \A d \in OpenIn(k) : k.desc[d].resource \in DOMAIN k.list
  BY DEF KernelOK, Placed, IdsUnique, OpenIn, Agree

\* The names that are seen are those of the list.
LEMMA NamesIn ==
  ASSUME NEW k
  PROVE  DOMAIN QueuesIn(k) \cup PlainIn(k) = {k.list[b].id : b \in DOMAIN k.list}
<1>1. DOMAIN QueuesIn(k) = {k.list[q].id : q \in QueueBlocks(k.list)}
  BY DEF QueuesIn, QueueMap
<1> QED
  BY <1>1 DEF PlainIn, PlainIds, QueueBlocks

LEMMA AddDescriptorSeen ==
  ASSUME NEW k, KernelOK(k), running \in Proc, k.last_fd <= MaxFd,
         NEW b \in DOMAIN k.list, FreeDescs(k) # {}
  PROVE  LET k1 == AddDescriptor(k, b)
         IN  /\ SameNamesSeen(k, k1)
             /\ HandlesIn(k1) = HandlesIn(k)
                  \cup {[pcb |-> running, fd |-> k.last_fd, id |-> k.list[b].id]}
             /\ k1.ret = k.last_fd
<1> DEFINE d == Min(FreeDescs(k))
           k1 == AddDescriptor(k, b)
<1>1. d \notin DOMAIN k.desc
  BY FreshDescriptor
<1>2. k1 = WithDescriptor(k, b, d)
  BY AddDescriptorIs
<1>3. KernelOK(k1)
  BY AddDescriptorKeeps
<1> HIDE DEF d, k1
<1>4. /\ k1.list = [k.list EXCEPT ![b].opened = @ \cup {d}]
      /\ k1.msgs = k.msgs /\ k1.fds = k.fds \cup {d} /\ k1.ret = k.last_fd
      /\ k1.desc = [x \in DOMAIN k.desc \cup {d} |->
               IF x = d THEN [pcb |-> running, resource |-> b, fd |-> k.last_fd]
               ELSE k.desc[x]]
  BY <1>2 DEF WithDescriptor
<1>5. SameNames(k.list, k1.list)
  BY <1>4 DEF SameNames, KernelOK, ListTyped, Resource
<1>6. /\ k1.desc[d] = [pcb |-> running, resource |-> b, fd |-> k.last_fd]
      /\ \A e \in DOMAIN k.desc : k1.desc[e] = k.desc[e]
  BY <1>1, <1>4
<1>7. OpenIn(k1) = OpenIn(k) \cup {d}
  BY <1>4 DEF OpenIn
<1>8. SameNamesSeen(k, k1)
  BY <1>3, <1>4, <1>5, KernelFacts, NamesSame, QueueMapSame DEF SameNamesSeen, QueuesIn, PlainIn
<1>9. HandlesIn(k1) = HandlesIn(k) \cup {Handle(k1.list, k1.desc, d)}
  <2> DEFINE list == k.list
             new == k1.list
             dsc == k.desc
             dsc1 == k1.desc
             ds == OpenIn(k)
  <2>1. \A e \in ds : dsc1[e] = dsc[e] /\ new[dsc[e].resource].id = list[dsc[e].resource].id
    BY <1>5, <1>6, KernelFacts DEF SameNames
  <2> HIDE DEF list, new, dsc, dsc1, ds
  <2>2. HandleSet(new, dsc1, ds) = HandleSet(list, dsc, ds)
    BY <2>1, HandlesSame
  <2>3. HandleSet(new, dsc1, ds \cup {d}) = HandleSet(new, dsc1, ds) \cup {Handle(new, dsc1, d)}
    BY DEF HandleSet
  <2> QED
    BY <1>7, <2>2, <2>3 DEF HandlesIn, list, new, dsc, dsc1, ds
<1>10. Handle(k1.list, k1.desc, d) = [pcb |-> running, fd |-> k.last_fd, id |-> k.list[b].id]
  BY <1>5, <1>6 DEF Handle, SameNames
<1> QED
  BY <1>4, <1>8, <1>9, <1>10 DEF k1

\* A plain resource enters the list, with a name of its own.
LEMMA NewResourceSeen ==
  ASSUME NEW k, KernelOK(k), k.res # <<>>, NEW i \in Ids, ById(k.list, i) = {},
         NEW k1, k1 = NewResource(k, i, PLAIN), NEW b, b = Head(k.res)
  PROVE  /\ NewName(k, i)
         /\ QueuesIn(k1) = QueuesIn(k) /\ PlainIn(k1) = PlainIn(k) \cup {i}
         /\ HandlesIn(k1) = HandlesIn(k)
         /\ b \in DOMAIN k1.list /\ k1.list[b].id = i
<1> DEFINE new == Insert(k.list, b, i, PLAIN)
<1>1. KernelOK(k1)
  BY NewResourceKeeps
<1>2. /\ k1.list = new /\ k1.msgs = k.msgs /\ k1.desc = k.desc /\ k1.fds = k.fds
  BY NewResourceIs
<1>3. b \in ResBlock /\ b \notin DOMAIN k.list /\ b \notin MqBlock
  BY FreeHeads
<1>4. /\ DOMAIN new = DOMAIN k.list \cup {b} /\ new[b].id = i
      /\ \A c \in DOMAIN k.list : new[c] = k.list[c]
  BY <1>3 DEF Insert
<1> HIDE DEF new
<1>5. SameQueues(k.list, k1.list)
  BY <1>2, <1>3, <1>4 DEF SameQueues, QueueBlocks
<1>6. QueuesIn(k1) = QueuesIn(k)
  BY <1>1, <1>2, <1>5, KernelFacts, QueueMapSame DEF QueuesIn
<1>7. PlainIn(k1) = PlainIn(k) \cup {i}
  <2>1. DOMAIN new \ QueueBlocks(new) = (DOMAIN k.list \ QueueBlocks(k.list)) \cup {b}
    BY <1>3, <1>4 DEF QueueBlocks
  <2> QED
    BY <1>2, <1>4, <2>1 DEF PlainIn, PlainIds
<1>8. OpenIn(k1) = OpenIn(k)
  BY <1>2 DEF OpenIn
<1>9. HandlesIn(k1) = HandlesIn(k)
  <2>1. \A d \in OpenIn(k) : new[k.desc[d].resource].id = k.list[k.desc[d].resource].id
    BY <1>4, KernelFacts
  <2> QED
    BY <1>2, <1>8, <2>1, HandlesSame DEF HandlesIn
<1>10. NewName(k, i)
  BY NamesIn DEF NewName, ById
<1> QED
  BY <1>2, <1>4, <1>6, <1>7, <1>9, <1>10

\* A new queue is empty and nobody has it open.
LEMMA NewQueueSeen ==
  ASSUME NEW k, KernelOK(k), k.res # <<>>, k.mqs # <<>>, NEW i \in Ids, ById(k.list, i) = {},
         NEW k1, k1 = NewQueue(k, i), NEW b, b = Head(k.mqs)
  PROVE  /\ NewName(k, i)
         /\ QueuesIn(k1) = WithQueue(QueuesIn(k), i) /\ PlainIn(k1) = PlainIn(k)
         /\ HandlesIn(k1) = HandlesIn(k)
         /\ b \in DOMAIN k1.list /\ k1.list[b].id = i
<1> DEFINE new == Insert(k.list, b, i, DSOS_MQ)
           q == QueuesIn(k)
           f == WithQueue(q, i)
<1>1. KernelOK(k1)
  BY NewQueueKeeps
<1>2. /\ k1.list = new /\ k1.msgs = [k.msgs EXCEPT ![b] = <<>>]
      /\ k1.desc = k.desc /\ k1.fds = k.fds
  BY NewQueueIs
<1>3. b \in MqBlock /\ b \notin DOMAIN k.list
  BY FreeHeads
<1>4. /\ DOMAIN new = DOMAIN k.list \cup {b} /\ new[b].id = i
      /\ \A c \in DOMAIN k.list : new[c] = k.list[c]
  BY <1>3 DEF Insert
<1>5. /\ DOMAIN q = {k.list[c].id : c \in QueueBlocks(k.list)}
      /\ \A c \in QueueBlocks(k.list) : q[k.list[c].id] = k.msgs[c]
  <2>1. IdsUnique(k.list)
    BY KernelFacts
  <2>2. DOMAIN QueueMap(k.list, k.msgs) = {k.list[c].id : c \in QueueBlocks(k.list)}
    BY QueueMapDomain
  <2>3. \A c \in QueueBlocks(k.list) : QueueMap(k.list, k.msgs)[k.list[c].id] = k.msgs[c]
    BY <2>1, QueueMapAt
  <2> QED
    BY <2>2, <2>3 DEF QueuesIn
<1> HIDE DEF new, q
<1>6. /\ k1.msgs[b] = <<>>
      /\ \A c \in QueueBlocks(k.list) : k1.msgs[c] = k.msgs[c]
  BY <1>2, <1>3 DEF KernelOK, QueueBlocks
<1>7. i \notin DOMAIN q
  BY <1>5 DEF ById, QueueBlocks
<1>8. QueueBlocks(new) = QueueBlocks(k.list) \cup {b}
  BY <1>3, <1>4 DEF QueueBlocks
<1>9. DOMAIN f = {new[c].id : c \in QueueBlocks(new)}
  BY <1>4, <1>5, <1>8 DEF QueueBlocks, WithQueue
<1>10. \A c \in QueueBlocks(new) : f[new[c].id] = k1.msgs[c]
  BY <1>4, <1>5, <1>6, <1>7, <1>8 DEF QueueBlocks, WithQueue
<1>11. QueuesIn(k1) = f
  <2>1. f = [j \in DOMAIN f |-> f[j]]
    BY DEF WithQueue
  <2> DEFINE msgs1 == k1.msgs
  <2>2. IdsUnique(new)
    BY <1>1, <1>2, KernelFacts
  <2>3. \A c \in QueueBlocks(new) : f[new[c].id] = msgs1[c]
    BY <1>10
  <2> HIDE DEF f, msgs1
  <2>4. QueueMap(new, msgs1) = f
    BY <1>9, <2>1, <2>2, <2>3, QueueMapIs
  <2> QED
    BY <1>2, <2>4 DEF QueuesIn, msgs1
<1>12. HandlesIn(k1) = HandlesIn(k)
  <2>1. \A d \in OpenIn(k) : new[k.desc[d].resource].id = k.list[k.desc[d].resource].id
    BY <1>4, KernelFacts
  <2>2. OpenIn(k1) = OpenIn(k)
    BY <1>2 DEF OpenIn
  <2> QED
    BY <1>2, <2>1, <2>2, HandlesSame DEF HandlesIn
<1>13. PlainIn(k1) = PlainIn(k)
  <2>1. DOMAIN new \ QueueBlocks(new) = DOMAIN k.list \ QueueBlocks(k.list)
    BY <1>3, <1>4 DEF QueueBlocks
  <2> QED
    BY <1>2, <1>4, <2>1 DEF PlainIn, PlainIds
<1>14. NewName(k, i)
  BY NamesIn DEF NewName, ById
<1> QED
  BY <1>2, <1>4, <1>11, <1>12, <1>13, <1>14 DEF q

LEMMA FailsSeen ==
  ASSUME NEW k, KernelOK(k), NEW code
  PROVE  SeenSame(k, Fails(k, code)) /\ Fails(k, code).ret = code
<1> DEFINE k1 == Fails(k, code)
<1>1. /\ k1.list = k.list /\ k1.msgs = k.msgs /\ k1.desc = k.desc /\ k1.fds = k.fds
      /\ k1.ret = code
  BY FailsIs
<1> HIDE DEF k1
<1>2. OpenIn(k1) = OpenIn(k)
  BY <1>1 DEF OpenIn
<1>3. SeenSame(k, k1)
  BY <1>1, <1>2 DEF SeenSame, SameNamesSeen, QueuesIn, PlainIn, HandlesIn
<1> QED
  BY <1>1, <1>3 DEF k1

\* Opening shows the new handle and its fd, and the name if it is new.
LEMMA OpenedSeen ==
  ASSUME NEW k, KernelOK(k), running \in Proc, k.last_fd <= MaxFd,
         NEW i \in Ids, NEW type \in {DSOS_MQ, PLAIN}, NEW k1, OpenedAs(k, k1, i, type)
  PROVE  k1.fault \/ (\E code \in OpenErrs : k1 = Fails(k, code)) \/ SeenOpened(k, k1, i)
<1>1. ASSUME FreeDescs(k) # {}, NEW b \in ById(k.list, i), k1 = AddDescriptor(k, b)
      PROVE  SeenOpened(k, k1, i)
  <2>1. b \in DOMAIN k.list /\ k.list[b].id = i
    BY DEF ById
  <2>2. i \in DOMAIN QueuesIn(k) \cup PlainIn(k)
    BY <2>1, NamesIn
  <2> QED
    BY <1>1, <2>1, <2>2, AddDescriptorSeen DEF SeenOpened
<1>2. ASSUME FreeDescs(k) # {}, k.res # <<>>, ById(k.list, i) = {},
             k1 = AddDescriptor(NewResource(k, i, PLAIN), Head(k.res))
      PROVE  SeenOpened(k, k1, i)
  <2>1. PICK k2, b : k2 = NewResource(k, i, PLAIN) /\ b = Head(k.res)
    OBVIOUS
  <2>2. KernelOK(k2) /\ k2.last_fd = k.last_fd /\ FreeDescs(k2) # {}
    BY <1>2, <2>1, NewResourceKeeps, NewResourceIs DEF FreeDescs
  <2>3. /\ NewName(k, i)
        /\ QueuesIn(k2) = QueuesIn(k) /\ PlainIn(k2) = PlainIn(k) \cup {i}
        /\ HandlesIn(k2) = HandlesIn(k)
        /\ b \in DOMAIN k2.list /\ k2.list[b].id = i
    BY <1>2, <2>1, NewResourceSeen
  <2>4. k1 = AddDescriptor(k2, b)
    BY <1>2, <2>1
  <2> QED
    BY <2>2, <2>3, <2>4, AddDescriptorSeen DEF SeenOpened, SameNamesSeen
<1>3. ASSUME FreeDescs(k) # {}, k.res # <<>>, ById(k.list, i) = {}, k.mqs # <<>>,
             k1 = AddDescriptor(NewQueue(k, i), Head(k.mqs))
      PROVE  SeenOpened(k, k1, i)
  <2>1. PICK k2, b : k2 = NewQueue(k, i) /\ b = Head(k.mqs)
    OBVIOUS
  <2>2. KernelOK(k2) /\ k2.last_fd = k.last_fd /\ FreeDescs(k2) # {}
    BY <1>3, <2>1, NewQueueKeeps, NewQueueIs DEF FreeDescs
  <2>3. /\ NewName(k, i)
        /\ QueuesIn(k2) = WithQueue(QueuesIn(k), i) /\ PlainIn(k2) = PlainIn(k)
        /\ HandlesIn(k2) = HandlesIn(k)
        /\ b \in DOMAIN k2.list /\ k2.list[b].id = i
    BY <1>3, <2>1, NewQueueSeen
  <2>4. k1 = AddDescriptor(k2, b)
    BY <1>3, <2>1
  <2> QED
    BY <2>2, <2>3, <2>4, AddDescriptorSeen DEF SeenOpened, SameNamesSeen
<1> QED
  BY <1>1, <1>2, <1>3 DEF OpenedAs

\* The kernel state that a call leaves is what its callers see.
LEMMA BecomesSeen ==
  ASSUME Inv, NEW k, KernelOK(k), k.fds \subseteq Desc, Becomes(k), ~k.fault
  PROVE  /\ QueuesSeen' = QueuesIn(k) /\ PlainSeen' = PlainIn(k)
         /\ HandlesSeen' = HandlesIn(k) /\ Answered(k.ret, NoMsg)
         /\ QueuesSeen = QueuesIn(Kernel) /\ PlainSeen = PlainIn(Kernel)
         /\ HandlesSeen = HandlesIn(Kernel)
<1>1. running \in Proc /\ DOMAIN descriptors = Proc
  BY InvParts DEF CallersTyped, FdsSound
<1>2. /\ resources_list' = k.list /\ messages' = k.msgs /\ desc' = k.desc
      /\ descriptors' = [descriptors EXCEPT ![running] = k.fds]
  BY DEF Becomes
<1>3. OpenDescs' = OpenIn(k)
  BY <1>1, <1>2 DEF OpenDescs, OpenIn, Range
<1>4. OpenDescs = OpenIn(Kernel)
  BY <1>1 DEF OpenDescs, OpenIn, Range, Kernel
<1>5. Answered(k.ret, NoMsg)
  BY DEF Becomes, Returns, SecondArg, Answered
<1> QED
  BY <1>2, <1>3, <1>4, <1>5
     DEF QueuesSeen, QueuesIn, PlainSeen, PlainIn, HandlesSeen, HandlesIn, Kernel

-----------------------------------------------------------------------------
(* What a call may leave alone, and what it finds *)

\* A step that leaves the mail alone.
LEMMA MailAlone ==
  ASSUME UNCHANGED mailVars
  PROVE  UNCHANGED QueuesSeen /\ UNCHANGED PlainSeen /\ UNCHANGED HandlesSeen
  BY DEF mailVars, blocks, queues, files, QueuesSeen, PlainSeen, HandlesSeen, OpenDescs

\* What is open, by its owner: a descriptor is in one process's list.
LEMMA OpenFacts ==
  ASSUME Inv
  PROVE  /\ OpenDescs \subseteq DOMAIN desc
         /\ running \in Proc /\ descriptors[running] \subseteq OpenDescs
         /\ \A d \in OpenDescs : /\ desc[d].pcb = running <=> d \in descriptors[running]
                                 /\ desc[d].resource \in DOMAIN resources_list
                                 /\ d \in resources_list[desc[d].resource].opened
         /\ \A d, e \in descriptors[running] : desc[d].fd = desc[e].fd => d = e
<1>1. FdsSound /\ running \in Proc
  BY InvParts DEF CallersTyped
<1>2. OpenDescs = UNION {descriptors[p] : p \in Proc}
  BY <1>1 DEF OpenDescs, Range, FdsSound
<1> QED
  BY <1>1, <1>2 DEF FdsSound, Agree

-----------------------------------------------------------------------------
(* The steps *)

LEMMA Callers ==
  ASSUME Inv
  PROVE  /\ running \in Proc /\ syscall_arg1[running] \in Msgs \cup {NoMsg}
         /\ IdsUnique(resources_list)
         /\ syscall_arg1 = [syscall_arg1 EXCEPT ![running] = syscall_arg1[running]]
<1>1. running \in Proc /\ syscall_arg1 \in [Proc -> Msgs \cup {NoMsg}]
  BY InvParts DEF CallersTyped
<1>2. IdsUnique(resources_list)
  BY InvParts DEF IdsUnique, BlocksSound, Placed
<1> QED
  BY <1>1, <1>2

\* A call without an argument leaves what was there.
LEMMA AnsweredOnly ==
  ASSUME Inv, NEW code, Returns(code), UNCHANGED syscall_arg1
  PROVE  Answered(code, syscall_arg1[running])
  BY Callers DEF Returns, Answered

\* An open begins in the kernel state of the variables and ends in the state k.
LEMMA OpenCallsAs ==
  ASSUME Inv, {"exhaust", "plain"} \cap Liberties = {}, NEW i \in Ids, NEW mode,
         \/ internal_openResource(i, mode)
         \/ \E type \in {DSOS_MQ, PLAIN} : internal_mqOpen(i, type, mode)
  PROVE  /\ KernelOK(Kernel) /\ Kernel.last_fd = last_fd[running]
         /\ running \in Proc /\ last_fd[running] \in 0..MaxFd
         /\ \E type \in {DSOS_MQ, PLAIN} : \E k :
              KernelOK(k) /\ OpenedAs(Kernel, k, i, type) /\ Becomes(k)
<1>1. /\ KernelOK(Kernel) /\ Kernel.last_fd = last_fd[running] /\ running \in Proc
      /\ Kernel.last_fd < MaxFd
  BY KernelIsOK, Callers DEF internal_openResource, internal_mqOpen, MayOpen
<1>2. Kernel.last_fd \in Nat /\ MaxFd \in Nat
  BY <1>1, MailboxesAssumption DEF KernelOK
<1>3. FreeDescs(Kernel) # {}
  BY <1>1 DEF internal_openResource, internal_mqOpen, MayOpen, FreeDescs, Kernel, KernelOK,
              FilesTyped
<1>4. \E type \in {DSOS_MQ, PLAIN} : \E k :
        KernelOK(k) /\ OpenedAs(Kernel, k, i, type) /\ Becomes(k)
  <2>1. CASE internal_openResource(i, mode)
    <3> DEFINE k == OpenResource(Kernel, i, PLAIN, mode)
    <3>1. KernelOK(k) /\ OpenedAs(Kernel, k, i, PLAIN)
      BY <1>1, <1>2, <1>3, OpenResourceKeeps, OpenResourceAs
    <3>2. Becomes(k)
      BY <2>1 DEF internal_openResource
    <3> HIDE DEF k
    <3> QED
      BY <3>1, <3>2
  <2>2. CASE \E type \in {DSOS_MQ, PLAIN} : internal_mqOpen(i, type, mode)
    <3> DEFINE k == OpenQueue(Kernel, i, DSOS_MQ, mode)
    <3>1. KernelOK(k) /\ OpenedAs(Kernel, k, i, DSOS_MQ)
      BY <1>1, <1>2, <1>3, OpenQueueKeeps, OpenQueueAs
    <3>2. Becomes(k)
      BY <2>2 DEF internal_mqOpen, MqOpen
    <3> HIDE DEF k
    <3> QED
      BY <3>1, <3>2
  <2> QED
    BY <2>1, <2>2
<1> QED
  BY <1>1, <1>2, <1>4

LEMMA OpenCallsSeen ==
  ASSUME Inv, {"exhaust", "plain"} \cap Liberties = {}, NEW i \in Ids, NEW mode,
         \/ internal_openResource(i, mode)
         \/ \E type \in {DSOS_MQ, PLAIN} : internal_mqOpen(i, type, mode)
  PROVE  PromiseStep
<1>1. /\ KernelOK(Kernel) /\ Kernel.last_fd = last_fd[running] /\ running \in Proc
      /\ last_fd[running] \in 0..MaxFd /\ Kernel.last_fd <= MaxFd
  BY OpenCallsAs, MailboxesAssumption
<1>2. PICK type \in {DSOS_MQ, PLAIN} : \E k :
        KernelOK(k) /\ OpenedAs(Kernel, k, i, type) /\ Becomes(k)
  BY OpenCallsAs
<1>3. PICK k : KernelOK(k) /\ OpenedAs(Kernel, k, i, type) /\ Becomes(k)
  BY <1>2
<1>4. CASE k.fault
  BY <1>3, <1>4, MailAlone, SeenStutter DEF Becomes, Crash
<1>5. CASE ~k.fault
  <2>1. /\ QueuesSeen' = QueuesIn(k) /\ PlainSeen' = PlainIn(k)
        /\ HandlesSeen' = HandlesIn(k) /\ Answered(k.ret, NoMsg)
        /\ QueuesSeen = QueuesIn(Kernel) /\ PlainSeen = PlainIn(Kernel)
        /\ HandlesSeen = HandlesIn(Kernel)
    BY <1>3, <1>5, BecomesSeen DEF KernelOK
  <2>2. (\E code \in OpenErrs : k = Fails(Kernel, code)) \/ SeenOpened(Kernel, k, i)
    BY <1>1, <1>3, <1>5, OpenedSeen
  <2>3. CASE \E code \in OpenErrs : k = Fails(Kernel, code)
    <3>1. SeenSame(Kernel, k) /\ k.ret \in OpenErrs
      BY <1>1, <2>3, FailsSeen
    <3> QED
      BY <1>1, <2>1, <3>1, SeenRefused DEF SeenSame, SameNamesSeen
  <2>4. CASE SeenOpened(Kernel, k, i)
    <3>1. \A h \in HandlesSeen : h.pcb = running => h.fd # last_fd[running]
      <4> SUFFICES ASSUME NEW d \in OpenDescs, desc[d].pcb = running
                   PROVE  desc[d].fd # last_fd[running]
        BY DEF HandlesSeen, HandleSet, Handle
      <4>1. FdsSound /\ BlocksSound
        BY InvParts
      <4>2. PICK p \in Proc : d \in descriptors[p]
        BY <4>1 DEF OpenDescs, Range, FdsSound
      <4>3. p = running /\ desc[d].fd < last_fd[p]
        BY <4>1, <4>2 DEF FdsSound, Agree
      <4>4. desc[d].fd \in Nat /\ last_fd[p] \in Nat
        BY <4>1, <4>2, MailboxesAssumption DEF FdsSound, BlocksSound, FilesTyped, Agree, Descriptor
      <4> QED
        BY <4>3, <4>4
    <3>2. PICK fd \in 0..MaxFd : fd = last_fd[running]
      BY <1>1
    <3>3. /\ HandlesSeen' = HandlesSeen \cup {[pcb |-> running, fd |-> fd, id |-> i]}
          /\ Answered(fd, NoMsg)
      BY <1>1, <2>1, <2>4, <3>2 DEF SeenOpened
    <3>4. \/ i \in NamesSeen /\ UNCHANGED QueuesSeen /\ UNCHANGED PlainSeen
          \/ /\ i \notin NamesSeen /\ UNCHANGED PlainSeen
             /\ QueuesSeen' = [j \in DOMAIN QueuesSeen \cup {i} |->
                                 IF j = i THEN <<>> ELSE QueuesSeen[j]]
          \/ /\ i \notin NamesSeen /\ UNCHANGED QueuesSeen
             /\ PlainSeen' = PlainSeen \cup {i}
      BY <2>1, <2>4 DEF SeenOpened, SameNamesSeen, NewName, WithQueue, NamesSeen
    <3> QED
      BY <1>1, <3>1, <3>2, <3>3, <3>4, SeenOpen
  <2> QED
    BY <2>2, <2>3, <2>4
<1> QED
  BY <1>4, <1>5

\* A call that ends with an error of its own, and leaves the mail alone.
LEMMA RefusedSeen ==
  ASSUME Inv, UNCHANGED mailVars, NEW code, NEW arg, Answered(code, arg),
         \/ code = DSOS_ERESOURCERECV /\ arg = NoMsg
         \/ code \in {DSOS_ERESOURCECLOSE, DSOS_ERESOURCEINUSE} /\ arg = syscall_arg1[running]
         \/ code = DSOS_ERESOURCESEND /\ arg \in Msgs
  PROVE  PromiseStep
  BY Callers, MailAlone, SeenRefused

\* Descriptors go: the names stay, and what remains open is seen as before.
LEMMA ReleasedSeen ==
  ASSUME Inv, NEW ds, Descriptors_free(ds), UNCHANGED messages,
         NEW left, left \cap ds = {}, left \subseteq OpenDescs, OpenDescs' = left
  PROVE  /\ UNCHANGED QueuesSeen /\ UNCHANGED PlainSeen
         /\ HandlesSeen' = HandleSet(resources_list, desc, left)
<1>1. SameNames(resources_list, resources_list')
  BY InvParts DEF Descriptors_free, Released, BlocksSound, ListTyped, Resource, SameNames
<1>2. left \subseteq DOMAIN desc /\ \A d \in DOMAIN desc \ ds : desc'[d] = desc[d]
  BY OpenFacts DEF Descriptors_free
<1>3. UNCHANGED QueuesSeen /\ UNCHANGED PlainSeen
  BY <1>1, Callers, NamesSame, QueueMapSame DEF QueuesSeen, PlainSeen
<1>4. HandlesSeen' = HandleSet(resources_list, desc, left)
  <2>1. \A d \in left :
          /\ desc'[d] = desc[d]
          /\ resources_list'[desc[d].resource].id = resources_list[desc[d].resource].id
    BY <1>1, <1>2, OpenFacts DEF SameNames
  <2> QED
    BY <2>1, HandlesSame DEF HandlesSeen
<1> QED
  BY <1>3, <1>4

LEMMA CloseSeen ==
  ASSUME Inv, NEW fd, internal_closeResource(fd)
  PROVE  PromiseStep
<1>1. CASE ByFd(fd) = {}
  <2>1. /\ UNCHANGED mailVars /\ UNCHANGED syscall_arg1 /\ Returns(DSOS_ERESOURCECLOSE)
    BY <1>1 DEF internal_closeResource
  <2> QED
    BY <2>1, AnsweredOnly, RefusedSeen
<1>2. CASE ByFd(fd) # {}
  <2>1. PICK d : ByFd(fd) = {d} /\ d \in descriptors[running] /\ desc[d].fd = fd
    BY <1>2, OpenFacts DEF ByFd
  <2>2. /\ Descriptors_free({d})
        /\ descriptors' = [descriptors EXCEPT ![running] = @ \ {d}]
        /\ UNCHANGED messages /\ Returns(0) /\ UNCHANGED syscall_arg1
    BY <1>2, <2>1 DEF internal_closeResource, queues
  <2>3. OpenDescs' = OpenDescs \ {d}
    <3>1. FdsSound /\ running \in Proc
      BY InvParts DEF CallersTyped
    <3>2. DOMAIN descriptors' = Proc /\ descriptors'[running] = descriptors[running] \ {d}
          /\ \A p \in Proc \ {running} : descriptors'[p] = descriptors[p]
      BY <2>2, <3>1 DEF FdsSound
    <3>3. \A p \in Proc \ {running} : d \notin descriptors[p]
      BY <2>1, <3>1 DEF FdsSound, Agree
    <3>4. OpenDescs = UNION {descriptors[p] : p \in Proc}
      BY <3>1 DEF OpenDescs, Range, FdsSound
    <3>5. OpenDescs' = UNION {descriptors'[p] : p \in Proc}
      BY <3>2 DEF OpenDescs, Range
    <3> QED
      BY <2>1, <3>2, <3>3, <3>4, <3>5
  <2>4. /\ UNCHANGED QueuesSeen /\ UNCHANGED PlainSeen
        /\ HandlesSeen' = HandleSet(resources_list, desc, OpenDescs \ {d})
    BY <2>2, <2>3, ReleasedSeen
  <2> DEFINE h == Handle(resources_list, desc, d)
  <2>5. h \in HandlesSeen /\ h.pcb = running
    BY <2>1, OpenFacts DEF HandlesSeen, HandleSet, Handle
  <2>6. \A e \in OpenDescs : Handle(resources_list, desc, e) = h <=> e = d
    BY <2>1, OpenFacts DEF Handle
  <2>7. HandlesSeen' = HandlesSeen \ {h}
    BY <2>4, <2>6 DEF HandlesSeen, HandleSet
  <2> HIDE DEF h
  <2> QED
    BY <2>2, <2>4, <2>5, <2>7, AnsweredOnly, SeenClose
<1> QED
  BY <1>1, <1>2

\* Whether its parent waits or not, what a process had open is gone.
LEMMA ExitSeen ==
  ASSUME Inv, NEW awaited, ExitAndRespawn(awaited)
  PROVE  PromiseStep
<1> DEFINE left == OpenDescs \ descriptors[running]
<1>1. OpenDescs' = left
  <2>1. FdsSound /\ running \in Proc
    BY InvParts DEF CallersTyped
  <2>2. descriptors' = [descriptors EXCEPT ![running] = {}]
    BY DEF ExitAndRespawn, FreshPcb
  <2>3. DOMAIN descriptors' = Proc /\ descriptors'[running] = {}
        /\ \A p \in Proc \ {running} : descriptors'[p] = descriptors[p]
    BY <2>1, <2>2 DEF FdsSound
  <2>4. \A p \in Proc \ {running} : descriptors[p] \cap descriptors[running] = {}
    BY <2>1 DEF FdsSound, Agree
  <2>5. OpenDescs = UNION {descriptors[p] : p \in Proc}
    BY <2>1 DEF OpenDescs, Range, FdsSound
  <2>6. OpenDescs' = UNION {descriptors'[p] : p \in Proc}
    BY <2>3 DEF OpenDescs, Range
  <2> QED
    BY <2>3, <2>4, <2>5, <2>6
<1>2. UNCHANGED messages /\ UNCHANGED syscall_arg1 /\ UNCHANGED retvalue
  BY DEF ExitAndRespawn, queues
<1>3. /\ UNCHANGED QueuesSeen /\ UNCHANGED PlainSeen
      /\ HandlesSeen' = HandleSet(resources_list, desc, left)
  <2>1. CASE awaited
    <3>1. Descriptors_free(descriptors[running])
      BY <2>1 DEF ExitAndRespawn, ReleaseAll
    <3>2. left \subseteq OpenDescs /\ left \cap descriptors[running] = {}
      OBVIOUS
    <3> HIDE DEF left
    <3> QED
      BY <1>1, <1>2, <3>1, <3>2, ReleasedSeen
  <2>2. CASE ~awaited
    <3>1. UNCHANGED <<resources_list, desc>>
      BY <2>2 DEF ExitAndRespawn
    <3> QED
      BY <1>1, <1>2, <3>1 DEF QueuesSeen, PlainSeen, HandlesSeen
  <2> QED
    BY <2>1, <2>2
<1>4. HandlesSeen' = {h \in HandlesSeen : h.pcb # running}
  BY <1>3, OpenFacts DEF HandlesSeen, HandleSet, Handle
<1> QED
  BY <1>2, <1>3, <1>4, SeenExit, Callers

\* A block without users leaves the list, and its name with it, which no fd has.
LEMMA DetachedSeen ==
  ASSUME Inv, NEW i, ~InUse(i), ById(resources_list, i) # {}, resources_list' = Detached(i),
         UNCHANGED files, Returns(0), UNCHANGED syscall_arg1,
         \A q \in MqBlock : resources_list[q].id = i \/ messages'[q] = messages[q]
  PROVE  PromiseStep
<1>1. IdsUnique(resources_list)
  BY Callers
<1>2. PICK b : b \in ById(resources_list, i)
  OBVIOUS
<1>3. b \in DOMAIN resources_list /\ resources_list[b].id = i /\ ById(resources_list, i) = {b}
  BY <1>1, <1>2 DEF ById, IdsUnique
<1>4. resources_list[b].opened = {}
  BY <1>2 DEF InUse
<1>5. /\ DOMAIN resources_list' = DOMAIN resources_list \ {b}
      /\ \A c \in DOMAIN resources_list \ {b} : resources_list'[c] = resources_list[c]
  BY <1>3 DEF Detached
<1>6. IdsUnique(resources_list')
  BY <1>1, <1>5 DEF IdsUnique
<1>7. \A d \in OpenDescs : desc[d].resource \in DOMAIN resources_list /\ desc[d].resource # b
  BY <1>4, OpenFacts
<1>8. UNCHANGED HandlesSeen
  <2>1. UNCHANGED OpenDescs /\ UNCHANGED desc
    BY DEF files, OpenDescs
  <2>2. \A d \in OpenDescs :
          resources_list'[desc[d].resource].id = resources_list[desc[d].resource].id
    BY <1>5, <1>7
  <2> QED
    BY <2>1, <2>2, HandlesSame DEF HandlesSeen
<1>9. \A h \in HandlesSeen : h.id # i
  <2> SUFFICES ASSUME NEW d \in OpenDescs PROVE resources_list[desc[d].resource].id # i
    BY DEF HandlesSeen, HandleSet, Handle
  <2> QED
    BY <1>1, <1>3, <1>7 DEF IdsUnique
<1>10. PlainSeen' = PlainSeen \ {i}
  BY <1>1, <1>3, <1>5 DEF PlainSeen, PlainIds, QueueBlocks, IdsUnique
<1>11. QueuesSeen' = [j \in DOMAIN QueuesSeen \ {i} |-> QueuesSeen[j]]
  <2> DEFINE f == [j \in DOMAIN QueuesSeen \ {i} |-> QueuesSeen[j]]
  <2>1. DOMAIN QueuesSeen = {resources_list[q].id : q \in QueueBlocks(resources_list)}
    BY DEF QueuesSeen, QueueMap
  <2>2. \A q \in QueueBlocks(resources_list) : QueuesSeen[resources_list[q].id] = messages[q]
    BY <1>1, QueueMapAt DEF QueuesSeen
  <2>3. QueueBlocks(resources_list') = QueueBlocks(resources_list) \ {b}
    BY <1>5 DEF QueueBlocks
  <2>4. \A q \in QueueBlocks(resources_list') :
          /\ resources_list'[q].id = resources_list[q].id
          /\ resources_list[q].id # i /\ messages'[q] = messages[q]
    BY <1>1, <1>3, <1>5, <2>3 DEF IdsUnique, QueueBlocks
  <2>5. DOMAIN f = {resources_list'[q].id : q \in QueueBlocks(resources_list')}
    BY <1>3, <2>1, <2>3, <2>4
  <2>6. \A q \in QueueBlocks(resources_list') : f[resources_list'[q].id] = messages'[q]
    BY <2>1, <2>2, <2>3, <2>4
  <2>7. f = [j \in DOMAIN f |-> f[j]]
    OBVIOUS
  <2> HIDE DEF f
  <2>8. QueuesSeen' = f
    BY <1>6, <2>5, <2>6, <2>7, QueueMapIs DEF QueuesSeen
  <2> QED
    BY <2>8 DEF f
<1>12. i \in NamesSeen
  <2>1. DOMAIN QueuesSeen = {resources_list[q].id : q \in QueueBlocks(resources_list)}
    BY DEF QueuesSeen, QueueMap
  <2> QED
    BY <1>3, <2>1 DEF NamesSeen, PlainSeen, PlainIds
<1> QED
  BY <1>8, <1>9, <1>10, <1>11, <1>12, AnsweredOnly, Callers, SeenRemoved

LEMMA DestroySeen ==
  ASSUME Inv, NEW i, internal_destroyResource(i)
  PROVE  PromiseStep
<1>1. UNCHANGED syscall_arg1
  BY DEF internal_destroyResource
<1>2. CASE ById(resources_list, i) = {} \/ InUse(i)
  <2>1. PICK code \in {DSOS_ERESOURCECLOSE, DSOS_ERESOURCEINUSE} :
          Returns(code) /\ UNCHANGED mailVars
    BY <1>2 DEF internal_destroyResource
  <2> QED
    BY <1>1, <2>1, AnsweredOnly, RefusedSeen
<1>3. CASE ById(resources_list, i) # {} /\ ~InUse(i)
  <2>1. /\ resources_list' = Detached(i) /\ UNCHANGED messages /\ UNCHANGED files
        /\ Returns(0)
    BY <1>3 DEF internal_destroyResource, queues
  <2> QED
    BY <1>1, <1>3, <2>1, DetachedSeen
<1> QED
  BY <1>2, <1>3

LEMMA UnlinkSeen ==
  ASSUME Inv, NEW i, internal_mqUnlink(i)
  PROVE  PromiseStep
<1>1. UNCHANGED syscall_arg1
  BY DEF internal_mqUnlink
<1>2. CASE ById(resources_list, i) = {} \/ InUse(i)
  <2>1. PICK code \in {DSOS_ERESOURCECLOSE, DSOS_ERESOURCEINUSE} :
          Returns(code) /\ UNCHANGED mailVars
    BY <1>2 DEF internal_mqUnlink
  <2> QED
    BY <1>1, <2>1, AnsweredOnly, RefusedSeen
<1>3. CASE ById(resources_list, i) # {} /\ ~InUse(i)
  <2>1. /\ resources_list' = Detached(i) /\ UNCHANGED files /\ Returns(0)
        /\ \A b \in ById(resources_list, i) : MessageQueue_free(b)
    BY <1>3 DEF internal_mqUnlink
  <2>2. PICK b : b \in ById(resources_list, i)
    BY <1>3
  <2>3. messages' = [messages EXCEPT ![b] = <<>>] /\ resources_list[b].id = i
    BY <2>1, <2>2 DEF MessageQueue_free, ById
  <2>4. \A q \in MqBlock : resources_list[q].id = i \/ messages'[q] = messages[q]
    BY <2>3, InvParts DEF MessagesTyped
  <2> QED
    BY <1>1, <1>3, <2>1, <2>4, DetachedSeen
<1> QED
  BY <1>2, <1>3

\* Sending and receiving: the fd is a handle, its queue the one that is used, and
\* the counter says how many messages are there.
LEMMA FdSeen ==
  ASSUME Inv, Counted, NEW fd, ByFd(fd) # {}, IsQueue(fd)
  PROVE  LET q == QueueOf(fd)
             i == resources_list[q].id
         IN  /\ q \in QueueBlocks(resources_list)
             /\ i \in DOMAIN QueuesSeen /\ QueuesSeen[i] = messages[q]
             /\ messages[q] \in Seq(Msgs) /\ num_msg[q] = Len(messages[q])
             /\ num_msg[q] <= MQ_MAX_MSG_SIZE
             /\ \E h \in HandlesSeen : h.pcb = running /\ h.id = i
<1> DEFINE q == QueueOf(fd)
           d == CHOOSE x \in ByFd(fd) : TRUE
<1>1. d \in descriptors[running] /\ q = desc[d].resource
  BY DEF ByFd, QueueOf
<1>2. q \in QueueBlocks(resources_list)
  BY QueueOfListed DEF QueueBlocks
<1> HIDE DEF q, d
<1>3. /\ resources_list[q].id \in DOMAIN QueuesSeen
      /\ QueuesSeen[resources_list[q].id] = messages[q]
  <2>1. IdsUnique(resources_list)
    BY Callers
  <2>2. QueueMap(resources_list, messages)[resources_list[q].id] = messages[q]
    BY <1>2, <2>1, QueueMapAt
  <2> QED
    BY <1>2, <2>2 DEF QueuesSeen, QueueMap
<1>4. /\ messages[q] \in Seq(Msgs) /\ num_msg[q] = Len(messages[q])
      /\ num_msg[q] <= MQ_MAX_MSG_SIZE
  BY <1>2, InvParts DEF MessagesTyped, QueueBlocks, Counted
<1>5. Handle(resources_list, desc, d) \in HandlesSeen
  BY <1>1, OpenFacts DEF HandlesSeen, HandleSet
<1>6. /\ Handle(resources_list, desc, d).pcb = running
      /\ Handle(resources_list, desc, d).id = resources_list[q].id
  BY <1>1, OpenFacts DEF Handle
<1> QED
  BY <1>2, <1>3, <1>4, <1>5, <1>6 DEF q

\* The messages of one queue become s.
LEMMA MessagesSeen ==
  ASSUME Inv, NEW q \in QueueBlocks(resources_list), NEW s,
         messages' = [messages EXCEPT ![q] = s], UNCHANGED blocks, UNCHANGED files
  PROVE  /\ QueuesSeen' = [QueuesSeen EXCEPT ![resources_list[q].id] = s]
         /\ UNCHANGED PlainSeen /\ UNCHANGED HandlesSeen
<1> DEFINE f == [QueuesSeen EXCEPT ![resources_list[q].id] = s]
<1>1. IdsUnique(resources_list)
  BY Callers
<1>2. /\ DOMAIN QueuesSeen = {resources_list[r].id : r \in QueueBlocks(resources_list)}
      /\ \A r \in QueueBlocks(resources_list) : QueuesSeen[resources_list[r].id] = messages[r]
  <2>1. DOMAIN QueuesSeen = {resources_list[r].id : r \in QueueBlocks(resources_list)}
    BY QueueMapDomain DEF QueuesSeen
  <2>2. \A r \in QueueBlocks(resources_list) : QueuesSeen[resources_list[r].id] = messages[r]
    BY <1>1, QueueMapAt DEF QueuesSeen
  <2> QED
    BY <2>1, <2>2
<1>3. UNCHANGED resources_list /\ UNCHANGED PlainSeen /\ UNCHANGED HandlesSeen
  BY DEF blocks, files, PlainSeen, HandlesSeen, OpenDescs
<1>4. messages'[q] = s /\ \A r \in QueueBlocks(resources_list) \ {q} : messages'[r] = messages[r]
  BY InvParts DEF MessagesTyped, QueueBlocks
<1>5. DOMAIN f = {resources_list[r].id : r \in QueueBlocks(resources_list)}
  BY <1>2
<1>6. \A r \in QueueBlocks(resources_list) : f[resources_list[r].id] = messages'[r]
  BY <1>1, <1>2, <1>4 DEF IdsUnique, QueueBlocks
<1>7. f = [i \in DOMAIN f |-> f[i]]
  OBVIOUS
<1> HIDE DEF f
<1> DEFINE msgs1 == messages'
<1>8. \A r \in QueueBlocks(resources_list) : f[resources_list[r].id] = msgs1[r]
  BY <1>6
<1> HIDE DEF msgs1
<1>9. QueueMap(resources_list, msgs1) = f
  BY <1>1, <1>5, <1>7, <1>8, QueueMapIs
<1> QED
  BY <1>3, <1>9 DEF QueuesSeen, f, msgs1

LEMMA SendSeen ==
  ASSUME Inv, Counted, NEW fd, NEW m \in Msgs, internal_mqSend(fd, m)
  PROVE  PromiseStep
<1>1. CASE ByFd(fd) = {}
  <2>1. UNCHANGED mailVars /\ Answered(DSOS_ERESOURCESEND, m)
    BY <1>1 DEF internal_mqSend, Returns, SecondArg, Answered
  <2> QED
    BY <2>1, RefusedSeen
<1>2. CASE ByFd(fd) # {} /\ messages_allocator = 0
  <2>1. UNCHANGED mailVars /\ UNCHANGED syscall_arg1 /\ UNCHANGED retvalue
    BY <1>2 DEF internal_mqSend, Crash
  <2> QED
    BY <2>1, MailAlone, SeenStutter
<1>3. CASE ByFd(fd) # {} /\ messages_allocator # 0
  <2> DEFINE q == QueueOf(fd)
             i == resources_list[q].id
             s == Append(messages[q], m)
  <2>1. /\ messages' = [messages EXCEPT ![q] = s] /\ Answered(0, m)
        /\ UNCHANGED blocks /\ UNCHANGED files
        /\ num_msg[q] # MQ_MAX_MSG_SIZE /\ IsQueue(fd)
    BY <1>3 DEF internal_mqSend, Enqueue, Returns, SecondArg, Answered, BlocksInSend
  <2>2. /\ q \in QueueBlocks(resources_list)
        /\ i \in DOMAIN QueuesSeen /\ QueuesSeen[i] = messages[q]
        /\ messages[q] \in Seq(Msgs) /\ num_msg[q] = Len(messages[q])
        /\ num_msg[q] <= MQ_MAX_MSG_SIZE
    BY <1>3, <2>1, FdSeen
  <2>3. PICK h \in HandlesSeen : h.pcb = running /\ h.id = i
    BY <1>3, <2>1, FdSeen
  <2> HIDE DEF q
  <2>4. Len(messages[q]) < MQ_MAX_MSG_SIZE
    <3>1. Len(messages[q]) \in Nat /\ MQ_MAX_MSG_SIZE \in Nat
      BY <2>2, LenProperties, MailboxesAssumption
    <3> QED
      BY <2>1, <2>2, <3>1
  <2>5. /\ QueuesSeen' = [QueuesSeen EXCEPT ![i] = s]
        /\ UNCHANGED PlainSeen /\ UNCHANGED HandlesSeen
    <3> HIDE DEF s
    <3> QED
      BY <2>1, <2>2, MessagesSeen
  <2>6. QueuesSeen' = [QueuesSeen EXCEPT ![h.id] = Append(@, m)]
    BY <2>2, <2>3, <2>5
  <2> QED
    BY <2>1, <2>2, <2>3, <2>4, <2>5, <2>6, SeenSend
<1> QED
  BY <1>1, <1>2, <1>3

LEMMA ReceiveSeen ==
  ASSUME Inv, Counted, NEW fd, internal_mqReceive(fd)
  PROVE  PromiseStep
<1> DEFINE q == QueueOf(fd)
           i == resources_list[q].id
           s == Tail(messages[q])
<1>1. CASE ByFd(fd) = {}
  <2>1. UNCHANGED mailVars /\ Answered(DSOS_ERESOURCERECV, NoMsg)
    BY <1>1 DEF internal_mqReceive, Returns, SecondArg, Answered
  <2> QED
    BY <2>1, RefusedSeen
<1>2. CASE ByFd(fd) # {} /\ messages[q] = <<>>
  <2>1. UNCHANGED mailVars /\ UNCHANGED syscall_arg1 /\ UNCHANGED retvalue
    BY <1>2 DEF internal_mqReceive, Crash
  <2> QED
    BY <2>1, MailAlone, SeenStutter
<1>3. CASE ByFd(fd) # {} /\ messages[q] # <<>>
  <2>1. /\ messages' = [messages EXCEPT ![q] = s]
        /\ Answered(0, Head(messages[q]))
        /\ UNCHANGED blocks /\ UNCHANGED files /\ IsQueue(fd)
    BY <1>3 DEF internal_mqReceive, Dequeue, Returns, SecondArg, Answered
  <2>2. /\ q \in QueueBlocks(resources_list)
        /\ i \in DOMAIN QueuesSeen /\ QueuesSeen[i] = messages[q]
    BY <1>3, <2>1, FdSeen
  <2>3. PICK h \in HandlesSeen : h.pcb = running /\ h.id = i
    BY <1>3, <2>1, FdSeen
  <2> HIDE DEF q
  <2>4. /\ QueuesSeen' = [QueuesSeen EXCEPT ![i] = s]
        /\ UNCHANGED PlainSeen /\ UNCHANGED HandlesSeen
    <3> HIDE DEF s
    <3> QED
      BY <2>1, <2>2, MessagesSeen
  <2>5. QueuesSeen' = [QueuesSeen EXCEPT ![h.id] = Tail(@)]
    BY <2>2, <2>3, <2>4
  <2> QED
    BY <1>3, <2>1, <2>2, <2>3, <2>4, <2>5, SeenReceive
<1> QED
  BY <1>1, <1>2, <1>3

\* A call that blocks has found the queue full, or empty.
LEMMA ParkSeen ==
  ASSUME Inv, Counted, NEW fd, ByFd(fd) # {}, IsQueue(fd), NEW code, NEW arg, Park(code, arg),
         \/ /\ num_msg[QueueOf(fd)] = MQ_MAX_MSG_SIZE
            /\ code = DSOS_MQ_FULL /\ arg \in Msgs
         \/ num_msg[QueueOf(fd)] = 0 /\ code = DSOS_MQ_EMPTY /\ arg = NoMsg
  PROVE  PromiseStep
<1>1. CASE Crash
  BY <1>1, MailAlone, SeenStutter DEF Crash
<1>2. CASE ~Crash
  <2>1. PICK n \in Proc \ {running} :
          /\ retvalue' = [retvalue EXCEPT ![n] = code]
          /\ syscall_arg1' = [syscall_arg1 EXCEPT ![running] = arg]
          /\ UNCHANGED mailVars
    BY <1>2 DEF Park, SecondArg
  <2> DEFINE q == QueueOf(fd)
             i == resources_list[q].id
  <2>2. /\ i \in DOMAIN QueuesSeen /\ QueuesSeen[i] = messages[q]
        /\ messages[q] \in Seq(Msgs) /\ num_msg[q] = Len(messages[q])
    BY FdSeen
  <2>3. PICK h \in HandlesSeen : h.pcb = running /\ h.id = i
    BY FdSeen
  <2>4. num_msg[q] = 0 => messages[q] = <<>>
    BY <2>2, EmptySeq
  <2> HIDE DEF q, i
  <2>5. \/ /\ Len(QueuesSeen[h.id]) = MQ_MAX_MSG_SIZE
           /\ code = DSOS_MQ_FULL /\ arg \in Msgs
        \/ QueuesSeen[h.id] = <<>> /\ code = DSOS_MQ_EMPTY /\ arg = NoMsg
    BY <2>2, <2>3, <2>4 DEF q
  <2>6. UNCHANGED QueuesSeen /\ UNCHANGED PlainSeen /\ UNCHANGED HandlesSeen
    BY <2>1, MailAlone
  <2> QED
    BY <2>1, <2>2, <2>3, <2>5, <2>6, SeenBlocked
<1> QED
  BY <1>1, <1>2

LEMMA StepSeen ==
  ASSUME Inv, Counted, [Next]_vars, {"exhaust", "plain"} \cap Liberties = {}
  PROVE  PromiseStep
<1>1. CASE UNCHANGED vars
  BY <1>1, MailAlone, SeenStutter DEF vars
<1>2. CASE MailCall
  BY <1>2, OpenCallsSeen, CloseSeen, DestroySeen, UnlinkSeen, SendSeen, ReceiveSeen DEF MailCall
<1>3. CASE BlockingCall
  BY <1>3, ParkSeen DEF BlockingCall, BlocksInSend, BlocksInReceive
<1>4. CASE \E awaited \in BOOLEAN : ExitAndRespawn(awaited)
  BY <1>4, ExitSeen
<1>5. CASE Reschedule
  BY <1>5, MailAlone, SeenStutter DEF Reschedule
<1> QED
  BY <1>1, <1>2, <1>3, <1>4, <1>5 DEF Next

LEMMA InitSeen ==
  ASSUME Init
  PROVE  Promise!Init
<1>1. QueueBlocks(resources_list) = {} /\ OpenDescs = {}
  BY DEF Init, QueueBlocks, OpenDescs, Range
<1> QED
  BY <1>1 DEF Init, Promise!Init, Handles, QueueBlocks, Queues, Listed, OpenDescs

-----------------------------------------------------------------------------

\* The calls keep the promise of MessageQueues, however long the queues are used
\* and their blocks reused: a receive that answers 0 has taken the first message
\* off the queue and left it to its caller, so that each message is received once
\* and in order; a send that answers 0 has queued its message; a call that
\* answers with an error has done nothing; only sends to full queues and receives
\* from empty ones block; and what somebody has open is not removed.
\*
\* Assumed of the callers: they drain the queues they unlink, or a reused queue
\* would count messages it does not have; and opens find a block in each pool and
\* mq_open is used for queues, or an error could come with something opened.  They
\* may exit with open fds, destroy queues as resources and block when nobody else
\* is ready.
THEOREM QueuesCorrect ==
  ASSUME {"undrained", "exhaust", "plain"} \cap Liberties = {}
  PROVE  Spec => QueuesKeepPromise
<1>1. Init => Promise!Init
  BY InitSeen
<1>2. Inv /\ Counted /\ [Next]_vars => [Promise!Next]_(Promise!vars)
  BY StepSeen DEF PromiseStep
<1>3. Spec => []Counted
  BY CountedHolds
<1> QED
  BY <1>1, <1>2, <1>3, InvHolds, PTL DEF Spec, QueuesKeepPromise, Promise!Spec

-----------------------------------------------------------------------------
(* Calls that fail *)

LEMMA OpenCallsFail ==
  ASSUME Inv, {"exhaust", "plain"} \cap Liberties = {}, NEW i \in Ids, NEW mode,
         \/ internal_openResource(i, mode)
         \/ \E type \in {DSOS_MQ, PLAIN} : internal_mqOpen(i, type, mode),
         retvalue'[running] < 0
  PROVE  UNCHANGED mailVars
<1>1. /\ KernelOK(Kernel) /\ Kernel.last_fd = last_fd[running] /\ running \in Proc
      /\ last_fd[running] \in 0..MaxFd /\ Kernel.last_fd <= MaxFd
      /\ retvalue \in [Proc -> Int]
  BY OpenCallsAs, InvParts, MailboxesAssumption DEF CallersTyped
<1>2. PICK type \in {DSOS_MQ, PLAIN} : \E k :
        KernelOK(k) /\ OpenedAs(Kernel, k, i, type) /\ Becomes(k)
  BY OpenCallsAs
<1>3. PICK k : KernelOK(k) /\ OpenedAs(Kernel, k, i, type) /\ Becomes(k)
  BY <1>2
<1>4. CASE k.fault
  BY <1>3, <1>4 DEF Becomes, Crash
<1>5. CASE ~k.fault /\ SeenOpened(Kernel, k, i)
  <2>1. retvalue'[running] = last_fd[running]
    BY <1>1, <1>3, <1>5 DEF Becomes, Returns, SeenOpened
  <2> QED
    BY <1>1, <2>1
<1>6. ASSUME NEW code, k = Fails(Kernel, code), ~k.fault
      PROVE  UNCHANGED mailVars
  <2>1. /\ k.list = resources_list /\ k.mqs = mq_allocator /\ k.res = resource_allocator
        /\ k.msgs = messages /\ k.desc = desc /\ k.fds = descriptors[running]
        /\ k.last_fd = last_fd[running]
    BY <1>6 DEF Fails, Kernel
  <2>2. /\ resources_list' = k.list /\ mq_allocator' = k.mqs
        /\ resource_allocator' = k.res /\ messages' = k.msgs /\ desc' = k.desc
        /\ descriptors' = [descriptors EXCEPT ![running] = k.fds]
        /\ last_fd' = [last_fd EXCEPT ![running] = k.last_fd]
        /\ UNCHANGED <<num_msg, messages_allocator>>
    BY <1>3, <1>6 DEF Becomes
  <2>3. descriptors \in [Proc -> SUBSET Desc] /\ last_fd \in [Proc -> 0..MaxFd + 1]
    BY InvParts DEF FdsSound
  <2>4. UNCHANGED descriptors /\ UNCHANGED last_fd
    BY <2>1, <2>2, <2>3
  <2> QED
    BY <2>1, <2>2, <2>4 DEF mailVars, blocks, queues, files
<1> QED
  BY <1>1, <1>3, <1>4, <1>5, <1>6, OpenedSeen

\* Every other call looks for its errors before it changes anything.
LEMMA OtherCallsFail ==
  ASSUME Inv, retvalue'[running] < 0,
         \/ \E fd \in KnownFds : \/ internal_closeResource(fd)
                                 \/ \E m \in Msgs : internal_mqSend(fd, m)
                                 \/ internal_mqReceive(fd)
         \/ \E i \in Ids : internal_destroyResource(i) \/ internal_mqUnlink(i)
  PROVE  UNCHANGED mailVars
<1>1. running \in Proc /\ retvalue \in [Proc -> Int]
  BY InvParts DEF CallersTyped
<1>2. ~Returns(0)
  BY <1>1 DEF Returns
<1> QED
  BY <1>2 DEF internal_closeResource, internal_mqSend, internal_mqReceive,
              internal_destroyResource, internal_mqUnlink, Crash

\* A call that reports an error leaves the mail as it found it, if opens are
\* left a block of each pool and mq_open is used for queues: the allocations
\* of an open are then behind all its checks.
THEOREM ErrorsCorrect ==
  ASSUME {"exhaust", "plain"} \cap Liberties = {}
  PROVE  Spec => FailedCallChangesNothing
<1>1. Inv /\ [Next]_vars => [MailCall /\ retvalue'[running] < 0 => UNCHANGED mailVars]_vars
  BY OpenCallsFail, OtherCallsFail DEF MailCall
<1> QED
  BY <1>1, InvHolds, PTL DEF Spec, FailedCallChangesNothing

-----------------------------------------------------------------------------
(* What a failed call may leave behind *)

\* OnlyAdds, from one kernel state to another.
OnlyAddsTo(k, k1) ==
  /\ \A q \in QueueBlocks(k.list) : k1.msgs[q] = k.msgs[q]
  /\ \A b \in DOMAIN k.list : b \in DOMAIN k1.list /\ k1.list[b].id = k.list[b].id
  /\ \A d \in DOMAIN k.desc : d \in DOMAIN k1.desc /\ k1.desc[d] = k.desc[d]
  /\ \A b, c \in DOMAIN k1.list \ DOMAIN k.list : b = c
  /\ \A q \in QueueBlocks(k1.list) \ QueueBlocks(k.list) : k1.list[q].opened = {}
  /\ \A d, e \in DOMAIN k1.desc \ DOMAIN k.desc : d = e
  /\ \A d \in DOMAIN k1.desc \ DOMAIN k.desc :
       /\ k1.desc[d].pcb = running /\ k1.desc[d].resource \in DOMAIN k1.list
       /\ k1.list[k1.desc[d].resource].type = PLAIN

LEMMA FailsAdds ==
  ASSUME NEW k, NEW k0, KernelOK(k0), OnlyAddsTo(k, k0), NEW code
  PROVE  OnlyAddsTo(k, Fails(k0, code))
<1> DEFINE k1 == Fails(k0, code)
<1>1. k1.list = k0.list /\ k1.msgs = k0.msgs /\ k1.desc = k0.desc
  BY FailsIs
<1> HIDE DEF k1
<1>2. OnlyAddsTo(k, k1)
  BY <1>1 DEF OnlyAddsTo
<1> QED
  BY <1>2 DEF k1

\* A descriptor for a plain resource is added where none was.
LEMMA AddDescriptorAdds ==
  ASSUME NEW k, NEW k0, KernelOK(k0), running \in Proc, FreeDescs(k0) # {},
         OnlyAddsTo(k, k0), k0.desc = k.desc,
         NEW b \in DOMAIN k0.list, k0.list[b].type = PLAIN,
         b \in DOMAIN k.list \/ b \notin MqBlock
  PROVE  OnlyAddsTo(k, AddDescriptor(k0, b))
<1> DEFINE d == Min(FreeDescs(k0))
           k1 == AddDescriptor(k0, b)
<1>1. k1 = WithDescriptor(k0, b, d)
  BY AddDescriptorIs
<1> HIDE DEF d, k1
<1>2. /\ k1.list = [k0.list EXCEPT ![b].opened = @ \cup {d}] /\ k1.msgs = k0.msgs
      /\ k1.desc = [x \in DOMAIN k0.desc \cup {d} |->
               IF x = d THEN [pcb |-> running, resource |-> b, fd |-> k0.last_fd]
               ELSE k0.desc[x]]
  BY <1>1 DEF WithDescriptor
<1>3. d \notin DOMAIN k0.desc
  BY FreshDescriptor DEF d
<1>4. /\ DOMAIN k1.list = DOMAIN k0.list
      /\ \A c \in DOMAIN k0.list : /\ k1.list[c].id = k0.list[c].id
                                   /\ k1.list[c].type = k0.list[c].type
                                   /\ c # b => k1.list[c].opened = k0.list[c].opened
  BY <1>2 DEF KernelOK, ListTyped, Resource
<1>5. /\ DOMAIN k1.desc = DOMAIN k.desc \cup {d}
      /\ k1.desc[d] = [pcb |-> running, resource |-> b, fd |-> k0.last_fd]
      /\ \A e \in DOMAIN k.desc : k1.desc[e] = k.desc[e]
  BY <1>2, <1>3
<1>6. /\ DOMAIN k1.desc \ DOMAIN k.desc = {d}
      /\ k1.desc[d].pcb = running /\ k1.desc[d].resource \in DOMAIN k1.list
      /\ k1.list[k1.desc[d].resource].type = PLAIN
  BY <1>3, <1>4, <1>5
<1>7. \A q \in QueueBlocks(k1.list) \ QueueBlocks(k.list) : k1.list[q].opened = {}
  BY <1>4 DEF OnlyAddsTo, QueueBlocks
<1>8. /\ \A q \in QueueBlocks(k.list) : k1.msgs[q] = k.msgs[q]
      /\ \A c \in DOMAIN k.list : c \in DOMAIN k1.list /\ k1.list[c].id = k.list[c].id
      /\ \A c, e \in DOMAIN k1.list \ DOMAIN k.list : c = e
  BY <1>2, <1>4 DEF OnlyAddsTo
<1>9. OnlyAddsTo(k, k1)
  BY <1>5, <1>6, <1>7, <1>8 DEF OnlyAddsTo
<1> QED
  BY <1>9 DEF k1

LEMMA NewResourceAdds ==
  ASSUME NEW k, KernelOK(k), k.res # <<>>, NEW i
  PROVE  LET k1 == NewResource(k, i, PLAIN)
             b  == Head(k.res)
         IN  /\ OnlyAddsTo(k, k1) /\ k1.desc = k.desc
             /\ b \in DOMAIN k1.list /\ k1.list[b].type = PLAIN /\ k1.list[b].id = i
             /\ b \notin MqBlock
<1> DEFINE k1 == NewResource(k, i, PLAIN)
           b == Head(k.res)
<1>1. /\ k1.list = Insert(k.list, b, i, PLAIN) /\ k1.msgs = k.msgs /\ k1.desc = k.desc
  BY NewResourceIs
<1>2. b \notin DOMAIN k.list /\ b \notin MqBlock
  BY FreeHeads
<1> HIDE DEF k1, b
<1>3. /\ DOMAIN k1.list = DOMAIN k.list \cup {b}
      /\ k1.list[b] = [id |-> i, type |-> PLAIN, opened |-> {}]
      /\ \A c \in DOMAIN k.list : k1.list[c] = k.list[c]
  BY <1>1, <1>2 DEF Insert
<1>4. OnlyAddsTo(k, k1)
  BY <1>1, <1>2, <1>3 DEF OnlyAddsTo, QueueBlocks
<1> QED
  BY <1>1, <1>2, <1>3, <1>4 DEF k1, b

LEMMA NewQueueAdds ==
  ASSUME NEW k, KernelOK(k), k.mqs # <<>>, NEW i
  PROVE  OnlyAddsTo(k, NewQueue(k, i))
<1> DEFINE k1 == NewQueue(k, i)
           b == Head(k.mqs)
<1>1. /\ k1.list = Insert(k.list, b, i, DSOS_MQ) /\ k1.msgs = [k.msgs EXCEPT ![b] = <<>>]
      /\ k1.desc = k.desc
  BY NewQueueIs
<1>2. b \notin DOMAIN k.list /\ b \in MqBlock
  BY FreeHeads
<1> HIDE DEF k1, b
<1>3. /\ DOMAIN k1.list = DOMAIN k.list \cup {b}
      /\ k1.list[b] = [id |-> i, type |-> DSOS_MQ, opened |-> {}]
      /\ \A c \in DOMAIN k.list : k1.list[c] = k.list[c]
  BY <1>1, <1>2 DEF Insert
<1>4. \A q \in QueueBlocks(k.list) : k1.msgs[q] = k.msgs[q]
  BY <1>1, <1>2 DEF KernelOK, QueueBlocks
<1>5. OnlyAddsTo(k, k1)
  BY <1>1, <1>2, <1>3, <1>4 DEF OnlyAddsTo, QueueBlocks
<1> QED
  BY <1>5 DEF k1

\* An open fails in the state it began in, or that it made of it; or it opens,
\* and returns an fd.
LEMMA OpenExistingAdds ==
  ASSUME NEW k, NEW k0, KernelOK(k0), OnlyAddsTo(k, k0), NEW i, NEW type, NEW mode
  PROVE  LET k1 == OpenExisting(k0, i, type, mode)
         IN  \/ OnlyAddsTo(k, k1) /\ k1.list = k0.list
             \/ /\ FreeDescs(k0) # {} /\ k1.ret \in Nat
                /\ \E b \in DOMAIN k0.list : k0.list[b].type = type /\ k1 = AddDescriptor(k0, b)
<1> DEFINE k1 == OpenExisting(k0, i, type, mode)
<1>1. \/ \E code : k1 = Fails(k0, code)
      \/ /\ FreeDescs(k0) # {}
         /\ \E b \in ById(k0.list, i) : k0.list[b].type = type /\ k1 = AddDescriptor(k0, b)
  BY DEF OpenExisting
<1> HIDE DEF k1
<1>2. ASSUME NEW code, k1 = Fails(k0, code)
      PROVE  OnlyAddsTo(k, k1) /\ k1.list = k0.list
  BY <1>2, FailsAdds, FailsIs
<1>3. ASSUME NEW b \in ById(k0.list, i), k1 = AddDescriptor(k0, b)
      PROVE  b \in DOMAIN k0.list /\ k1.ret \in Nat
  <2>1. b \in DOMAIN k0.list
    BY DEF ById
  <2>2. AddDescriptor(k0, b) = WithDescriptor(k0, b, Min(FreeDescs(k0)))
    BY <2>1, AddDescriptorIs
  <2>3. k1.ret = k0.last_fd
    BY <1>3, <2>2 DEF WithDescriptor
  <2> QED
    BY <2>1, <2>3 DEF KernelOK
<1> QED
  BY <1>1, <1>2, <1>3 DEF k1

\* The open of a plain resource only adds, whether it fails or not, and leaves a
\* block of that name if it may create one.
LEMMA OpenResourceAdds ==
  ASSUME NEW k, KernelOK(k), running \in Proc, NEW i \in Ids, NEW mode
  PROVE  LET k1 == OpenResource(k, i, PLAIN, mode)
         IN  k1.fault \/ (OnlyAddsTo(k, k1) /\ (CREATE \in mode => ById(k1.list, i) # {}))
<1> DEFINE k1 == OpenResource(k, i, PLAIN, mode)
<1>1. OnlyAddsTo(k, k)
  BY DEF OnlyAddsTo
<1>2. CASE CREATE \notin mode
  <2>1. k1 = OpenExisting(k, i, PLAIN, mode)
    BY <1>2 DEF OpenResource
  <2> HIDE DEF k1
  <2> QED
    BY <1>1, <1>2, <2>1, OpenExistingAdds, AddDescriptorAdds DEF k1
<1>3. CASE CREATE \in mode /\ ById(k.list, i) # {}
  <2>1. k1 = Fails(k, DSOS_ERESOURCECREATE)
    BY <1>3 DEF OpenResource
  <2> HIDE DEF k1
  <2>2. OnlyAddsTo(k, k1) /\ k1.list = k.list
    BY <1>1, <2>1, FailsAdds, FailsIs
  <2> QED
    BY <1>3, <2>2 DEF k1
<1>4. CASE CREATE \in mode /\ ById(k.list, i) = {} /\ k.res = <<>>
  <2>1. k1 = Faults(k)
    BY <1>4 DEF OpenResource
  <2> HIDE DEF k1
  <2>2. k1.fault
    BY <2>1, FaultsIs
  <2> QED
    BY <2>2 DEF k1
<1>5. CASE CREATE \in mode /\ ById(k.list, i) = {} /\ k.res # <<>>
  <2>1. PICK k0, b : k0 = NewResource(k, i, PLAIN) /\ b = Head(k.res)
    OBVIOUS
  <2>2. /\ KernelOK(k0) /\ OnlyAddsTo(k, k0) /\ k0.desc = k.desc
        /\ b \in DOMAIN k0.list /\ k0.list[b].type = PLAIN /\ k0.list[b].id = i
        /\ b \notin MqBlock
    BY <1>5, <2>1, NewResourceAdds, NewResourceKeeps
  <2>3. FreeDescs(k0) # {} => OpenExisting(k0, i, PLAIN, mode) = AddDescriptor(k0, b)
    <3>1. /\ b \notin DOMAIN k.list /\ k0.list = Insert(k.list, b, i, PLAIN)
      BY <1>5, <2>1, FreeHeads, NewResourceIs
    <3> QED
      BY <1>5, <3>1, CreatedOpens
  <2>4. k1 = OpenExisting(k0, i, PLAIN, mode)
    BY <1>5, <2>1 DEF OpenResource
  <2> HIDE DEF k1
  <2>5. CASE FreeDescs(k0) # {}
    <3>1. OnlyAddsTo(k, k1)
      BY <2>2, <2>3, <2>4, <2>5, AddDescriptorAdds
    <3>2. k1 = WithDescriptor(k0, b, Min(FreeDescs(k0)))
      BY <2>2, <2>3, <2>4, <2>5, AddDescriptorIs
    <3>3. b \in DOMAIN k1.list /\ k1.list[b].id = i
      BY <2>2, <3>2 DEF WithDescriptor, KernelOK, ListTyped, Resource
    <3> QED
      BY <3>1, <3>3 DEF k1, ById
  <2>6. CASE FreeDescs(k0) = {}
    <3>1. OnlyAddsTo(k, k1) /\ k1.list = k0.list
      BY <2>2, <2>4, <2>6, OpenExistingAdds
    <3> QED
      BY <2>2, <3>1 DEF k1, ById
  <2> QED
    BY <2>5, <2>6
<1> QED
  BY <1>2, <1>3, <1>4, <1>5

\* mq_open only adds if it fails: a queue that nobody has open, or what the open
\* of a plain resource has added before it.
LEMMA MqOpenAdds ==
  ASSUME NEW k, KernelOK(k), running \in Proc, k.last_fd < MaxFd, NEW i \in Ids,
         NEW type \in {DSOS_MQ, PLAIN}, NEW mode
  PROVE  LET k1 == MqOpen(k, i, type, mode)
         IN  k1.fault \/ k1.ret \in Nat \/ OnlyAddsTo(k, k1)
<1> DEFINE k1 == MqOpen(k, i, type, mode)
<1>1. OnlyAddsTo(k, k)
  BY DEF OnlyAddsTo
<1>2. CASE mode # {CREATE} /\ type = DSOS_MQ
  <2>1. k1 = OpenExisting(k, i, type, mode)
    BY <1>2 DEF MqOpen, OpenQueue
  <2> HIDE DEF k1
  <2> QED
    BY <1>1, <2>1, OpenExistingAdds DEF k1
<1>3. CASE mode = {CREATE} /\ ById(k.list, i) # {} /\ type = DSOS_MQ
  <2>1. k1 = Fails(k, DSOS_ERESOURCECREATE)
    BY <1>3 DEF MqOpen, OpenQueue
  <2> HIDE DEF k1
  <2> QED
    BY <1>1, <2>1, FailsAdds DEF k1
<1>4. CASE mode = {CREATE} /\ ById(k.list, i) = {} /\ (k.mqs = <<>> \/ k.res = <<>>)
           /\ type = DSOS_MQ
  <2>1. k1 = Faults(k)
    BY <1>4 DEF MqOpen, OpenQueue
  <2> HIDE DEF k1
  <2> QED
    BY <2>1, FaultsIs DEF k1
<1>5. CASE mode = {CREATE} /\ ById(k.list, i) = {} /\ k.mqs # <<>> /\ k.res # <<>>
           /\ type = DSOS_MQ
  <2>1. PICK k0 : k0 = NewQueue(k, i)
    OBVIOUS
  <2>2. KernelOK(k0) /\ OnlyAddsTo(k, k0)
    BY <1>5, <2>1, NewQueueAdds, NewQueueKeeps
  <2>3. k1 = OpenExisting(k0, i, type, mode)
    BY <1>5, <2>1 DEF MqOpen, OpenQueue
  <2> HIDE DEF k1
  <2> QED
    BY <2>2, <2>3, OpenExistingAdds DEF k1
<1>6. CASE type = PLAIN
  <2>1. PICK k0 : k0 = OpenResource(k, i, PLAIN, mode)
    OBVIOUS
  <2>2. k1 = IF k0.fault THEN k0 ELSE OpenQueue(k0, i, PLAIN, mode)
    BY <1>6, <2>1 DEF MqOpen, DSOS_MQ, PLAIN
  <2>3. KernelOK(k0)
    <3>1. k.last_fd \in Nat /\ MaxFd \in Nat
      BY MailboxesAssumption DEF KernelOK
    <3> QED
      BY <2>1, <3>1, OpenResourceKeeps
  <2>4. k0.fault \/ (OnlyAddsTo(k, k0) /\ (CREATE \in mode => ById(k0.list, i) # {}))
    BY <2>1, OpenResourceAdds
  <2> HIDE DEF k1
  <2>5. CASE k0.fault
    BY <2>2, <2>5 DEF k1
  <2>6. CASE ~k0.fault /\ mode # {CREATE}
    <3>1. k1 = OpenExisting(k0, i, PLAIN, mode)
      BY <2>2, <2>6 DEF OpenQueue
    <3> QED
      BY <2>3, <2>4, <2>6, <3>1, OpenExistingAdds DEF k1
  <2>7. CASE ~k0.fault /\ mode = {CREATE}
    <3>1. k1 = Fails(k0, DSOS_ERESOURCECREATE)
      BY <2>2, <2>4, <2>7 DEF OpenQueue
    <3> QED
      BY <2>3, <2>4, <2>7, <3>1, FailsAdds DEF k1
  <2> QED
    BY <2>5, <2>6, <2>7
<1> QED
  BY <1>2, <1>3, <1>4, <1>5, <1>6

LEMMA NothingAdded ==
  ASSUME UNCHANGED mailVars
  PROVE  OnlyAdds
  BY DEF mailVars, blocks, queues, files, OnlyAdds, Queues, Listed

LEMMA OpenCallsAdd ==
  ASSUME Inv, NEW i \in Ids, NEW mode,
         \/ internal_openResource(i, mode)
         \/ \E type \in {DSOS_MQ, PLAIN} : internal_mqOpen(i, type, mode),
         retvalue'[running] < 0
  PROVE  OnlyAdds
<1>1. /\ KernelOK(Kernel) /\ Kernel.last_fd = last_fd[running] /\ running \in Proc
      /\ Kernel.last_fd < MaxFd /\ retvalue \in [Proc -> Int]
  BY KernelIsOK, InvParts DEF internal_openResource, internal_mqOpen, MayOpen, CallersTyped
<1>2. PICK k : Becomes(k) /\ (k.fault \/ k.ret \in Nat \/ OnlyAddsTo(Kernel, k))
  <2>1. CASE internal_openResource(i, mode)
    BY <1>1, <2>1, OpenResourceAdds DEF internal_openResource
  <2>2. CASE \E type \in {DSOS_MQ, PLAIN} : internal_mqOpen(i, type, mode)
    BY <1>1, <2>2, MqOpenAdds DEF internal_mqOpen
  <2> QED
    BY <2>1, <2>2
<1>3. CASE k.fault
  BY <1>2, <1>3, NothingAdded DEF Becomes, Crash
<1>4. CASE ~k.fault /\ k.ret \in Nat
  <2>1. retvalue'[running] = k.ret
    BY <1>1, <1>2, <1>4 DEF Becomes, Returns
  <2> QED
    BY <1>4, <2>1
<1>5. CASE ~k.fault /\ OnlyAddsTo(Kernel, k)
  <2>1. /\ resources_list' = k.list /\ messages' = k.msgs /\ desc' = k.desc
        /\ UNCHANGED <<num_msg, messages_allocator>>
    BY <1>2, <1>5 DEF Becomes
  <2>2. /\ Kernel.list = resources_list /\ Kernel.msgs = messages /\ Kernel.desc = desc
    BY DEF Kernel
  <2> QED
    BY <1>5, <2>1, <2>2 DEF OnlyAdds, OnlyAddsTo, QueueBlocks, Queues, Listed
<1> QED
  BY <1>2, <1>3, <1>4, <1>5

\* Whatever the callers do, and whichever pool runs out: a call that reports an
\* error takes no message, descriptor or name from anybody.  It leaves at most a
\* queue that nobody has open, or a plain resource and the caller's descriptor.
THEOREM ErrorsOnlyAdd == Spec => FailedCallOnlyAdds
<1>1. Inv /\ [Next]_vars => [OnlyAdds \/ ~(retvalue'[running] < 0 /\ MailCall)]_vars
  BY OpenCallsAdd, OtherCallsFail, NothingAdded DEF MailCall
<1> QED
  BY <1>1, InvHolds, PTL DEF Spec, FailedCallOnlyAdds

=============================================================================
