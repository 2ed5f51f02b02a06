-------------------------- MODULE MailboxesProofs --------------------------
(***************************************************************************)
(* The safety of the message queues and resources, proved for every number *)
(* of processes, blocks and ids and whatever the processes do: blocks are  *)
(* in one place, and no descriptor dangles.                                *)
(*                                                                         *)
(* The two need each other.  mq_open writes a user list of its own in the  *)
(* block it takes from the pool, so a block that is still listed must not  *)
(* be free; unlink and destroy free what has no users, so the users of a   *)
(* block must be all the descriptors that lead to it.  Opening is proved   *)
(* on the kernel states that internal_mqOpen passes through (KernelOK).    *)
(*                                                                         *)
(* The second part is about the counters and the faults.  num_msg survives *)
(* the reuse of its block, so it is the length of the list only if no free *)
(* block holds messages: this is what draining a queue before unlinking it *)
(* gives (FreeEmpty).  mq_open looks at neither pool, so it faults unless  *)
(* there is a MessageQueue block whenever there is a Resource block.       *)
(* Every queue takes one of each and unlink gives only the first back,     *)
(* while plain resources take and give the second: the Resource blocks     *)
(* that are free or listed are never more than the free MessageQueue       *)
(* blocks (StockOK).                                                       *)
(*                                                                         *)
(* The same step by step view gives what the pools lose: a call makes or   *)
(* consumes at most one message, and the Resource blocks that are free or  *)
(* listed only change by the one block that unlinking a queue forgets      *)
(* (StocksStep).                                                           *)
(***************************************************************************)
EXTENDS Mailboxes, SequenceLemmas, FiniteSetTheorems, TLAPS

Block_ == MqBlock \cup ResBlock

\* The descriptors fds of the process p: DescriptorsAgree, of one process.
Agree(list, dsc, fds, next_fd, p) ==
  \A d \in fds :
    /\ d \in DOMAIN dsc /\ dsc[d].pcb = p
    /\ dsc[d].resource \in DOMAIN list
    /\ d \in list[dsc[d].resource].opened
    /\ dsc[d].fd < next_fd
    /\ \A e \in fds : dsc[e].fd = dsc[d].fd => e = d

ListTyped(list) ==
  /\ DOMAIN list \subseteq Block_
  /\ list \in [DOMAIN list -> Resource]

\* EachBlockInOnePlace, of any list and pools.
Placed(list, mqs, res) ==
  /\ mqs \in Seq(MqBlock) /\ res \in Seq(ResBlock)
  /\ IsInjective(mqs) /\ IsInjective(res)
  /\ DOMAIN list \cap (Range(mqs) \cup Range(res)) = {}
  /\ \A b, c \in DOMAIN list : list[b].id = list[c].id => b = c

FilesTyped(dsc) == DOMAIN dsc \subseteq Desc /\ dsc \in [DOMAIN dsc -> Descriptor]

\* A kernel state in the middle of an open by `running`.
KernelOK(k) ==
  /\ k = [list |-> k.list, mqs |-> k.mqs, res |-> k.res, msgs |-> k.msgs,
          desc |-> k.desc, fds |-> k.fds, last_fd |-> k.last_fd,
          ret |-> k.ret, fault |-> k.fault]
  /\ ListTyped(k.list)
  /\ Placed(k.list, k.mqs, k.res)
  /\ FilesTyped(k.desc)
  /\ k.msgs \in [MqBlock -> Seq(Msgs)]
  /\ k.fds \subseteq Desc /\ k.last_fd \in Nat /\ k.ret \in Int /\ k.fault \in BOOLEAN
  /\ Agree(k.list, k.desc, k.fds, k.last_fd, running)
  /\ \A p \in Proc \ {running} : Agree(k.list, k.desc, descriptors[p], last_fd[p], p)

Inv == TypeOK /\ EachBlockInOnePlace /\ DescriptorsAgree

-----------------------------------------------------------------------------
(* The parts of Inv *)

\* The variables of the callers, and those of the messages, have their types.
CallersTyped ==
  /\ running \in Proc /\ system \in {"up", "crashed"}
  /\ retvalue \in [Proc -> Int]
  /\ syscall_arg1 \in [Proc -> Msgs \cup {NoMsg}]

MessagesTyped ==
  /\ messages \in [MqBlock -> Seq(Msgs)]
  /\ num_msg \in [MqBlock -> Int]
  /\ messages_allocator \in Nat

\* The processes' own descriptors: typed, and agreeing with the resources.
FdsSound ==
  /\ descriptors \in [Proc -> SUBSET Desc]
  /\ last_fd \in [Proc -> 0..MaxFd + 1]
  /\ \A p \in Proc : Agree(resources_list, desc, descriptors[p], last_fd[p], p)

BlocksSound ==
  /\ ListTyped(resources_list)
  /\ Placed(resources_list, mq_allocator, resource_allocator)
  /\ FilesTyped(desc)

\* Inv, by the named parts that the lemmas below keep.
LEMMA InvParts ==
  Inv <=> CallersTyped /\ MessagesTyped /\ BlocksSound /\ FdsSound
  BY DEF Inv, TypeOK, Listed, Block_, ListTyped, Placed, FilesTyped, Agree,
         EachBlockInOnePlace, DescriptorsAgree,
         CallersTyped, MessagesTyped, FdsSound, BlocksSound

LEMMA InvPartsNext ==
  CallersTyped' /\ MessagesTyped' /\ BlocksSound' /\ FdsSound' => Inv'
  BY DEF Inv, TypeOK, Listed, Block_, ListTyped, Placed, FilesTyped, Agree,
         EachBlockInOnePlace, DescriptorsAgree,
         CallersTyped, MessagesTyped, FdsSound, BlocksSound

\* The two kinds of blocks, and the descriptors, are numbers.
LEMMA BlockFacts ==
  /\ MqBlock \cap ResBlock = {}
  /\ Desc \subseteq Nat
  BY MailboxesAssumption DEF MqBlock, ResBlock, Desc

-----------------------------------------------------------------------------
(* Opening *)

KernelField ==
  {"list", "mqs", "res", "msgs", "desc", "fds", "last_fd", "ret", "fault"}

\* A record with these fields is given by them.
LEMMA KernelByFields ==
  ASSUME NEW k, k = [f \in KernelField |-> k[f]]
  PROVE  k = [list |-> k.list, mqs |-> k.mqs, res |-> k.res, msgs |-> k.msgs,
              desc |-> k.desc, fds |-> k.fds, last_fd |-> k.last_fd,
              ret |-> k.ret, fault |-> k.fault]
  BY DEF KernelField

\* The kernel states that opening passes through, field by field.
LEMMA FailsIs ==
  ASSUME NEW k, KernelOK(k), NEW code
  PROVE  Fails(k, code) = [list |-> k.list, mqs |-> k.mqs, res |-> k.res, msgs |-> k.msgs,
                           desc |-> k.desc, fds |-> k.fds, last_fd |-> k.last_fd,
                           ret |-> code, fault |-> k.fault]
  BY DEF Fails, KernelOK

LEMMA FaultsIs ==
  ASSUME NEW k, KernelOK(k)
  PROVE  Faults(k) = [list |-> k.list, mqs |-> k.mqs, res |-> k.res, msgs |-> k.msgs,
                      desc |-> k.desc, fds |-> k.fds, last_fd |-> k.last_fd,
                      ret |-> k.ret, fault |-> TRUE]
<1>1. PICK l, m, r, ms, ds, fs, n, rt, ft :
        k = [list |-> l, mqs |-> m, res |-> r, msgs |-> ms, desc |-> ds,
             fds |-> fs, last_fd |-> n, ret |-> rt, fault |-> ft]
  BY DEF KernelOK
<1>2. /\ DOMAIN Faults(k) = DOMAIN k /\ Faults(k).fault = TRUE
      /\ \A f \in DOMAIN k \ {"fault"} : Faults(k)[f] = k[f]
  BY <1>1 DEF Faults
<1>3. DOMAIN k = {"list", "mqs", "res", "msgs", "desc", "fds", "last_fd", "ret", "fault"}
  BY <1>1
<1>4. Faults(k) = [f \in DOMAIN k |-> Faults(k)[f]]
  BY <1>1 DEF Faults
<1> QED
  BY <1>2, <1>3, <1>4

WithDescriptor(k, b, d) ==
  [list |-> [k.list EXCEPT ![b].opened = @ \cup {d}],
   mqs |-> k.mqs, res |-> k.res, msgs |-> k.msgs,
   desc |-> [x \in DOMAIN k.desc \cup {d} |->
               IF x = d THEN [pcb |-> running, resource |-> b, fd |-> k.last_fd]
               ELSE k.desc[x]],
   fds |-> k.fds \cup {d}, last_fd |-> k.last_fd + 1, ret |-> k.last_fd, fault |-> k.fault]

LEMMA AddDescriptorIs ==
  ASSUME NEW k, KernelOK(k), NEW b \in DOMAIN k.list
  PROVE  AddDescriptor(k, b) = WithDescriptor(k, b, Min(FreeDescs(k)))
<1> DEFINE d == Min(FreeDescs(k))
           file == [pcb |-> running, resource |-> b, fd |-> k.last_fd]
           list == [k.list EXCEPT ![b].opened = @ \cup {d}]
           dsc  == [x \in DOMAIN k.desc \cup {d} |-> IF x = d THEN file ELSE k.desc[x]]
           k2 == [k EXCEPT !.desc = dsc, !.fds = k.fds \cup {d}, !.list = list,
                           !.last_fd = k.last_fd + 1, !.ret = k.last_fd]
<1>1. PICK l, m, r, ms, ds, fs, n, rt, ft :
        k = [list |-> l, mqs |-> m, res |-> r, msgs |-> ms, desc |-> ds,
             fds |-> fs, last_fd |-> n, ret |-> rt, fault |-> ft]
  BY DEF KernelOK
<1> HIDE DEF d
<1>2. AddDescriptor(k, b) = k2
  BY <1>1 DEF AddDescriptor, d
<1> HIDE DEF dsc, list
<1>3. k2 = [f \in KernelField |-> k2[f]]
  BY <1>1 DEF KernelField
<1>4. /\ k2.list = list /\ k2.mqs = k.mqs /\ k2.res = k.res /\ k2.msgs = k.msgs
      /\ k2.desc = dsc /\ k2.fds = k.fds \cup {d} /\ k2.last_fd = k.last_fd + 1
      /\ k2.ret = k.last_fd /\ k2.fault = k.fault
  BY <1>1
<1> HIDE DEF k2
<1>5. k2 = [list |-> list, mqs |-> k.mqs, res |-> k.res, msgs |-> k.msgs,
            desc |-> dsc, fds |-> k.fds \cup {d}, last_fd |-> k.last_fd + 1,
            ret |-> k.last_fd, fault |-> k.fault]
  BY <1>3, <1>4, KernelByFields
<1> QED
  BY <1>2, <1>5 DEF WithDescriptor, dsc, list, d

LEMMA NewResourceIs ==
  ASSUME NEW k, KernelOK(k), NEW i, NEW type
  PROVE  NewResource(k, i, type)
           = [list |-> Insert(k.list, Head(k.res), i, type), mqs |-> k.mqs,
              res |-> Tail(k.res), msgs |-> k.msgs,
              desc |-> k.desc, fds |-> k.fds, last_fd |-> k.last_fd,
              ret |-> k.ret, fault |-> k.fault]
<1> DEFINE new == Insert(k.list, Head(k.res), i, type)
<1>1. PICK l, m, r, ms, ds, fs, n, rt, ft :
        k = [list |-> l, mqs |-> m, res |-> r, msgs |-> ms, desc |-> ds,
             fds |-> fs, last_fd |-> n, ret |-> rt, fault |-> ft]
  BY DEF KernelOK
<1>2. NewResource(k, i, type) = [k EXCEPT !.list = new, !.res = Tail(k.res)]
  BY <1>1 DEF NewResource
<1> HIDE DEF new
<1>3. NewResource(k, i, type)
        = [list |-> new, mqs |-> k.mqs, res |-> Tail(k.res), msgs |-> k.msgs,
           desc |-> k.desc, fds |-> k.fds, last_fd |-> k.last_fd,
           ret |-> k.ret, fault |-> k.fault]
  BY <1>1, <1>2
<1> QED
  BY <1>3 DEF new

LEMMA NewQueueIs ==
  ASSUME NEW k, KernelOK(k), NEW i
  PROVE  NewQueue(k, i)
           = [list |-> Insert(k.list, Head(k.mqs), i, DSOS_MQ), mqs |-> Tail(k.mqs),
              res |-> Tail(k.res), msgs |-> [k.msgs EXCEPT ![Head(k.mqs)] = <<>>],
              desc |-> k.desc, fds |-> k.fds, last_fd |-> k.last_fd,
              ret |-> k.ret, fault |-> k.fault]
<1> DEFINE new == Insert(k.list, Head(k.mqs), i, DSOS_MQ)
           msgs == [k.msgs EXCEPT ![Head(k.mqs)] = <<>>]
           k2 == [k EXCEPT !.list = new, !.msgs = msgs, !.mqs = Tail(k.mqs),
                           !.res = Tail(k.res)]
<1>1. PICK l, m, r, ms, ds, fs, n, rt, ft :
        k = [list |-> l, mqs |-> m, res |-> r, msgs |-> ms, desc |-> ds,
             fds |-> fs, last_fd |-> n, ret |-> rt, fault |-> ft]
  BY DEF KernelOK
<1>2. NewQueue(k, i) = k2
  BY <1>1 DEF NewQueue
<1> HIDE DEF new, msgs
<1>3. k2 = [f \in KernelField |-> k2[f]]
  BY <1>1 DEF KernelField
<1>4. /\ k2.list = new /\ k2.mqs = Tail(k.mqs) /\ k2.res = Tail(k.res)
      /\ k2.msgs = msgs /\ k2.desc = k.desc /\ k2.fds = k.fds
      /\ k2.last_fd = k.last_fd /\ k2.ret = k.ret /\ k2.fault = k.fault
  BY <1>1
<1> HIDE DEF k2
<1>5. k2 = [list |-> new, mqs |-> Tail(k.mqs), res |-> Tail(k.res), msgs |-> msgs,
            desc |-> k.desc, fds |-> k.fds, last_fd |-> k.last_fd,
            ret |-> k.ret, fault |-> k.fault]
  BY <1>3, <1>4, KernelByFields
<1> QED
  BY <1>2, <1>5 DEF new, msgs

LEMMA FreshDescriptor ==
  ASSUME NEW k, FreeDescs(k) # {}
  PROVE  Min(FreeDescs(k)) \in Desc /\ Min(FreeDescs(k)) \notin DOMAIN k.desc
<1>1. FreeDescs(k) \subseteq Nat
  BY BlockFacts DEF FreeDescs
<1>2. Min(FreeDescs(k)) \in FreeDescs(k)
  BY <1>1, MinIsLeast
<1> QED
  BY <1>2 DEF FreeDescs

\* A new descriptor of the caller: its fd is above all it has, and nobody had it.
LEMMA AddDescriptorKeeps ==
  ASSUME NEW k, KernelOK(k), running \in Proc, k.last_fd <= MaxFd,
         NEW b \in DOMAIN k.list, FreeDescs(k) # {}
  PROVE  /\ KernelOK(AddDescriptor(k, b))
         /\ AddDescriptor(k, b).last_fd = k.last_fd + 1
         /\ AddDescriptor(k, b).fault = k.fault
<1> DEFINE d == Min(FreeDescs(k))
           file == [pcb |-> running, resource |-> b, fd |-> k.last_fd]
           list == [k.list EXCEPT ![b].opened = @ \cup {d}]
           dsc  == [x \in DOMAIN k.desc \cup {d} |-> IF x = d THEN file ELSE k.desc[x]]
           k1   == [list |-> list, mqs |-> k.mqs, res |-> k.res, msgs |-> k.msgs,
                    desc |-> dsc, fds |-> k.fds \cup {d}, last_fd |-> k.last_fd + 1,
                    ret |-> k.last_fd, fault |-> k.fault]
<1>1. d \in Desc /\ d \notin DOMAIN k.desc
  BY FreshDescriptor
<1>2. AddDescriptor(k, b) = k1
  BY AddDescriptorIs DEF WithDescriptor
<1> HIDE DEF d
<1>3. ListTyped(k.list) /\ FilesTyped(k.desc) /\ Placed(k.list, k.mqs, k.res)
  BY DEF KernelOK
<1>4. /\ DOMAIN list = DOMAIN k.list
      /\ \A c \in DOMAIN list : /\ list[c] \in Resource
                                /\ list[c].id = k.list[c].id
                                /\ k.list[c].opened \subseteq list[c].opened
      /\ d \in list[b].opened
  BY <1>1, <1>3 DEF ListTyped, Resource
<1>5. /\ DOMAIN dsc = DOMAIN k.desc \cup {d}
      /\ dsc[d] = file
      /\ \A e \in DOMAIN k.desc : dsc[e] = k.desc[e]
  BY <1>1
<1>6. ListTyped(list)
  BY <1>3, <1>4 DEF ListTyped
<1>7. Placed(list, k.mqs, k.res)
  BY <1>3, <1>4 DEF Placed
<1>8. FilesTyped(dsc)
  <2>1. file \in Descriptor
    BY <1>3 DEF Descriptor, ListTyped, Block_, KernelOK
  <2> QED
    BY <2>1, <1>1, <1>3, <1>5 DEF FilesTyped
<1>9. \A p \in Proc \ {running} : Agree(list, dsc, descriptors[p], last_fd[p], p)
  <2> SUFFICES ASSUME NEW p \in Proc \ {running},
                      Agree(k.list, k.desc, descriptors[p], last_fd[p], p)
               PROVE  Agree(list, dsc, descriptors[p], last_fd[p], p)
    BY DEF KernelOK
  <2> HIDE DEF list, dsc
  <2> QED
    BY <1>4, <1>5 DEF Agree
<1>10. Agree(list, dsc, k.fds \cup {d}, k.last_fd + 1, running)
  <2>1. Agree(k.list, k.desc, k.fds, k.last_fd, running) /\ k.last_fd \in Nat
    BY DEF KernelOK
  <2>2. \A e \in k.fds : e \in DOMAIN k.desc /\ k.desc[e].fd \in Nat /\ k.desc[e].fd < k.last_fd
    BY <2>1, <1>3 DEF Agree, FilesTyped, Descriptor
  <2>3. ASSUME NEW e \in k.fds
        PROVE  /\ e \in DOMAIN dsc /\ dsc[e].pcb = running
               /\ dsc[e].resource \in DOMAIN list
               /\ e \in list[dsc[e].resource].opened
               /\ dsc[e].fd < k.last_fd + 1
               /\ \A f \in k.fds \cup {d} : dsc[f].fd = dsc[e].fd => f = e
    BY <2>1, <2>2, <1>4, <1>5 DEF Agree
  <2>4. /\ d \in DOMAIN dsc /\ dsc[d].pcb = running
        /\ dsc[d].resource \in DOMAIN list
        /\ d \in list[dsc[d].resource].opened
        /\ dsc[d].fd < k.last_fd + 1
        /\ \A f \in k.fds \cup {d} : dsc[f].fd = dsc[d].fd => f = d
    BY <2>1, <2>2, <1>4, <1>5
  <2> HIDE DEF dsc, list
  <2> QED
    BY <2>3, <2>4 DEF Agree
<1>11. KernelOK(k1)
  <2>1. /\ k.msgs \in [MqBlock -> Seq(Msgs)]
        /\ k.fds \cup {d} \subseteq Desc /\ k.last_fd + 1 \in Nat
        /\ k.last_fd \in Int /\ k.fault \in BOOLEAN
    BY <1>1 DEF KernelOK
  <2> HIDE DEF dsc, list
  <2> QED
    BY <2>1, <1>6, <1>7, <1>8, <1>9, <1>10 DEF KernelOK
<1> QED
  BY <1>2, <1>11

\* An error code, or a fault, changes nothing else.
LEMMA FailsKeeps ==
  ASSUME NEW k, KernelOK(k), NEW code \in Int
  PROVE  /\ KernelOK(Fails(k, code))
         /\ Fails(k, code).last_fd = k.last_fd /\ Fails(k, code).fault = k.fault
  BY FailsIs DEF KernelOK

LEMMA FaultsKeeps ==
  ASSUME NEW k, KernelOK(k)
  PROVE  KernelOK(Faults(k)) /\ Faults(k).last_fd = k.last_fd /\ Faults(k).fault
<1> DEFINE k1 == Faults(k)
<1>1. k1 = [list |-> k.list, mqs |-> k.mqs, res |-> k.res, msgs |-> k.msgs,
            desc |-> k.desc, fds |-> k.fds, last_fd |-> k.last_fd,
            ret |-> k.ret, fault |-> TRUE]
  BY FaultsIs
<1> HIDE DEF k1
<1>2. KernelOK(k1) /\ k1.last_fd = k.last_fd /\ k1.fault
  BY <1>1 DEF KernelOK
<1> QED
  BY <1>2 DEF k1

\* The part that open and mq_open have in common, on any kernel state.
LEMMA OpenExistingKeeps ==
  ASSUME NEW k, KernelOK(k), running \in Proc, k.last_fd <= MaxFd, NEW i, NEW type, NEW mode
  PROVE  /\ KernelOK(OpenExisting(k, i, type, mode))
         /\ OpenExisting(k, i, type, mode).last_fd \in {k.last_fd, k.last_fd + 1}
         /\ OpenExisting(k, i, type, mode).fault = k.fault
<1> DEFINE b == CHOOSE x \in ById(k.list, i) : TRUE
<1>1. ASSUME NEW code \in Int
      PROVE  KernelOK(Fails(k, code)) /\ Fails(k, code).last_fd = k.last_fd
             /\ Fails(k, code).fault = k.fault
  BY FailsKeeps
<1>2. {DSOS_ERESOURCEOPEN, DSOS_ERESOURCENOEXCL, DSOS_ERESOURCENOFD} \subseteq Int
  BY DEF DSOS_ERESOURCEOPEN, DSOS_ERESOURCENOEXCL, DSOS_ERESOURCENOFD
<1>3. \/ \E code \in Int : OpenExisting(k, i, type, mode) = Fails(k, code)
      \/ /\ ById(k.list, i) # {} /\ FreeDescs(k) # {}
         /\ OpenExisting(k, i, type, mode) = AddDescriptor(k, b)
  BY <1>2 DEF OpenExisting
<1>4. ById(k.list, i) # {} => b \in DOMAIN k.list
  BY DEF ById
<1> QED
  BY <1>1, <1>3, <1>4, AddDescriptorKeeps

\* The list new is list and the block b, and an id still names one block.
Grown(list, new, b) ==
  /\ DOMAIN new = DOMAIN list \cup {b}
  /\ \A c \in DOMAIN list : new[c] = list[c]
  /\ \A c, e \in DOMAIN list \cup {b} : new[c].id = new[e].id => c = e

\* A resource enters the list, in a block from the pool and under a new id.
LEMMA InsertKeeps ==
  ASSUME NEW list, ListTyped(list),
         \A c, e \in DOMAIN list : list[c].id = list[e].id => c = e,
         NEW b \in Block_, b \notin DOMAIN list,
         NEW i \in Ids, ById(list, i) = {}, NEW type \in {DSOS_MQ, PLAIN}
  PROVE  /\ ListTyped(Insert(list, b, i, type))
         /\ Grown(list, Insert(list, b, i, type), b)
<1> DEFINE new == Insert(list, b, i, type)
           r == [id |-> i, type |-> type, opened |-> {}]
<1>1. /\ DOMAIN new = DOMAIN list \cup {b} /\ new[b] = r
      /\ \A c \in DOMAIN list : new[c] = list[c]
  BY DEF Insert
<1>2. new = [x \in DOMAIN list \cup {b} |-> new[x]]
  BY DEF Insert
<1>3. r \in Resource /\ r.id = i
  BY DEF Resource
<1> HIDE DEF new, r
<1>4. \A c \in DOMAIN new : new[c] \in Resource
  BY <1>1, <1>3 DEF ListTyped
<1>5. ListTyped(new)
  BY <1>1, <1>2, <1>4 DEF ListTyped
<1>6. \A c \in DOMAIN list : list[c].id # i
  BY DEF ById
<1>7. \A c, e \in DOMAIN list \cup {b} : new[c].id = new[e].id => c = e
  BY <1>1, <1>3, <1>6
<1> QED
  BY <1>1, <1>5, <1>7 DEF new, Grown

\* What others have open stays open when the list grows.
LEMMA AgreeInLarger ==
  ASSUME NEW list, NEW new, NEW dsc, NEW fds, NEW n, NEW p,
         Agree(list, dsc, fds, n, p), DOMAIN list \subseteq DOMAIN new,
         \A c \in DOMAIN list : new[c] = list[c]
  PROVE  Agree(new, dsc, fds, n, p)
  BY DEF Agree

\* Resource_alloc, for an id that is not in the list.
LEMMA NewResourceKeeps ==
  ASSUME NEW k, KernelOK(k), k.res # <<>>, NEW i \in Ids, ById(k.list, i) = {},
         NEW type \in {DSOS_MQ, PLAIN}
  PROVE  /\ KernelOK(NewResource(k, i, type))
         /\ NewResource(k, i, type).last_fd = k.last_fd
         /\ NewResource(k, i, type).fault = k.fault
<1> DEFINE b == Head(k.res)
           new == Insert(k.list, b, i, type)
           k1 == [list |-> new, mqs |-> k.mqs, res |-> Tail(k.res), msgs |-> k.msgs,
                  desc |-> k.desc, fds |-> k.fds, last_fd |-> k.last_fd,
                  ret |-> k.ret, fault |-> k.fault]
<1>1. NewResource(k, i, type) = k1
  BY NewResourceIs
<1>2. ListTyped(k.list) /\ Placed(k.list, k.mqs, k.res)
  BY DEF KernelOK
<1>3. /\ b \in Range(k.res) /\ b \in ResBlock /\ b \notin DOMAIN k.list
      /\ IsInjective(Tail(k.res)) /\ b \notin Range(Tail(k.res))
      /\ Range(Tail(k.res)) \subseteq Range(k.res)
      /\ Tail(k.res) \in Seq(ResBlock)
  <2>1. k.res \in Seq(ResBlock) /\ IsInjective(k.res)
    BY <1>2 DEF Placed
  <2> QED
    BY <2>1, <1>2, TailElements, RangeOfSeq DEF Placed
<1>4. /\ ListTyped(new) /\ DOMAIN new = DOMAIN k.list \cup {b}
      /\ \A c \in DOMAIN k.list : new[c] = k.list[c]
      /\ \A c, e \in DOMAIN k.list \cup {b} : new[c].id = new[e].id => c = e
  <2>1. b \in Block_ /\ b \notin DOMAIN k.list
    BY <1>3 DEF Block_
  <2>2. \A c, e \in DOMAIN k.list : k.list[c].id = k.list[e].id => c = e
    BY <1>2 DEF Placed
  <2> HIDE DEF b
  <2>3. ListTyped(new) /\ Grown(k.list, new, b)
    BY <1>2, <2>1, <2>2, InsertKeeps
  <2> QED
    BY <2>3 DEF Grown
<1> HIDE DEF b, new
<1>5. Placed(new, k.mqs, Tail(k.res))
  <2>1. b \notin Range(k.mqs)
    BY <1>2, <1>3, BlockFacts, RangeOfSeq DEF Placed
  <2> QED
    BY <2>1, <1>2, <1>3, <1>4 DEF Placed
<1>6. KernelOK(k1)
  BY <1>4, <1>5, AgreeInLarger DEF KernelOK
<1> QED
  BY <1>1, <1>6

\* MessageQueue_alloc, for an id that is not in the list.
LEMMA NewQueueKeeps ==
  ASSUME NEW k, KernelOK(k), k.res # <<>>, k.mqs # <<>>, NEW i \in Ids, ById(k.list, i) = {}
  PROVE  /\ KernelOK(NewQueue(k, i))
         /\ NewQueue(k, i).last_fd = k.last_fd
         /\ NewQueue(k, i).fault = k.fault
<1> DEFINE b == Head(k.mqs)
           new == Insert(k.list, b, i, DSOS_MQ)
           msgs == [k.msgs EXCEPT ![b] = <<>>]
           k1 == [list |-> new, mqs |-> Tail(k.mqs), res |-> Tail(k.res), msgs |-> msgs,
                  desc |-> k.desc, fds |-> k.fds, last_fd |-> k.last_fd,
                  ret |-> k.ret, fault |-> k.fault]
<1>1. NewQueue(k, i) = k1
  BY NewQueueIs
<1>2. ListTyped(k.list) /\ Placed(k.list, k.mqs, k.res)
  BY DEF KernelOK
<1>3. /\ b \in Range(k.mqs) /\ b \in MqBlock /\ b \notin DOMAIN k.list
      /\ IsInjective(Tail(k.mqs)) /\ b \notin Range(Tail(k.mqs))
      /\ Range(Tail(k.mqs)) \subseteq Range(k.mqs)
      /\ Tail(k.mqs) \in Seq(MqBlock)
  <2>1. k.mqs \in Seq(MqBlock) /\ IsInjective(k.mqs)
    BY <1>2 DEF Placed
  <2> QED
    BY <2>1, <1>2, TailElements, RangeOfSeq DEF Placed
<1>4. /\ IsInjective(Tail(k.res)) /\ Range(Tail(k.res)) \subseteq Range(k.res)
      /\ Tail(k.res) \in Seq(ResBlock)
  <2>1. k.res \in Seq(ResBlock) /\ IsInjective(k.res)
    BY <1>2 DEF Placed
  <2> QED
    BY <2>1, TailElements
<1>5. /\ ListTyped(new) /\ DOMAIN new = DOMAIN k.list \cup {b}
      /\ \A c \in DOMAIN k.list : new[c] = k.list[c]
      /\ \A c, e \in DOMAIN k.list \cup {b} : new[c].id = new[e].id => c = e
  <2>1. b \in Block_ /\ b \notin DOMAIN k.list
    BY <1>3 DEF Block_
  <2>2. \A c, e \in DOMAIN k.list : k.list[c].id = k.list[e].id => c = e
    BY <1>2 DEF Placed
  <2> HIDE DEF b
  <2>3. ListTyped(new) /\ Grown(k.list, new, b)
    BY <1>2, <2>1, <2>2, InsertKeeps
  <2> QED
    BY <2>3 DEF Grown
<1>6. msgs \in [MqBlock -> Seq(Msgs)]
  BY <1>3 DEF KernelOK
<1> HIDE DEF b, new, msgs
<1>7. Placed(new, Tail(k.mqs), Tail(k.res))
  <2>1. b \notin Range(Tail(k.res))
    BY <1>3, <1>4, BlockFacts, RangeOfSeq DEF Placed
  <2> QED
    BY <2>1, <1>2, <1>3, <1>4, <1>5 DEF Placed
<1>8. KernelOK(k1)
  BY <1>5, <1>6, <1>7, AgreeInLarger DEF KernelOK
<1> QED
  BY <1>1, <1>8

\* internal_openResource.
LEMMA OpenResourceKeeps ==
  ASSUME NEW k, KernelOK(k), running \in Proc, k.last_fd <= MaxFd, NEW i \in Ids,
         NEW type \in {DSOS_MQ, PLAIN}, NEW mode
  PROVE  /\ KernelOK(OpenResource(k, i, type, mode))
         /\ OpenResource(k, i, type, mode).last_fd \in {k.last_fd, k.last_fd + 1}
<1>1. CASE CREATE \notin mode
  BY <1>1, OpenExistingKeeps DEF OpenResource
<1>2. CASE CREATE \in mode /\ ById(k.list, i) # {}
  BY <1>2, FailsKeeps DEF OpenResource, DSOS_ERESOURCECREATE
<1>3. CASE CREATE \in mode /\ ById(k.list, i) = {} /\ k.res = <<>>
  BY <1>3, FaultsKeeps DEF OpenResource
<1>4. CASE CREATE \in mode /\ ById(k.list, i) = {} /\ k.res # <<>>
  <2>1. KernelOK(NewResource(k, i, type)) /\ NewResource(k, i, type).last_fd = k.last_fd
    BY <1>4, NewResourceKeeps
  <2>2. OpenResource(k, i, type, mode) = OpenExisting(NewResource(k, i, type), i, type, mode)
    BY <1>4 DEF OpenResource
  <2> QED
    BY <2>1, <2>2, OpenExistingKeeps
<1> QED
  BY <1>1, <1>2, <1>3, <1>4

\* The own code of internal_mqOpen.
LEMMA OpenQueueKeeps ==
  ASSUME NEW k, KernelOK(k), running \in Proc, k.last_fd <= MaxFd, NEW i \in Ids,
         NEW type, NEW mode
  PROVE  /\ KernelOK(OpenQueue(k, i, type, mode))
         /\ OpenQueue(k, i, type, mode).last_fd \in {k.last_fd, k.last_fd + 1}
<1>1. CASE mode # {CREATE}
  BY <1>1, OpenExistingKeeps DEF OpenQueue
<1>2. CASE mode = {CREATE} /\ ById(k.list, i) # {}
  BY <1>2, FailsKeeps DEF OpenQueue, DSOS_ERESOURCECREATE
<1>3. CASE mode = {CREATE} /\ ById(k.list, i) = {} /\ (k.mqs = <<>> \/ k.res = <<>>)
  BY <1>3, FaultsKeeps DEF OpenQueue
<1>4. CASE mode = {CREATE} /\ ById(k.list, i) = {} /\ k.mqs # <<>> /\ k.res # <<>>
  <2>1. KernelOK(NewQueue(k, i)) /\ NewQueue(k, i).last_fd = k.last_fd
    BY <1>4, NewQueueKeeps
  <2>2. OpenQueue(k, i, type, mode) = OpenExisting(NewQueue(k, i), i, type, mode)
    BY <1>4 DEF OpenQueue
  <2> QED
    BY <2>1, <2>2, OpenExistingKeeps
<1> QED
  BY <1>1, <1>2, <1>3, <1>4

\* internal_mqOpen, which for a plain resource opens twice.
LEMMA MqOpenKeeps ==
  ASSUME NEW k, KernelOK(k), running \in Proc, k.last_fd < MaxFd, NEW i \in Ids,
         NEW type \in {DSOS_MQ, PLAIN}, NEW mode
  PROVE  /\ KernelOK(MqOpen(k, i, type, mode))
         /\ MqOpen(k, i, type, mode).last_fd \in 0..MaxFd + 1
<1>1. k.last_fd \in Nat /\ MaxFd \in Nat
  BY MailboxesAssumption DEF KernelOK
<1>2. CASE type = DSOS_MQ
  BY <1>1, <1>2, OpenQueueKeeps DEF MqOpen
<1>3. CASE type # DSOS_MQ
  <2> DEFINE k1 == OpenResource(k, i, type, mode)
  <2>1. KernelOK(k1) /\ k1.last_fd \in {k.last_fd, k.last_fd + 1}
    BY <1>1, OpenResourceKeeps
  <2>2. MqOpen(k, i, type, mode) = IF k1.fault THEN k1 ELSE OpenQueue(k1, i, type, mode)
    BY <1>3 DEF MqOpen
  <2> HIDE DEF k1
  <2> QED
    BY <1>1, <2>1, <2>2, OpenQueueKeeps
<1> QED
  BY <1>2, <1>3

\* Every open begins in the state the variables are in.
LEMMA KernelIsOK ==
  ASSUME Inv
  PROVE  KernelOK(Kernel) /\ Kernel.last_fd = last_fd[running]
<1>1. CallersTyped /\ MessagesTyped /\ BlocksSound /\ FdsSound
  BY InvParts
<1>2. /\ descriptors[running] \subseteq Desc /\ last_fd[running] \in Nat
      /\ messages \in [MqBlock -> Seq(Msgs)]
      /\ Agree(resources_list, desc, descriptors[running], last_fd[running], running)
      /\ \A p \in Proc \ {running} : Agree(resources_list, desc, descriptors[p], last_fd[p], p)
  BY <1>1, MailboxesAssumption DEF CallersTyped, FdsSound, MessagesTyped
<1> QED
  BY <1>1, <1>2 DEF KernelOK, Kernel, BlocksSound

\* The mail is as it was, whatever a call does to its caller.
LEMMA FrameKeeps ==
  ASSUME Inv, UNCHANGED mailVars, CallersTyped'
  PROVE  Inv'
<1>1. MessagesTyped /\ BlocksSound /\ FdsSound
  BY InvParts
<1>2. MessagesTyped' /\ BlocksSound' /\ FdsSound'
  BY <1>1 DEF mailVars, blocks, queues, files, MessagesTyped, BlocksSound, FdsSound
<1> QED
  BY <1>2, InvPartsNext

\* A result, an argument and a crash are of their types.
LEMMA CallerTyped ==
  ASSUME Inv, UNCHANGED running,
         UNCHANGED system \/ system' = "crashed",
         UNCHANGED retvalue \/ \E code \in Int : Returns(code),
         UNCHANGED syscall_arg1 \/ \E arg \in Msgs \cup {NoMsg} : SecondArg(arg)
  PROVE  CallersTyped'
<1>1. CallersTyped
  BY InvParts
<1>2. retvalue' \in [Proc -> Int]
  BY <1>1 DEF CallersTyped, Returns
<1>3. syscall_arg1' \in [Proc -> Msgs \cup {NoMsg}]
  BY <1>1 DEF CallersTyped, SecondArg
<1> QED
  BY <1>1, <1>2, <1>3 DEF CallersTyped

LEMMA CrashKeeps ==
  ASSUME Inv, Crash, UNCHANGED running
  PROVE  Inv'
<1>1. UNCHANGED <<retvalue, syscall_arg1>> /\ UNCHANGED mailVars /\ system' = "crashed"
  BY DEF Crash
<1> QED
  BY <1>1, CallerTyped, FrameKeeps

\* A call leaves the state its open has reached.
LEMMA BecomesKeeps ==
  ASSUME Inv, NEW k, KernelOK(k), k.last_fd \in 0..MaxFd + 1, Becomes(k), UNCHANGED running
  PROVE  Inv'
<1>1. CASE k.fault
  BY <1>1, CrashKeeps DEF Becomes
<1>2. CASE ~k.fault
  <2>1. /\ resources_list' = k.list /\ mq_allocator' = k.mqs
        /\ resource_allocator' = k.res /\ messages' = k.msgs /\ desc' = k.desc
        /\ descriptors' = [descriptors EXCEPT ![running] = k.fds]
        /\ last_fd' = [last_fd EXCEPT ![running] = k.last_fd]
        /\ Returns(k.ret) /\ SecondArg(NoMsg)
        /\ UNCHANGED <<num_msg, messages_allocator, system>>
    BY <1>2 DEF Becomes
  <2>2. CallersTyped /\ MessagesTyped /\ FdsSound
    BY InvParts
  <2>3. CallersTyped'
    BY <2>1, CallerTyped DEF KernelOK
  <2>4. MessagesTyped' /\ BlocksSound'
    BY <2>1, <2>2 DEF MessagesTyped, BlocksSound, KernelOK
  <2>5. FdsSound'
    <3>1. /\ descriptors'[running] = k.fds /\ last_fd'[running] = k.last_fd
          /\ \A p \in Proc \ {running} :
               descriptors'[p] = descriptors[p] /\ last_fd'[p] = last_fd[p]
          /\ descriptors' \in [Proc -> SUBSET Desc]
          /\ last_fd' \in [Proc -> 0..MaxFd + 1]
      BY <2>1, <2>2 DEF FdsSound, KernelOK, CallersTyped
    <3>2. \A p \in Proc : Agree(resources_list', desc', descriptors'[p], last_fd'[p], p)
      BY <2>1, <3>1 DEF KernelOK
    <3> QED
      BY <3>1, <3>2 DEF FdsSound
  <2> QED
    BY <2>3, <2>4, <2>5, InvPartsNext
<1> QED
  BY <1>1, <1>2

LEMMA OpenCallsKeep ==
  ASSUME Inv, UNCHANGED running, NEW i \in Ids, NEW mode,
         \/ internal_openResource(i, mode)
         \/ \E type \in {DSOS_MQ, PLAIN} : internal_mqOpen(i, type, mode)
  PROVE  Inv'
<1>1. /\ KernelOK(Kernel) /\ Kernel.last_fd = last_fd[running] /\ Kernel.last_fd < MaxFd
      /\ running \in Proc
  BY KernelIsOK, InvParts DEF internal_openResource, internal_mqOpen, MayOpen, CallersTyped
<1>2. Kernel.last_fd \in Nat /\ MaxFd \in Nat
  BY <1>1, MailboxesAssumption DEF KernelOK
<1>3. CASE internal_openResource(i, mode)
  <2>1. /\ KernelOK(OpenResource(Kernel, i, PLAIN, mode))
        /\ OpenResource(Kernel, i, PLAIN, mode).last_fd \in 0..MaxFd + 1
    BY <1>1, <1>2, OpenResourceKeeps
  <2> QED
    BY <2>1, <1>3, BecomesKeeps DEF internal_openResource
<1>4. ASSUME NEW type \in {DSOS_MQ, PLAIN}, internal_mqOpen(i, type, mode)
      PROVE  Inv'
  <2>1. /\ KernelOK(MqOpen(Kernel, i, type, mode))
        /\ MqOpen(Kernel, i, type, mode).last_fd \in 0..MaxFd + 1
    BY <1>1, MqOpenKeeps
  <2> QED
    BY <2>1, <1>4, BecomesKeeps DEF internal_mqOpen
<1> QED
  BY <1>3, <1>4

-----------------------------------------------------------------------------
(* Closing and destroying *)

\* Descriptors ds go; those that stay keep their resources and their fds.
LEMMA ReleaseKeeps ==
  ASSUME BlocksSound, NEW ds, Descriptors_free(ds)
  PROVE  /\ ListTyped(resources_list') /\ FilesTyped(desc')
         /\ Placed(resources_list', mq_allocator, resource_allocator)
         /\ \A fds, n, p : Agree(resources_list, desc, fds, n, p)
                             => Agree(resources_list', desc', fds \ ds, n, p)
<1>1. /\ DOMAIN resources_list' = DOMAIN resources_list
      /\ resources_list' = [b \in DOMAIN resources_list |-> resources_list'[b]]
      /\ \A b \in DOMAIN resources_list :
           resources_list'[b] = [resources_list[b] EXCEPT !.opened = @ \ ds]
  BY DEF Descriptors_free, Released
<1>2. \A b \in DOMAIN resources_list :
        /\ resources_list'[b] \in Resource
        /\ resources_list'[b].id = resources_list[b].id
        /\ resources_list'[b].opened = resources_list[b].opened \ ds
  BY <1>1 DEF BlocksSound, ListTyped, Resource
<1>3. /\ DOMAIN desc' = DOMAIN desc \ ds
      /\ desc' = [d \in DOMAIN desc \ ds |-> desc'[d]]
      /\ \A d \in DOMAIN desc \ ds : desc'[d] = desc[d]
  BY DEF Descriptors_free
<1>4. ListTyped(resources_list')
  BY <1>1, <1>2 DEF BlocksSound, ListTyped
<1>5. FilesTyped(desc')
  BY <1>3 DEF BlocksSound, FilesTyped
<1>6. Placed(resources_list', mq_allocator, resource_allocator)
  BY <1>1, <1>2 DEF BlocksSound, Placed
<1>7. ASSUME NEW fds, NEW n, NEW p, Agree(resources_list, desc, fds, n, p)
      PROVE  Agree(resources_list', desc', fds \ ds, n, p)
  BY <1>1, <1>2, <1>3, <1>7 DEF Agree
<1> QED
  BY <1>4, <1>5, <1>6, <1>7

\* Descriptors of the caller are not those of others.
LEMMA OthersKeepTheirs ==
  ASSUME FdsSound, NEW p \in Proc, NEW q \in Proc, p # q
  PROVE  descriptors[p] \ descriptors[q] = descriptors[p]
  BY DEF FdsSound, Agree

LEMMA CloseKeeps ==
  ASSUME Inv, UNCHANGED running, NEW fd, internal_closeResource(fd)
  PROVE  Inv'
<1>1. CASE ByFd(fd) = {}
  <2>1. /\ Returns(DSOS_ERESOURCECLOSE) /\ DSOS_ERESOURCECLOSE \in Int
        /\ UNCHANGED <<syscall_arg1, system>> /\ UNCHANGED mailVars
    BY <1>1 DEF internal_closeResource, DSOS_ERESOURCECLOSE
  <2> QED
    BY <2>1, CallerTyped, FrameKeeps
<1>2. CASE ByFd(fd) # {}
  <2> DEFINE ds == ByFd(fd)
  <2>1. /\ Descriptors_free(ds)
        /\ descriptors' = [descriptors EXCEPT ![running] = @ \ ds]
        /\ Returns(0)
        /\ UNCHANGED <<syscall_arg1, mq_allocator, resource_allocator, last_fd, system>>
        /\ UNCHANGED queues
    BY <1>2 DEF internal_closeResource
  <2>2. CallersTyped /\ MessagesTyped /\ BlocksSound /\ FdsSound
    BY InvParts
  <2>3. ds \subseteq descriptors[running]
    BY DEF ByFd
  <2> HIDE DEF ds
  <2>4. CallersTyped'
    BY <2>1, CallerTyped
  <2>5. MessagesTyped'
    BY <2>1, <2>2 DEF MessagesTyped, queues
  <2>6. /\ ListTyped(resources_list') /\ FilesTyped(desc')
        /\ Placed(resources_list', mq_allocator, resource_allocator)
        /\ \A fds, n, p : Agree(resources_list, desc, fds, n, p)
                            => Agree(resources_list', desc', fds \ ds, n, p)
    BY <2>1, <2>2, ReleaseKeeps
  <2>7. BlocksSound'
    BY <2>1, <2>6 DEF BlocksSound
  <2>8. ASSUME NEW p \in Proc
        PROVE  descriptors'[p] = descriptors[p] \ ds
    <3>1. CASE p = running
      BY <3>1, <2>1, <2>2 DEF FdsSound
    <3>2. CASE p # running
      <4>1. descriptors[p] \ descriptors[running] = descriptors[p]
        BY <3>2, <2>2, OthersKeepTheirs DEF CallersTyped
      <4>2. descriptors'[p] = descriptors[p]
        BY <3>2, <2>1, <2>2 DEF FdsSound
      <4> QED
        BY <4>1, <4>2, <2>3
    <3> QED
      BY <3>1, <3>2
  <2>9. /\ descriptors' \in [Proc -> SUBSET Desc] /\ last_fd' \in [Proc -> 0..MaxFd + 1]
        /\ \A p \in Proc : last_fd'[p] = last_fd[p]
    BY <2>1, <2>2, <2>3 DEF FdsSound
  <2>10. \A p \in Proc : Agree(resources_list', desc', descriptors'[p], last_fd'[p], p)
    BY <2>2, <2>6, <2>8, <2>9 DEF FdsSound
  <2>11. FdsSound'
    BY <2>9, <2>10 DEF FdsSound
  <2> QED
    BY <2>4, <2>5, <2>7, <2>11, InvPartsNext
<1> QED
  BY <1>1, <1>2

\* A resource without users leaves the list, and no descriptor led to it.
LEMMA DetachKeeps ==
  ASSUME BlocksSound, NEW i, ~InUse(i), ById(resources_list, i) # {},
         resources_list' = Detached(i)
  PROVE  /\ ListTyped(resources_list')
         /\ Placed(resources_list', mq_allocator, resource_allocator)
         /\ \E b \in DOMAIN resources_list :
              /\ ById(resources_list, i) = {b}
              /\ DOMAIN resources_list' = DOMAIN resources_list \ {b}
         /\ \A dsc, fds, n, p : Agree(resources_list, dsc, fds, n, p)
                                  => Agree(resources_list', dsc, fds, n, p)
<1>1. PICK b \in ById(resources_list, i) : TRUE
  OBVIOUS
<1>2. b \in DOMAIN resources_list /\ ById(resources_list, i) = {b}
  BY <1>1 DEF ById, BlocksSound, Placed
<1>3. resources_list[b].opened = {}
  BY <1>1 DEF InUse
<1>4. /\ DOMAIN resources_list' = DOMAIN resources_list \ {b}
      /\ resources_list' = [c \in DOMAIN resources_list \ {b} |-> resources_list'[c]]
      /\ \A c \in DOMAIN resources_list \ {b} : resources_list'[c] = resources_list[c]
  BY <1>2 DEF Detached
<1>5. ListTyped(resources_list')
  BY <1>4 DEF BlocksSound, ListTyped
<1>6. Placed(resources_list', mq_allocator, resource_allocator)
  BY <1>4 DEF BlocksSound, Placed
<1>7. ASSUME NEW dsc, NEW fds, NEW n, NEW p, Agree(resources_list, dsc, fds, n, p)
      PROVE  Agree(resources_list', dsc, fds, n, p)
  BY <1>3, <1>4, <1>7 DEF Agree
<1> QED
  BY <1>2, <1>4, <1>5, <1>6, <1>7

\* A block on top of the pool it is from.
LEMMA BlockBack ==
  ASSUME NEW S, NEW pool \in Seq(S), IsInjective(pool), NEW b \in S, b \notin Range(pool)
  PROVE  /\ <<b>> \o pool \in Seq(S) /\ IsInjective(<<b>> \o pool)
         /\ Range(<<b>> \o pool) = Range(pool) \cup {b}
  BY ConsElements

LEMMA DestroyKeeps ==
  ASSUME Inv, UNCHANGED running, NEW i, internal_destroyResource(i)
  PROVE  Inv'
<1> DEFINE found == ById(resources_list, i)
           b == CHOOSE x \in found : TRUE
<1>1. CallersTyped /\ MessagesTyped /\ BlocksSound /\ FdsSound
  BY InvParts
<1>2. CASE found = {} \/ InUse(i)
  <2>1. /\ Returns(DSOS_ERESOURCECLOSE) \/ Returns(DSOS_ERESOURCEINUSE)
        /\ UNCHANGED <<syscall_arg1, system>> /\ UNCHANGED mailVars
    BY <1>2 DEF internal_destroyResource
  <2>2. DSOS_ERESOURCECLOSE \in Int /\ DSOS_ERESOURCEINUSE \in Int
    BY DEF DSOS_ERESOURCECLOSE, DSOS_ERESOURCEINUSE
  <2> QED
    BY <2>1, <2>2, CallerTyped, FrameKeeps
<1>3. CASE found # {} /\ ~InUse(i)
  <2>1. /\ resources_list' = Detached(i)
        /\ resource_allocator' = IF b \in ResBlock THEN <<b>> \o resource_allocator
                                 ELSE resource_allocator
        /\ Returns(0)
        /\ UNCHANGED <<mq_allocator, syscall_arg1, system>>
        /\ UNCHANGED queues /\ UNCHANGED files
    BY <1>3 DEF internal_destroyResource
  <2>2. /\ ListTyped(resources_list')
        /\ Placed(resources_list', mq_allocator, resource_allocator)
        /\ \E c \in DOMAIN resources_list :
              /\ found = {c}
              /\ DOMAIN resources_list' = DOMAIN resources_list \ {c}
        /\ \A dsc, fds, n, p : Agree(resources_list, dsc, fds, n, p)
                                 => Agree(resources_list', dsc, fds, n, p)
    BY <1>1, <1>3, <2>1, DetachKeeps
  <2>3. b \in DOMAIN resources_list /\ b \notin DOMAIN resources_list'
    BY <2>2
  <2> HIDE DEF b, found
  <2>4. CallersTyped'
    BY <2>1, CallerTyped
  <2>5. MessagesTyped' /\ FdsSound'
    BY <1>1, <2>1, <2>2 DEF MessagesTyped, FdsSound, queues, files
  <2>6. Placed(resources_list', mq_allocator', resource_allocator')
    <3>1. CASE b \in ResBlock
      <4>1. /\ resource_allocator \in Seq(ResBlock) /\ IsInjective(resource_allocator)
            /\ b \notin Range(resource_allocator)
        BY <1>1, <2>3 DEF BlocksSound, Placed
      <4>2. /\ resource_allocator' = <<b>> \o resource_allocator
            /\ resource_allocator' \in Seq(ResBlock) /\ IsInjective(resource_allocator')
            /\ Range(resource_allocator') = Range(resource_allocator) \cup {b}
        BY <3>1, <4>1, <2>1, BlockBack
      <4> QED
        BY <4>2, <2>1, <2>2, <2>3 DEF Placed
    <3>2. CASE b \notin ResBlock
      BY <3>2, <2>1, <2>2
    <3> QED
      BY <3>1, <3>2
  <2>7. BlocksSound'
    BY <1>1, <2>1, <2>2, <2>6 DEF BlocksSound, files
  <2> QED
    BY <2>4, <2>5, <2>7, InvPartsNext
<1> QED
  BY <1>2, <1>3

LEMMA UnlinkKeeps ==
  ASSUME Inv, UNCHANGED running, NEW i, internal_mqUnlink(i)
  PROVE  Inv'
<1> DEFINE found == ById(resources_list, i)
<1>1. CallersTyped /\ MessagesTyped /\ BlocksSound /\ FdsSound
  BY InvParts
<1>2. CASE found = {} \/ InUse(i)
  <2>1. /\ Returns(DSOS_ERESOURCECLOSE) \/ Returns(DSOS_ERESOURCEINUSE)
        /\ UNCHANGED <<syscall_arg1, system>> /\ UNCHANGED mailVars
    BY <1>2 DEF internal_mqUnlink
  <2>2. DSOS_ERESOURCECLOSE \in Int /\ DSOS_ERESOURCEINUSE \in Int
    BY DEF DSOS_ERESOURCECLOSE, DSOS_ERESOURCEINUSE
  <2> QED
    BY <2>1, <2>2, CallerTyped, FrameKeeps
<1>3. CASE found # {} /\ ~InUse(i)
  <2>1. /\ resources_list' = Detached(i)
        /\ \A b \in found : MessageQueue_free(b)
        /\ Returns(0) /\ found \subseteq MqBlock
        /\ UNCHANGED <<resource_allocator, num_msg, syscall_arg1, system>>
        /\ UNCHANGED files
    BY <1>3 DEF internal_mqUnlink
  <2>2. /\ ListTyped(resources_list')
        /\ Placed(resources_list', mq_allocator, resource_allocator)
        /\ \A dsc, fds, n, p : Agree(resources_list, dsc, fds, n, p)
                                 => Agree(resources_list', dsc, fds, n, p)
    BY <1>1, <1>3, <2>1, DetachKeeps
  <2>3. PICK b \in DOMAIN resources_list :
              /\ found = {b}
              /\ DOMAIN resources_list' = DOMAIN resources_list \ {b}
    BY <1>1, <1>3, <2>1, DetachKeeps
  <2>4. /\ b \in MqBlock
        /\ messages' = [messages EXCEPT ![b] = <<>>]
        /\ messages_allocator' = messages_allocator + Len(messages[b])
        /\ mq_allocator' = <<b>> \o mq_allocator
    BY <2>1, <2>3 DEF MessageQueue_free
  <2> HIDE DEF found
  <2>5. CallersTyped'
    BY <2>1, CallerTyped
  <2>6. MessagesTyped'
    BY <1>1, <2>1, <2>4 DEF MessagesTyped
  <2>7. FdsSound'
    BY <1>1, <2>1, <2>2 DEF FdsSound, files
  <2>8. Placed(resources_list', mq_allocator', resource_allocator')
    <3>1. /\ mq_allocator \in Seq(MqBlock) /\ IsInjective(mq_allocator)
          /\ b \notin Range(mq_allocator)
      BY <1>1 DEF BlocksSound, Placed
    <3>2. /\ mq_allocator' \in Seq(MqBlock) /\ IsInjective(mq_allocator')
          /\ Range(mq_allocator') = Range(mq_allocator) \cup {b}
      BY <3>1, <2>4, BlockBack
    <3> QED
      BY <3>2, <2>1, <2>2, <2>3 DEF Placed
  <2>9. BlocksSound'
    BY <1>1, <2>1, <2>2, <2>8 DEF BlocksSound, files
  <2> QED
    BY <2>5, <2>6, <2>7, <2>9, InvPartsNext
<1> QED
  BY <1>2, <1>3

-----------------------------------------------------------------------------
(* Sending, receiving, coming and going *)

\* An fd that is found leads to a queue that is in the list.
LEMMA QueueOfListed ==
  ASSUME Inv, NEW fd, ByFd(fd) # {}, IsQueue(fd)
  PROVE  QueueOf(fd) \in MqBlock /\ QueueOf(fd) \in DOMAIN resources_list
<1>1. CallersTyped /\ FdsSound
  BY InvParts
<1>2. (CHOOSE d \in ByFd(fd) : TRUE) \in descriptors[running]
  BY DEF ByFd
<1> QED
  BY <1>1, <1>2 DEF IsQueue, QueueOf, CallersTyped, FdsSound, Agree

LEMMA SendKeeps ==
  ASSUME Inv, UNCHANGED running, NEW fd, NEW m \in Msgs, internal_mqSend(fd, m)
  PROVE  Inv'
<1>1. CASE ByFd(fd) = {}
  <2>1. /\ Returns(DSOS_ERESOURCESEND) /\ DSOS_ERESOURCESEND \in Int
        /\ SecondArg(m) /\ UNCHANGED system /\ UNCHANGED mailVars
    BY <1>1 DEF internal_mqSend, DSOS_ERESOURCESEND
  <2> QED
    BY <2>1, CallerTyped, FrameKeeps
<1>2. CASE ByFd(fd) # {} /\ messages_allocator = 0
  BY <1>2, CrashKeeps DEF internal_mqSend
<1>3. CASE ByFd(fd) # {} /\ messages_allocator # 0
  <2>1. /\ Enqueue(QueueOf(fd), m) /\ Returns(0) /\ SecondArg(m)
        /\ UNCHANGED system /\ UNCHANGED blocks /\ UNCHANGED files
    BY <1>3 DEF internal_mqSend
  <2>2. MessagesTyped /\ BlocksSound /\ FdsSound
    BY InvParts
  <2>3. QueueOf(fd) \in MqBlock
    BY <1>3, QueueOfListed DEF internal_mqSend
  <2>4. CallersTyped'
    BY <2>1, CallerTyped
  <2>5. MessagesTyped'
    <3>1. Append(messages[QueueOf(fd)], m) \in Seq(Msgs)
      BY <2>2, <2>3 DEF MessagesTyped
    <3> QED
      BY <3>1, <2>1, <2>2, <2>3, <1>3 DEF MessagesTyped, Enqueue
  <2>6. BlocksSound' /\ FdsSound'
    BY <2>1, <2>2 DEF BlocksSound, FdsSound, blocks, files
  <2> QED
    BY <2>4, <2>5, <2>6, InvPartsNext
<1> QED
  BY <1>1, <1>2, <1>3

LEMMA ReceiveKeeps ==
  ASSUME Inv, UNCHANGED running, NEW fd, internal_mqReceive(fd)
  PROVE  Inv'
<1> DEFINE q == QueueOf(fd)
<1>1. CASE ByFd(fd) = {}
  <2>1. /\ Returns(DSOS_ERESOURCERECV) /\ DSOS_ERESOURCERECV \in Int
        /\ SecondArg(NoMsg) /\ UNCHANGED system /\ UNCHANGED mailVars
    BY <1>1 DEF internal_mqReceive, DSOS_ERESOURCERECV
  <2> QED
    BY <2>1, CallerTyped, FrameKeeps
<1>2. CASE ByFd(fd) # {} /\ messages[q] = <<>>
  BY <1>2, CrashKeeps DEF internal_mqReceive
<1>3. CASE ByFd(fd) # {} /\ messages[q] # <<>>
  <2>1. /\ Dequeue(q) /\ Returns(0) /\ SecondArg(Head(messages[q]))
        /\ UNCHANGED system /\ UNCHANGED blocks /\ UNCHANGED files
    BY <1>3 DEF internal_mqReceive
  <2>2. MessagesTyped /\ BlocksSound /\ FdsSound
    BY InvParts
  <2>3. q \in MqBlock
    BY <1>3, QueueOfListed DEF internal_mqReceive
  <2> HIDE DEF q
  <2>4. messages[q] \in Seq(Msgs) /\ Head(messages[q]) \in Msgs /\ Tail(messages[q]) \in Seq(Msgs)
    BY <1>3, <2>2, <2>3 DEF MessagesTyped
  <2>5. CallersTyped'
    BY <2>1, <2>4, CallerTyped
  <2>6. MessagesTyped'
    BY <2>1, <2>2, <2>3, <2>4 DEF MessagesTyped, Dequeue
  <2>7. BlocksSound' /\ FdsSound'
    BY <2>1, <2>2 DEF BlocksSound, FdsSound, blocks, files
  <2> QED
    BY <2>5, <2>6, <2>7, InvPartsNext
<1> QED
  BY <1>1, <1>2, <1>3

LEMMA ExitKeeps ==
  ASSUME Inv, NEW awaited, ExitAndRespawn(awaited)
  PROVE  Inv'
<1>1. CallersTyped /\ MessagesTyped /\ BlocksSound /\ FdsSound
  BY InvParts
<1>2. /\ FreshPcb(running) /\ running' \in Proc
      /\ UNCHANGED <<retvalue, syscall_arg1, mq_allocator, resource_allocator, system>>
      /\ UNCHANGED queues
  BY DEF ExitAndRespawn
<1>3. CallersTyped' /\ MessagesTyped'
  BY <1>1, <1>2 DEF CallersTyped, MessagesTyped, queues
<1>4. /\ ListTyped(resources_list') /\ FilesTyped(desc')
      /\ Placed(resources_list', mq_allocator, resource_allocator)
      /\ \A p \in Proc \ {running} :
           Agree(resources_list', desc', descriptors[p], last_fd[p], p)
  <2>1. CASE awaited
    <3>1. Descriptors_free(descriptors[running])
      BY <2>1 DEF ExitAndRespawn, ReleaseAll
    <3>2. \A p \in Proc \ {running} : descriptors[p] \ descriptors[running] = descriptors[p]
      BY <1>1, OthersKeepTheirs DEF CallersTyped
    <3>3. /\ ListTyped(resources_list') /\ FilesTyped(desc')
          /\ Placed(resources_list', mq_allocator, resource_allocator)
          /\ \A fds, n, p : Agree(resources_list, desc, fds, n, p)
                              => Agree(resources_list', desc', fds \ descriptors[running], n, p)
      BY <1>1, <3>1, ReleaseKeeps
    <3> QED
      BY <1>1, <3>2, <3>3 DEF FdsSound
  <2>2. CASE ~awaited
    BY <1>1, <2>2 DEF ExitAndRespawn, BlocksSound, FdsSound
  <2> QED
    BY <2>1, <2>2
<1>5. BlocksSound'
  BY <1>2, <1>4 DEF BlocksSound
<1>6. FdsSound'
  <2>1. /\ descriptors' = [descriptors EXCEPT ![running] = {}]
        /\ last_fd' = [last_fd EXCEPT ![running] = 0]
    BY <1>2 DEF FreshPcb
  <2>2. /\ descriptors' \in [Proc -> SUBSET Desc] /\ last_fd' \in [Proc -> 0..MaxFd + 1]
        /\ descriptors'[running] = {}
        /\ \A p \in Proc \ {running} :
             descriptors'[p] = descriptors[p] /\ last_fd'[p] = last_fd[p]
    BY <1>1, <2>1, MailboxesAssumption DEF FdsSound, CallersTyped
  <2>3. Agree(resources_list', desc', {}, last_fd'[running], running)
    BY DEF Agree
  <2> QED
    BY <1>4, <2>2, <2>3 DEF FdsSound
<1> QED
  BY <1>3, <1>5, <1>6, InvPartsNext

LEMMA ParkKeeps ==
  ASSUME Inv, NEW code \in Int, NEW arg \in Msgs \cup {NoMsg}, Park(code, arg)
  PROVE  Inv'
<1>1. CallersTyped
  BY InvParts
<1>2. CASE Crash /\ UNCHANGED running
  BY <1>2, CrashKeeps
<1>3. CASE /\ running' \in Proc \ {running}
           /\ retvalue' = [retvalue EXCEPT ![running'] = code]
           /\ SecondArg(arg) /\ UNCHANGED <<mailVars, system>>
  <2>1. CallersTyped'
    BY <1>1, <1>3 DEF CallersTyped, SecondArg
  <2> QED
    BY <1>3, <2>1, FrameKeeps
<1> QED
  BY <1>2, <1>3 DEF Park

-----------------------------------------------------------------------------
(* Every step *)

LEMMA InitSound == Init => Inv
<1> SUFFICES ASSUME Init PROVE Inv
  OBVIOUS
<1>1. /\ MAX_NUM_RESOURCES \in Nat /\ MAX_NUM_MESSAGES \in Nat /\ MaxFd \in Nat
      /\ MQ_MAX_MSG_SIZE \in Nat
  BY MailboxesAssumption
<1>2. CallersTyped /\ MessagesTyped
  BY <1>1 DEF Init, CallersTyped, MessagesTyped
<1>3. FdsSound
  BY <1>1 DEF Init, FdsSound, Agree
<1>4. /\ mq_allocator \in Seq(MqBlock) /\ IsInjective(mq_allocator)
      /\ resource_allocator \in Seq(ResBlock) /\ IsInjective(resource_allocator)
  BY <1>1 DEF Init, MqBlock, ResBlock, IsInjective
<1>5. BlocksSound
  BY <1>4 DEF Init, BlocksSound, ListTyped, FilesTyped, Placed
<1> QED
  BY <1>2, <1>3, <1>5, InvParts

LEMMA StepSound == Inv /\ [Next]_vars => Inv'
<1> SUFFICES ASSUME Inv, [Next]_vars PROVE Inv'
  OBVIOUS
<1>1. CASE UNCHANGED vars
  BY <1>1, InvParts, FrameKeeps DEF vars, CallersTyped
<1>2. CASE MailCall /\ UNCHANGED running
  BY <1>2, OpenCallsKeep, CloseKeeps, DestroyKeeps, UnlinkKeeps, SendKeeps, ReceiveKeeps
     DEF MailCall
<1>3. CASE BlockingCall
  BY <1>3, ParkKeeps DEF BlockingCall, DSOS_MQ_FULL, DSOS_MQ_EMPTY
<1>4. CASE \E awaited \in BOOLEAN : ExitAndRespawn(awaited)
  BY <1>4, ExitKeeps
<1>5. CASE Reschedule
  <2>1. CallersTyped'
    BY <1>5, InvParts DEF Reschedule, CallersTyped
  <2> QED
    BY <1>5, <2>1, FrameKeeps DEF Reschedule
<1> QED
  BY <1>1, <1>2, <1>3, <1>4, <1>5 DEF Next

LEMMA InvHolds == Spec => []Inv
  BY InitSound, StepSound, PTL DEF Spec

-----------------------------------------------------------------------------

\* The variables keep their types: no call mixes blocks of the two pools, and
\* no fd passes the bound.
THEOREM MailboxTypes == Spec => []TypeOK
<1>1. Inv => TypeOK
  BY DEF Inv
<1> QED
  BY <1>1, InvHolds, PTL

\* A block is free once or listed, and an id names one block, whatever the
\* callers do.
THEOREM BlocksCorrect == Spec => []EachBlockInOnePlace
<1>1. Inv => EachBlockInOnePlace
  BY DEF Inv
<1> QED
  BY <1>1, InvHolds, PTL

\* No descriptor dangles and no fd is ambiguous, whatever the callers do.
THEOREM DescriptorsCorrect == Spec => []DescriptorsAgree
<1>1. Inv => DescriptorsAgree
  BY DEF Inv
<1> QED
  BY <1>1, InvHolds, PTL


-----------------------------------------------------------------------------
(* Counters, pools and faults *)

Counted ==
  \A q \in MqBlock : num_msg[q] = Len(messages[q]) /\ num_msg[q] <= MQ_MAX_MSG_SIZE

\* No free MessageQueue block holds messages.
FreeEmpty(k) == \A q \in Range(k.mqs) : k.msgs[q] = <<>>

PlainListed(list) == DOMAIN list \cap ResBlock

\* There is a MessageQueue block for every Resource block that is, or becomes, free.
StockOf(k) == Len(k.res) + Cardinality(PlainListed(k.list))
StockOK(k) == StockOf(k) <= Len(k.mqs)

\* What opening makes of the kernel state k: the messages stay, and the two
\* facts above are kept.
Kept(k, k1) ==
  /\ k1.msgs = k.msgs
  /\ FreeEmpty(k1)
  /\ StockOK(k) => StockOK(k1)

\* Only the users of the blocks may differ.
SameBlocks(k, k1) ==
  /\ k1.res = k.res /\ DOMAIN k1.list = DOMAIN k.list
  /\ \A b \in DOMAIN k.list : k1.list[b].id = k.list[b].id

\* The Resource blocks that are free or listed are as many; or one has been lost
\* to a new queue.
QueuesListed(k) == DOMAIN k.list \cap MqBlock
SameStock(k, k1) == StockOf(k1) = StockOf(k) /\ QueuesListed(k1) = QueuesListed(k)
QueueTakesOne(k, k1) ==
  /\ StockOf(k1) = StockOf(k) - 1
  /\ \E q \in MqBlock \ QueuesListed(k) : QueuesListed(k1) = QueuesListed(k) \cup {q}

-----------------------------------------------------------------------------

LEMMA ListedFinite ==
  ASSUME NEW list, DOMAIN list \subseteq Block_
  PROVE  IsFiniteSet(PlainListed(list)) /\ Cardinality(PlainListed(list)) \in Nat
<1>1. IsFiniteSet(ResBlock)
  BY MailboxesAssumption, FS_Interval DEF ResBlock
<1>2. IsFiniteSet(PlainListed(list))
  BY <1>1, FS_Subset DEF PlainListed
<1> QED
  BY <1>2, FS_CardinalityType

LEMMA FailsKept ==
  ASSUME NEW k, KernelOK(k), FreeEmpty(k), NEW code
  PROVE  /\ Kept(k, Fails(k, code)) /\ SameBlocks(k, Fails(k, code))
         /\ Kept(k, Faults(k))
  BY FailsIs, FaultsIs DEF Kept, FreeEmpty, StockOK, StockOf, SameBlocks

LEMMA AddDescriptorKept ==
  ASSUME NEW k, KernelOK(k), FreeEmpty(k), NEW b \in DOMAIN k.list
  PROVE  Kept(k, AddDescriptor(k, b)) /\ SameBlocks(k, AddDescriptor(k, b))
<1> DEFINE d == Min(FreeDescs(k))
           list == [k.list EXCEPT ![b].opened = @ \cup {d}]
<1> HIDE DEF d
<1>1. DOMAIN list = DOMAIN k.list /\ \A c \in DOMAIN k.list : list[c].id = k.list[c].id
  BY DEF KernelOK, ListTyped, Resource
<1>2. /\ AddDescriptor(k, b).list = list /\ AddDescriptor(k, b).mqs = k.mqs
      /\ AddDescriptor(k, b).res = k.res /\ AddDescriptor(k, b).msgs = k.msgs
  <2>1. AddDescriptor(k, b) = WithDescriptor(k, b, d)
    BY AddDescriptorIs DEF d
  <2> QED
    BY <2>1 DEF WithDescriptor
<1> HIDE DEF list
<1> QED
  BY <1>1, <1>2 DEF Kept, FreeEmpty, StockOK, StockOf, PlainListed, SameBlocks

LEMMA OpenExistingKept ==
  ASSUME NEW k, KernelOK(k), FreeEmpty(k), NEW i, NEW type, NEW mode
  PROVE  /\ Kept(k, OpenExisting(k, i, type, mode))
         /\ SameBlocks(k, OpenExisting(k, i, type, mode))
<1> DEFINE b == CHOOSE x \in ById(k.list, i) : TRUE
<1>1. \/ \E code : OpenExisting(k, i, type, mode) = Fails(k, code)
      \/ ById(k.list, i) # {} /\ OpenExisting(k, i, type, mode) = AddDescriptor(k, b)
  BY DEF OpenExisting
<1>2. ById(k.list, i) # {} => b \in DOMAIN k.list
  BY DEF ById
<1> QED
  BY <1>1, <1>2, FailsKept, AddDescriptorKept

LEMMA KeptThen ==
  ASSUME NEW k, NEW k1, NEW k2, Kept(k, k1), Kept(k1, k2)
  PROVE  Kept(k, k2)
  BY DEF Kept

LEMMA SameBlocksStock ==
  ASSUME NEW k, NEW k1, SameBlocks(k, k1)
  PROVE  SameStock(k, k1)
  BY DEF SameBlocks, SameStock, StockOf, QueuesListed, PlainListed

LEMMA StockThen ==
  ASSUME NEW k, NEW k1, NEW k2
  PROVE  /\ SameStock(k, k1) /\ SameStock(k1, k2) => SameStock(k, k2)
         /\ SameStock(k, k1) /\ QueueTakesOne(k1, k2) => QueueTakesOne(k, k2)
         /\ QueueTakesOne(k, k1) /\ SameStock(k1, k2) => QueueTakesOne(k, k2)
  BY DEF SameStock, QueueTakesOne

LEMMA NewResourceKept ==
  ASSUME NEW k, KernelOK(k), FreeEmpty(k), k.res # <<>>, NEW i \in Ids, NEW type
  PROVE  /\ Kept(k, NewResource(k, i, type)) /\ SameStock(k, NewResource(k, i, type))
         /\ ById(NewResource(k, i, type).list, i) # {}
<1> DEFINE b == Head(k.res)
           new == Insert(k.list, b, i, type)
           k1 == NewResource(k, i, type)
<1>1. DOMAIN new = DOMAIN k.list \cup {b} /\ new[b].id = i
  BY DEF Insert
<1>2. k1.list = new /\ k1.res = Tail(k.res) /\ k1.mqs = k.mqs /\ k1.msgs = k.msgs
  <2>1. k1 = [list |-> new, mqs |-> k.mqs, res |-> Tail(k.res), msgs |-> k.msgs,
              desc |-> k.desc, fds |-> k.fds, last_fd |-> k.last_fd,
              ret |-> k.ret, fault |-> k.fault]
    BY NewResourceIs
  <2> HIDE DEF k1, new
  <2> QED
    BY <2>1
<1> HIDE DEF new, k1
<1>3. /\ b \in ResBlock /\ b \notin DOMAIN k.list
      /\ Len(Tail(k.res)) = Len(k.res) - 1 /\ Len(k.res) \in Nat
  <2>1. k.res \in Seq(ResBlock) /\ DOMAIN k.list \cap Range(k.res) = {}
    BY DEF KernelOK, Placed
  <2> QED
    BY <2>1, TailElements, HeadTailProperties, LenProperties
<1>4. Cardinality(PlainListed(new)) = Cardinality(PlainListed(k.list)) + 1
  <2>1. PlainListed(new) = PlainListed(k.list) \cup {b} /\ b \notin PlainListed(k.list)
    BY <1>1, <1>3 DEF PlainListed
  <2>2. IsFiniteSet(PlainListed(k.list))
    BY ListedFinite DEF KernelOK, ListTyped
  <2> QED
    BY <2>1, <2>2, FS_AddElement
<1>5. Cardinality(PlainListed(k.list)) \in Nat
  BY ListedFinite DEF KernelOK, ListTyped
<1>6. SameStock(k, k1)
  <2>1. QueuesListed(k1) = QueuesListed(k)
    BY <1>1, <1>2, <1>3, BlockFacts DEF QueuesListed
  <2> QED
    BY <2>1, <1>2, <1>3, <1>4, <1>5 DEF SameStock, StockOf
<1> QED
  BY <1>1, <1>2, <1>6 DEF Kept, FreeEmpty, StockOK, SameStock, ById, k1

LEMMA NewQueueKept ==
  ASSUME NEW k, KernelOK(k), FreeEmpty(k), k.res # <<>>, k.mqs # <<>>, NEW i \in Ids
  PROVE  Kept(k, NewQueue(k, i)) /\ QueueTakesOne(k, NewQueue(k, i))
<1> DEFINE b == Head(k.mqs)
           new == Insert(k.list, b, i, DSOS_MQ)
           msgs == [k.msgs EXCEPT ![b] = <<>>]
           k1 == NewQueue(k, i)
<1>1. DOMAIN new = DOMAIN k.list \cup {b}
  BY DEF Insert
<1>2. k1.list = new /\ k1.res = Tail(k.res) /\ k1.mqs = Tail(k.mqs) /\ k1.msgs = msgs
  <2>1. k1 = [list |-> new, mqs |-> Tail(k.mqs), res |-> Tail(k.res), msgs |-> msgs,
              desc |-> k.desc, fds |-> k.fds, last_fd |-> k.last_fd,
              ret |-> k.ret, fault |-> k.fault]
    BY NewQueueIs
  <2> HIDE DEF k1, new, msgs
  <2> QED
    BY <2>1
<1>3. /\ b \in MqBlock /\ b \in Range(k.mqs) /\ b \notin DOMAIN k.list
      /\ Len(Tail(k.mqs)) = Len(k.mqs) - 1 /\ Len(k.mqs) \in Nat
      /\ Range(Tail(k.mqs)) \subseteq Range(k.mqs)
      /\ Len(Tail(k.res)) = Len(k.res) - 1 /\ Len(k.res) \in Nat
  <2>1. /\ k.mqs \in Seq(MqBlock) /\ k.res \in Seq(ResBlock)
        /\ DOMAIN k.list \cap Range(k.mqs) = {}
    BY DEF KernelOK, Placed
  <2> QED
    BY <2>1, TailElements, HeadTailProperties, LenProperties
<1>4. msgs = k.msgs
  BY <1>3 DEF FreeEmpty, KernelOK
<1> HIDE DEF new, msgs, k1
<1>5. PlainListed(new) = PlainListed(k.list)
  BY <1>1, <1>3, BlockFacts DEF PlainListed
<1>6. Cardinality(PlainListed(k.list)) \in Nat
  BY ListedFinite DEF KernelOK, ListTyped
<1>7. StockOf(k1) = StockOf(k) - 1 /\ StockOf(k) \in Nat
  BY <1>3, <1>2, <1>5, <1>6 DEF StockOf
<1>8. FreeEmpty(k1)
  BY <1>3, <1>4, <1>2 DEF FreeEmpty
<1>9. StockOK(k) => StockOK(k1)
  BY <1>3, <1>2, <1>7 DEF StockOK
<1>10. b \in MqBlock \ QueuesListed(k) /\ QueuesListed(k1) = QueuesListed(k) \cup {b}
  BY <1>1, <1>3, <1>2 DEF QueuesListed
<1> QED
  BY <1>4, <1>2, <1>7, <1>8, <1>9, <1>10 DEF Kept, QueueTakesOne, k1

\* A Resource block that is free stands for a free MessageQueue block.
LEMMA QueueBlockLeft ==
  ASSUME NEW k, KernelOK(k), StockOK(k), k.res # <<>>
  PROVE  k.mqs # <<>>
<1>1. Cardinality(PlainListed(k.list)) \in Nat
  BY ListedFinite DEF KernelOK, ListTyped
<1>2. Len(k.res) \in Nat /\ Len(k.res) # 0
  BY LenProperties, EmptySeq DEF KernelOK, Placed
<1> QED
  BY <1>1, <1>2 DEF StockOK, StockOf

LEMMA OpenResourceKept ==
  ASSUME NEW k, KernelOK(k), FreeEmpty(k), running \in Proc, k.last_fd <= MaxFd,
         NEW i \in Ids, NEW type \in {DSOS_MQ, PLAIN}, NEW mode
  PROVE  /\ Kept(k, OpenResource(k, i, type, mode))
         /\ OpenResource(k, i, type, mode).fault \/ SameStock(k, OpenResource(k, i, type, mode))
         /\ k.res # <<>> => /\ OpenResource(k, i, type, mode).fault = k.fault
                            /\ CREATE \in mode =>
                                 ById(OpenResource(k, i, type, mode).list, i) # {}
<1>1. CASE CREATE \notin mode
  BY <1>1, OpenExistingKept, OpenExistingKeeps, SameBlocksStock DEF OpenResource
<1>2. CASE CREATE \in mode /\ ById(k.list, i) # {}
  <2>1. /\ OpenResource(k, i, type, mode) = Fails(k, DSOS_ERESOURCECREATE)
        /\ DSOS_ERESOURCECREATE \in Int
    BY <1>2 DEF OpenResource, DSOS_ERESOURCECREATE
  <2> DEFINE k1 == Fails(k, DSOS_ERESOURCECREATE)
  <2>2. Kept(k, k1) /\ SameBlocks(k, k1) /\ k1.fault = k.fault
    BY <2>1, FailsKept, FailsKeeps
  <2> HIDE DEF k1
  <2>3. ById(k1.list, i) # {} /\ SameStock(k, k1)
    BY <1>2, <2>2, SameBlocksStock DEF SameBlocks, ById
  <2> QED
    BY <2>1, <2>2, <2>3 DEF k1
<1>3. CASE CREATE \in mode /\ ById(k.list, i) = {} /\ k.res = <<>>
  BY <1>3, FailsKept, FaultsKeeps DEF OpenResource
<1>4. CASE CREATE \in mode /\ ById(k.list, i) = {} /\ k.res # <<>>
  <2> DEFINE k1 == NewResource(k, i, type)
             k2 == OpenExisting(k1, i, type, mode)
  <2>1. /\ KernelOK(k1) /\ k1.last_fd = k.last_fd /\ k1.fault = k.fault
        /\ Kept(k, k1) /\ SameStock(k, k1) /\ ById(k1.list, i) # {}
    BY <1>4, NewResourceKeeps, NewResourceKept
  <2> HIDE DEF k1
  <2>2. /\ Kept(k1, k2) /\ SameBlocks(k1, k2) /\ SameStock(k1, k2)
        /\ k2.fault = k1.fault
    BY <2>1, OpenExistingKept, OpenExistingKeeps, SameBlocksStock DEF Kept
  <2>3. ById(k2.list, i) # {}
    BY <2>1, <2>2 DEF SameBlocks, ById
  <2>4. OpenResource(k, i, type, mode) = k2
    BY <1>4 DEF OpenResource, k1
  <2> QED
    BY <2>1, <2>2, <2>3, <2>4, KeptThen, StockThen
<1> QED
  BY <1>1, <1>2, <1>3, <1>4

\* What opening the queue i makes of k: it cannot fault when the id is taken, or
\* when a Resource block is left.
QueueOpened(k, k1, i, mode) ==
  /\ Kept(k, k1)
  /\ mode # {CREATE} \/ ById(k.list, i) # {} => k1.fault = k.fault
  /\ StockOK(k) /\ k.res # <<>> => k1.fault = k.fault
  /\ k1.fault \/ SameStock(k, k1) \/ QueueTakesOne(k, k1)
  /\ ById(k.list, i) # {} \/ mode # {CREATE} => SameStock(k, k1)

LEMMA OpenQueueKept ==
  ASSUME NEW k, KernelOK(k), FreeEmpty(k), running \in Proc, k.last_fd <= MaxFd,
         NEW i \in Ids, NEW type, NEW mode
  PROVE  QueueOpened(k, OpenQueue(k, i, type, mode), i, mode)
<1> USE DEF QueueOpened
<1>1. CASE mode # {CREATE}
  BY <1>1, OpenExistingKept, OpenExistingKeeps, SameBlocksStock DEF OpenQueue
<1>2. CASE mode = {CREATE} /\ ById(k.list, i) # {}
  BY <1>2, FailsKept, FailsKeeps, SameBlocksStock DEF OpenQueue, DSOS_ERESOURCECREATE
<1>3. CASE mode = {CREATE} /\ ById(k.list, i) = {} /\ (k.mqs = <<>> \/ k.res = <<>>)
  <2>1. OpenQueue(k, i, type, mode) = Faults(k)
    BY <1>3 DEF OpenQueue
  <2>2. Kept(k, Faults(k)) /\ Faults(k).fault
    BY FailsKept, FaultsKeeps
  <2>3. ~(StockOK(k) /\ k.res # <<>>)
    BY <1>3, QueueBlockLeft
  <2> QED
    BY <1>3, <2>1, <2>2, <2>3
<1>4. CASE mode = {CREATE} /\ ById(k.list, i) = {} /\ k.mqs # <<>> /\ k.res # <<>>
  <2> DEFINE k1 == NewQueue(k, i)
             k2 == OpenExisting(k1, i, type, mode)
  <2>1. /\ KernelOK(k1) /\ k1.last_fd = k.last_fd /\ k1.fault = k.fault
        /\ Kept(k, k1) /\ QueueTakesOne(k, k1)
    BY <1>4, NewQueueKeeps, NewQueueKept
  <2> HIDE DEF k1
  <2>2. Kept(k1, k2) /\ SameStock(k1, k2) /\ k2.fault = k1.fault
    BY <2>1, OpenExistingKept, OpenExistingKeeps, SameBlocksStock DEF Kept
  <2>3. OpenQueue(k, i, type, mode) = k2
    BY <1>4 DEF OpenQueue, k1
  <2> QED
    BY <1>4, <2>1, <2>2, <2>3, KeptThen, StockThen
<1> QED
  BY <1>1, <1>2, <1>3, <1>4

LEMMA MqOpenKept ==
  ASSUME NEW k, KernelOK(k), FreeEmpty(k), running \in Proc, k.last_fd < MaxFd,
         NEW i \in Ids, NEW type \in {DSOS_MQ, PLAIN}, NEW mode
  PROVE  /\ Kept(k, MqOpen(k, i, type, mode))
         /\ \/ MqOpen(k, i, type, mode).fault
            \/ SameStock(k, MqOpen(k, i, type, mode))
            \/ QueueTakesOne(k, MqOpen(k, i, type, mode))
         /\ StockOK(k) /\ k.res # <<>> => MqOpen(k, i, type, mode).fault = k.fault
<1>1. k.last_fd \in Nat /\ MaxFd \in Nat
  BY MailboxesAssumption DEF KernelOK
<1>2. CASE type = DSOS_MQ
  BY <1>1, <1>2, OpenQueueKept DEF MqOpen, QueueOpened
<1>3. CASE type # DSOS_MQ
  <2> DEFINE k1 == OpenResource(k, i, type, mode)
  <2>1. /\ KernelOK(k1) /\ k1.last_fd \in {k.last_fd, k.last_fd + 1} /\ Kept(k, k1)
        /\ k1.fault \/ SameStock(k, k1)
        /\ k.res # <<>> => /\ k1.fault = k.fault
                           /\ CREATE \in mode => ById(k1.list, i) # {}
    BY <1>1, OpenResourceKeeps, OpenResourceKept
  <2>2. MqOpen(k, i, type, mode) = IF k1.fault THEN k1 ELSE OpenQueue(k1, i, type, mode)
    BY <1>3 DEF MqOpen
  <2> HIDE DEF k1
  <2>3. k1.last_fd <= MaxFd /\ FreeEmpty(k1)
    BY <1>1, <2>1 DEF Kept
  <2> DEFINE k2 == OpenQueue(k1, i, type, mode)
  <2>4. /\ Kept(k1, k2)
        /\ k2.fault \/ SameStock(k1, k2) \/ QueueTakesOne(k1, k2)
        /\ mode # {CREATE} \/ ById(k1.list, i) # {} => k2.fault = k1.fault
    <3>1. KernelOK(k1) /\ FreeEmpty(k1) /\ k1.last_fd <= MaxFd /\ running \in Proc
      BY <2>1, <2>3
    <3>2. QueueOpened(k1, k2, i, mode)
      BY <3>1, OpenQueueKept
    <3> QED
      BY <3>2 DEF QueueOpened
  <2>5. Kept(k, MqOpen(k, i, type, mode))
    BY <2>1, <2>2, <2>4, KeptThen
  <2>6. k.res # <<>> => mode # {CREATE} \/ ById(k1.list, i) # {}
    BY <2>1
  <2>7. k.res # <<>> => MqOpen(k, i, type, mode).fault = k.fault
    BY <2>1, <2>2, <2>4, <2>6
  <2>8. \/ MqOpen(k, i, type, mode).fault
        \/ SameStock(k, MqOpen(k, i, type, mode))
        \/ QueueTakesOne(k, MqOpen(k, i, type, mode))
    BY <2>1, <2>2, <2>4, StockThen
  <2> QED
    BY <2>5, <2>7, <2>8
<1> QED
  BY <1>2, <1>3

-----------------------------------------------------------------------------
(* What a step does to the messages and to the pools *)

FreeHoldNothing == \A q \in Range(mq_allocator) : messages[q] = <<>>

\* There is a MessageQueue block for every Resource block that is, or becomes, free.
StockSuffices == ResourceStock <= Len(mq_allocator)

\* The messages: nothing; one more at the end of a queue; the first of one taken;
\* those of one given back.  Only the last leaves the counter behind.
MessagesStay == UNCHANGED <<messages, num_msg, messages_allocator>>
MessageSent(q, m) ==
  /\ messages_allocator > 0 /\ num_msg[q] # MQ_MAX_MSG_SIZE
  /\ messages' = [messages EXCEPT ![q] = Append(@, m)]
  /\ num_msg' = [num_msg EXCEPT ![q] = @ + 1]
  /\ messages_allocator' = messages_allocator - 1
MessageTaken(q) ==
  /\ messages[q] # <<>>
  /\ messages' = [messages EXCEPT ![q] = Tail(@)]
  /\ num_msg' = [num_msg EXCEPT ![q] = @ - 1]
  /\ messages_allocator' = messages_allocator + 1
MessagesFreed(q) ==
  /\ "undrained" \in Liberties \/ messages[q] = <<>>
  /\ messages' = [messages EXCEPT ![q] = <<>>]
  /\ messages_allocator' = messages_allocator + Len(messages[q])
  /\ UNCHANGED num_msg
MessagesStep ==
  \/ MessagesStay
  \/ \E q \in MqBlock : \/ \E m \in Msgs : MessageSent(q, m)
                        \/ MessageTaken(q)
                        \/ MessagesFreed(q)

\* The Resource blocks.
StockKept == ResourceStock' = ResourceStock
StockLost ==
  /\ ResourceStock' = ResourceStock - 1
  /\ \E q \in MqBlock \ Queues : Queues' = Queues \cup {q}

\* What a fault takes.
MayFault ==
  \/ {"exhaust", "no_sleeper"} \cap Liberties # {}
  \/ ~Counted \/ ~StockSuffices

StocksStep ==
  /\ MessagesStep /\ FreeHoldNothing'
  /\ StockKept \/ StockLost
  /\ StockSuffices => StockSuffices'
  /\ MayFault \/ UNCHANGED system

\* The step concerns no block.
LEMMA NoBlocksStep ==
  ASSUME FreeHoldNothing, UNCHANGED queues, UNCHANGED <<mq_allocator, resource_allocator>>,
         DOMAIN resources_list' = DOMAIN resources_list, MayFault \/ UNCHANGED system
  PROVE  StocksStep
  BY DEF FreeHoldNothing, queues, MessagesStep, MessagesStay, StocksStep, StockKept,
         StockSuffices, ResourceStock, Listed

LEMMA KernelStocks ==
  ASSUME FreeHoldNothing
  PROVE  /\ FreeEmpty(Kernel) /\ StockOf(Kernel) = ResourceStock
         /\ StockSuffices => StockOK(Kernel)
  BY DEF FreeHoldNothing, FreeEmpty, StockOK, StockOf, StockSuffices, ResourceStock,
         PlainListed, Listed, Kernel

LEMMA BecomesStocks ==
  ASSUME FreeHoldNothing, NEW k, Kept(Kernel, k), Becomes(k), k.fault => MayFault,
         k.fault \/ SameStock(Kernel, k) \/ QueueTakesOne(Kernel, k)
  PROVE  StocksStep
<1>1. CASE k.fault
  BY <1>1, NoBlocksStep DEF Becomes, Crash, mailVars, blocks
<1>2. CASE ~k.fault
  <2>1. /\ resources_list' = k.list /\ mq_allocator' = k.mqs
        /\ resource_allocator' = k.res /\ messages' = k.msgs
        /\ UNCHANGED <<num_msg, messages_allocator, system>>
    BY <1>2 DEF Becomes
  <2>2. k.msgs = messages /\ FreeEmpty(k) /\ (StockSuffices => StockOK(k))
    BY KernelStocks DEF Kept, Kernel
  <2>3. MessagesStep /\ FreeHoldNothing'
    BY <2>1, <2>2 DEF MessagesStep, MessagesStay, FreeHoldNothing, FreeEmpty
  <2>4. /\ StockOf(Kernel) = ResourceStock /\ StockOf(k) = ResourceStock'
        /\ QueuesListed(Kernel) = Queues /\ QueuesListed(k) = Queues'
    BY <2>1 DEF StockOf, ResourceStock, PlainListed, QueuesListed, Queues, Listed, Kernel
  <2> QED
    BY <1>2, <2>1, <2>2, <2>3, <2>4
       DEF StocksStep, SameStock, QueueTakesOne, StockKept, StockLost, StockSuffices, StockOK
<1> QED
  BY <1>1, <1>2

LEMMA OpenCallsStocks ==
  ASSUME Inv, FreeHoldNothing, NEW i \in Ids, NEW mode,
         \/ internal_openResource(i, mode)
         \/ \E type \in {DSOS_MQ, PLAIN} : internal_mqOpen(i, type, mode)
  PROVE  StocksStep
<1>1. /\ KernelOK(Kernel) /\ Kernel.last_fd < MaxFd /\ running \in Proc
      /\ FreeEmpty(Kernel) /\ (StockSuffices => StockOK(Kernel)) /\ ~Kernel.fault
      /\ "exhaust" \notin Liberties => Kernel.res # <<>>
  BY KernelIsOK, KernelStocks, InvParts
     DEF internal_openResource, internal_mqOpen, MayOpen, CallersTyped, Kernel
<1>2. Kernel.last_fd \in Nat /\ MaxFd \in Nat
  BY <1>1, MailboxesAssumption DEF KernelOK
<1>3. CASE internal_openResource(i, mode)
  <2> DEFINE k == OpenResource(Kernel, i, PLAIN, mode)
  <2>1. /\ Kept(Kernel, k) /\ (k.fault \/ SameStock(Kernel, k))
        /\ k.fault => MayFault
    BY <1>1, <1>2, OpenResourceKept DEF MayFault
  <2>2. Becomes(k)
    BY <1>3 DEF internal_openResource
  <2> HIDE DEF k
  <2> QED
    BY <2>1, <2>2, BecomesStocks
<1>4. ASSUME NEW type \in {DSOS_MQ, PLAIN}, internal_mqOpen(i, type, mode)
      PROVE  StocksStep
  <2> DEFINE k == MqOpen(Kernel, i, type, mode)
  <2>1. /\ Kept(Kernel, k) /\ (k.fault \/ SameStock(Kernel, k) \/ QueueTakesOne(Kernel, k))
        /\ k.fault => MayFault
    BY <1>1, MqOpenKept DEF MayFault
  <2>2. Becomes(k)
    BY <1>4 DEF internal_mqOpen
  <2> HIDE DEF k
  <2> QED
    BY <2>1, <2>2, BecomesStocks
<1> QED
  BY <1>3, <1>4

LEMMA CloseStocks ==
  ASSUME FreeHoldNothing, NEW fd, internal_closeResource(fd)
  PROVE  StocksStep
<1>1. /\ DOMAIN resources_list' = DOMAIN resources_list /\ UNCHANGED queues
      /\ UNCHANGED <<mq_allocator, resource_allocator>> /\ UNCHANGED system
  BY DEF internal_closeResource, Descriptors_free, Released, mailVars, blocks
<1> QED
  BY <1>1, NoBlocksStep

\* Resource_free gives back what ResourceList had, unless it was a queue's block.
LEMMA PlainDetached ==
  ASSUME NEW list, NEW new, ListTyped(list), NEW b \in DOMAIN list,
         DOMAIN new = DOMAIN list \ {b}, NEW res \in Seq(ResBlock)
  PROVE  Len(IF b \in ResBlock THEN <<b>> \o res ELSE res) + Cardinality(PlainListed(new))
           = Len(res) + Cardinality(PlainListed(list))
<1>1. /\ IsFiniteSet(PlainListed(list)) /\ Cardinality(PlainListed(list)) \in Nat
      /\ Len(res) \in Nat
  BY ListedFinite, LenProperties DEF ListTyped
<1>2. CASE b \in ResBlock
  <2>1. PlainListed(new) = PlainListed(list) \ {b} /\ b \in PlainListed(list)
    BY <1>2 DEF PlainListed
  <2>2. Cardinality(PlainListed(new)) = Cardinality(PlainListed(list)) - 1
    BY <1>1, <2>1, FS_RemoveElement
  <2>3. <<b>> \in Seq(ResBlock) /\ Len(<<b>>) = 1
    BY <1>2
  <2>4. Len(<<b>> \o res) = Len(res) + 1
    BY <1>1, <2>3, ConcatProperties
  <2> QED
    BY <1>1, <1>2, <2>2, <2>4
<1>3. CASE b \notin ResBlock
  <2>1. PlainListed(new) = PlainListed(list)
    BY <1>3 DEF PlainListed
  <2> QED
    BY <1>3, <2>1
<1> QED
  BY <1>2, <1>3

LEMMA DestroyStocks ==
  ASSUME Inv, FreeHoldNothing, NEW i, internal_destroyResource(i)
  PROVE  StocksStep
<1> DEFINE found == ById(resources_list, i)
           b == CHOOSE x \in found : TRUE
<1>1. CASE found = {} \/ InUse(i)
  BY <1>1, NoBlocksStep DEF internal_destroyResource, mailVars, blocks
<1>2. CASE found # {} /\ ~InUse(i)
  <2>1. /\ resources_list' = Detached(i)
        /\ resource_allocator' = IF b \in ResBlock THEN <<b>> \o resource_allocator
                                 ELSE resource_allocator
        /\ UNCHANGED <<mq_allocator, system>> /\ UNCHANGED queues
    BY <1>2 DEF internal_destroyResource
  <2>2. BlocksSound
    BY InvParts
  <2>3. b \in DOMAIN resources_list /\ DOMAIN resources_list' = DOMAIN resources_list \ {b}
    BY <1>2, <2>1, <2>2, DetachKeeps
  <2> HIDE DEF b, found
  <2>4. Len(resource_allocator') + Cardinality(PlainListed(resources_list'))
          = Len(resource_allocator) + Cardinality(PlainListed(resources_list))
    BY <2>1, <2>2, <2>3, PlainDetached DEF BlocksSound, Placed
  <2>5. StockKept
    BY <2>4 DEF StockKept, ResourceStock, PlainListed, Listed
  <2> QED
    BY <2>1, <2>5 DEF StocksStep, StockKept, StockSuffices, MessagesStep, MessagesStay,
                      FreeHoldNothing, queues
<1> QED
  BY <1>1, <1>2

LEMMA UnlinkStocks ==
  ASSUME Inv, FreeHoldNothing, NEW i, internal_mqUnlink(i)
  PROVE  StocksStep
<1> DEFINE found == ById(resources_list, i)
<1>1. CASE found = {} \/ InUse(i)
  BY <1>1, NoBlocksStep DEF internal_mqUnlink, mailVars, blocks
<1>2. CASE found # {} /\ ~InUse(i)
  <2>1. /\ resources_list' = Detached(i) /\ found \subseteq MqBlock
        /\ "undrained" \in Liberties \/ \A b \in found : messages[b] = <<>>
        /\ \A b \in found : MessageQueue_free(b)
        /\ UNCHANGED <<resource_allocator, num_msg, system>>
    BY <1>2 DEF internal_mqUnlink
  <2>2. MessagesTyped /\ BlocksSound
    BY InvParts
  <2>3. PICK b \in DOMAIN resources_list :
              /\ found = {b}
              /\ DOMAIN resources_list' = DOMAIN resources_list \ {b}
    BY <1>2, <2>1, <2>2, DetachKeeps
  <2>4. /\ b \in MqBlock /\ MessagesFreed(b) /\ mq_allocator' = <<b>> \o mq_allocator
    BY <2>1, <2>3 DEF MessageQueue_free, MessagesFreed
  <2> HIDE DEF found
  <2>5. /\ mq_allocator \in Seq(MqBlock) /\ Range(mq_allocator) \subseteq MqBlock
        /\ Len(mq_allocator) \in Nat
    BY <2>2, RangeOfSeq, LenProperties DEF BlocksSound, Placed
  <2>6. Range(mq_allocator') = Range(mq_allocator) \cup {b}
    BY <2>4, <2>5, ConsElements
  <2>7. FreeHoldNothing'
    BY <2>2, <2>4, <2>5, <2>6 DEF FreeHoldNothing, MessagesTyped, MessagesFreed
  <2>8. StockKept
    BY <2>1, <2>3, <2>4, BlockFacts DEF StockKept, ResourceStock, Listed
  <2>9. Len(mq_allocator') = Len(mq_allocator) + 1
    <3>1. <<b>> \in Seq(MqBlock) /\ Len(<<b>>) = 1
      BY <2>4
    <3> QED
      BY <3>1, <2>4, <2>5, ConcatProperties
  <2>10. ResourceStock \in Int
    <3>1. Cardinality(PlainListed(resources_list)) \in Nat /\ Len(resource_allocator) \in Nat
      BY <2>2, ListedFinite, LenProperties DEF BlocksSound, ListTyped, Placed
    <3> QED
      BY <3>1 DEF ResourceStock, PlainListed, Listed
  <2>11. StockSuffices => StockSuffices'
    BY <2>5, <2>8, <2>9, <2>10 DEF StockSuffices, StockKept
  <2> QED
    BY <2>1, <2>4, <2>7, <2>8, <2>11 DEF StocksStep, MessagesStep
<1> QED
  BY <1>1, <1>2

\* An fd leads to a queue that is listed, so a free one gets no message.
LEMMA SendStocks ==
  ASSUME Inv, FreeHoldNothing, NEW fd, NEW m \in Msgs, internal_mqSend(fd, m)
  PROVE  StocksStep
<1> DEFINE q == QueueOf(fd)
<1>1. CASE ByFd(fd) = {}
  BY <1>1, NoBlocksStep DEF internal_mqSend, mailVars, blocks
<1>2. CASE ByFd(fd) # {} /\ messages_allocator = 0
  BY <1>2, NoBlocksStep DEF internal_mqSend, Crash, MayFault, mailVars, blocks
<1>3. CASE ByFd(fd) # {} /\ messages_allocator # 0
  <2>1. Enqueue(q, m) /\ UNCHANGED system /\ UNCHANGED blocks /\ num_msg[q] # MQ_MAX_MSG_SIZE
    BY <1>3 DEF internal_mqSend, BlocksInSend
  <2>2. MessagesTyped /\ BlocksSound
    BY InvParts
  <2>3. q \in MqBlock /\ q \notin Range(mq_allocator)
    BY <1>3, <2>2, QueueOfListed DEF internal_mqSend, BlocksSound, Placed
  <2> HIDE DEF q
  <2>4. messages_allocator > 0
    BY <1>3, <2>2 DEF MessagesTyped
  <2>5. FreeHoldNothing'
    BY <2>1, <2>2, <2>3, RangeOfSeq
       DEF FreeHoldNothing, MessagesTyped, BlocksSound, Placed, blocks, Enqueue
  <2>6. MessagesStep
    BY <2>1, <2>3, <2>4 DEF MessagesStep, MessageSent, Enqueue
  <2> QED
    BY <2>1, <2>5, <2>6 DEF StocksStep, StockKept, StockSuffices, ResourceStock, Listed, blocks
<1> QED
  BY <1>1, <1>2, <1>3

LEMMA ReceiveStocks ==
  ASSUME Inv, FreeHoldNothing, NEW fd, internal_mqReceive(fd)
  PROVE  StocksStep
<1> DEFINE q == QueueOf(fd)
<1>1. CASE ByFd(fd) = {}
  BY <1>1, NoBlocksStep DEF internal_mqReceive, mailVars, blocks
<1>2. CASE ByFd(fd) # {} /\ messages[q] = <<>>
  <2>1. q \in MqBlock /\ num_msg[q] # 0
    BY <1>2, QueueOfListed DEF internal_mqReceive, BlocksInReceive
  <2>2. ~Counted
    BY <1>2, <2>1 DEF Counted
  <2> QED
    BY <1>2, <2>2, NoBlocksStep DEF internal_mqReceive, Crash, MayFault, mailVars, blocks
<1>3. CASE ByFd(fd) # {} /\ messages[q] # <<>>
  <2>1. Dequeue(q) /\ UNCHANGED system /\ UNCHANGED blocks
    BY <1>3 DEF internal_mqReceive
  <2>2. MessagesTyped /\ BlocksSound
    BY InvParts
  <2>3. q \in MqBlock /\ q \notin Range(mq_allocator) /\ messages[q] # <<>>
    BY <1>3, <2>2, QueueOfListed DEF internal_mqReceive, BlocksSound, Placed
  <2> HIDE DEF q
  <2>4. FreeHoldNothing'
    BY <2>1, <2>2, <2>3, RangeOfSeq
       DEF FreeHoldNothing, MessagesTyped, BlocksSound, Placed, blocks, Dequeue
  <2>5. MessagesStep
    BY <2>1, <2>3 DEF MessagesStep, MessageTaken, Dequeue
  <2> QED
    BY <2>1, <2>4, <2>5 DEF StocksStep, StockKept, StockSuffices, ResourceStock, Listed, blocks
<1> QED
  BY <1>1, <1>2, <1>3

LEMMA StepStocks ==
  ASSUME Inv, FreeHoldNothing, [Next]_vars
  PROVE  StocksStep
<1>1. CASE UNCHANGED vars
  BY <1>1, NoBlocksStep DEF vars, mailVars, blocks
<1>2. CASE \E fd \in KnownFds : internal_closeResource(fd)
  BY <1>2, CloseStocks
<1>3. CASE \E awaited \in BOOLEAN : ExitAndRespawn(awaited)
  <2>1. /\ DOMAIN resources_list' = DOMAIN resources_list /\ UNCHANGED queues
        /\ UNCHANGED <<mq_allocator, resource_allocator>> /\ UNCHANGED system
    BY <1>3 DEF ExitAndRespawn, ReleaseAll, Descriptors_free, Released
  <2> QED
    BY <2>1, NoBlocksStep
<1>4. CASE BlockingCall \/ Reschedule
  <2>1. UNCHANGED mailVars /\ (MayFault \/ UNCHANGED system)
    BY <1>4 DEF BlockingCall, Park, Crash, Reschedule, MayFault
  <2> QED
    BY <2>1, NoBlocksStep DEF mailVars, blocks
<1>5. CASE \/ \E i \in Ids, mode \in Modes : internal_openResource(i, mode)
           \/ \E i \in Ids, type \in {DSOS_MQ, PLAIN}, mode \in Modes :
                internal_mqOpen(i, type, mode)
  BY <1>5, OpenCallsStocks
<1>6. CASE \E i \in Ids : internal_destroyResource(i)
  BY <1>6, DestroyStocks
<1>7. CASE \E i \in Ids : internal_mqUnlink(i)
  BY <1>7, UnlinkStocks
<1>8. CASE \E fd \in KnownFds, m \in Msgs : internal_mqSend(fd, m)
  BY <1>8, SendStocks
<1>9. CASE \E fd \in KnownFds : internal_mqReceive(fd)
  BY <1>9, ReceiveStocks
<1> QED
  BY <1>1, <1>2, <1>3, <1>4, <1>5, <1>6, <1>7, <1>8, <1>9 DEF Next, MailCall

-----------------------------------------------------------------------------
(* The invariants *)

\* The items of the queues, when one queue becomes s.
LEMMA ItemsOf ==
  ASSUME messages \in [MqBlock -> Seq(Msgs)], NEW q \in MqBlock, NEW s \in Seq(Msgs),
         messages' = [messages EXCEPT ![q] = s]
  PROVE  QueuedItems' = (QueuedItems \ ({q} \X (1..Len(messages[q])))) \cup ({q} \X (1..Len(s)))
<1>1. /\ messages'[q] = s /\ DOMAIN s = 1..Len(s)
      /\ DOMAIN messages[q] = 1..Len(messages[q])
      /\ \A r \in MqBlock \ {q} : messages'[r] = messages[r]
  BY LenProperties
<1>2. \A x : x \in QueuedItems <=>
              \E r \in MqBlock : \E i \in DOMAIN messages[r] : x = <<r, i>>
  BY DEF QueuedItems
<1>3. \A x : x \in QueuedItems' <=>
              \E r \in MqBlock : \E i \in DOMAIN messages'[r] : x = <<r, i>>
  BY DEF QueuedItems
<1> QED
  BY <1>1, <1>2, <1>3

ItemsCounted == IsFiniteSet(QueuedItems) /\ MessagesConserved

LEMMA NoItems ==
  ASSUME QueuedItems = {}, messages_allocator \in Nat
  PROVE  ItemsCounted <=> messages_allocator = MAX_NUM_MESSAGES
  BY FS_EmptySet, MailboxesAssumption DEF ItemsCounted, MessagesConserved

LEMMA ItemsStep ==
  ASSUME MessagesTyped, ItemsCounted, MessagesStep
  PROVE  ItemsCounted'
<1>1. CASE MessagesStay
  BY <1>1 DEF MessagesStay, ItemsCounted, MessagesConserved, QueuedItems
<1>2. ASSUME NEW q \in MqBlock, NEW m \in Msgs, MessageSent(q, m)
      PROVE  ItemsCounted'
  <2>1. messages' = [messages EXCEPT ![q] = Append(@, m)]
    BY <1>2 DEF MessageSent
  <2> DEFINE n == Len(messages[q])
  <2>2. /\ messages[q] \in Seq(Msgs) /\ n \in Nat
        /\ Append(messages[q], m) \in Seq(Msgs) /\ Len(Append(messages[q], m)) = n + 1
    BY <2>1, AppendProperties, LenProperties DEF MessagesTyped
  <2>3. QueuedItems' = (QueuedItems \ ({q} \X (1..n))) \cup ({q} \X (1..n + 1))
    <3> DEFINE s == Append(messages[q], m)
    <3>1. messages' = [messages EXCEPT ![q] = s]
      BY <2>1
    <3> HIDE DEF s
    <3>2. QueuedItems' = (QueuedItems \ ({q} \X (1..n))) \cup ({q} \X (1..Len(s)))
      BY <3>1, <2>2, ItemsOf DEF MessagesTyped, s
    <3> QED
      BY <3>2, <2>2 DEF s
  <2>4. {q} \X (1..n) \subseteq QueuedItems /\ <<q, n + 1>> \notin QueuedItems
    BY <2>2, LenProperties DEF QueuedItems
  <2>5. QueuedItems' = QueuedItems \cup {<<q, n + 1>>}
    <3>1. 1..n + 1 = (1..n) \cup {n + 1}
      BY <2>2
    <3> QED
      BY <2>3, <2>4, <3>1
  <2> HIDE DEF n
  <2>6. /\ IsFiniteSet(QueuedItems')
        /\ Cardinality(QueuedItems') = Cardinality(QueuedItems) + 1
    BY <2>4, <2>5, FS_AddElement DEF ItemsCounted
  <2>7. Cardinality(QueuedItems) \in Nat
    BY FS_CardinalityType DEF ItemsCounted
  <2> QED
    BY <1>2, <2>6, <2>7 DEF ItemsCounted, MessagesConserved, MessageSent, MessagesTyped
<1>3. ASSUME NEW q \in MqBlock, MessageTaken(q)
      PROVE  ItemsCounted'
  <2>1. messages[q] # <<>> /\ messages' = [messages EXCEPT ![q] = Tail(@)]
    BY <1>3 DEF MessageTaken
  <2> DEFINE n == Len(messages[q])
  <2>2. /\ messages[q] \in Seq(Msgs) /\ n \in Nat \ {0}
        /\ Tail(messages[q]) \in Seq(Msgs) /\ Len(Tail(messages[q])) = n - 1
    BY <2>1, HeadTailProperties, LenProperties, EmptySeq DEF MessagesTyped
  <2>3. QueuedItems' = (QueuedItems \ ({q} \X (1..n))) \cup ({q} \X (1..n - 1))
    <3> DEFINE s == Tail(messages[q])
    <3>1. messages' = [messages EXCEPT ![q] = s]
      BY <2>1
    <3> HIDE DEF s
    <3>2. QueuedItems' = (QueuedItems \ ({q} \X (1..n))) \cup ({q} \X (1..Len(s)))
      BY <3>1, <2>2, ItemsOf DEF MessagesTyped, s
    <3> QED
      BY <3>2, <2>2 DEF s
  <2>4. {q} \X (1..n) \subseteq QueuedItems /\ <<q, n>> \in QueuedItems
    BY <2>2, LenProperties DEF QueuedItems
  <2>5. QueuedItems' = QueuedItems \ {<<q, n>>}
    <3>1. 1..n = (1..n - 1) \cup {n} /\ n \notin 1..n - 1
      BY <2>2
    <3> QED
      BY <2>3, <2>4, <3>1
  <2> HIDE DEF n
  <2>6. /\ IsFiniteSet(QueuedItems')
        /\ Cardinality(QueuedItems') = Cardinality(QueuedItems) - 1
    BY <2>4, <2>5, FS_RemoveElement DEF ItemsCounted
  <2>7. Cardinality(QueuedItems) \in Nat
    BY FS_CardinalityType DEF ItemsCounted
  <2> QED
    BY <1>3, <2>6, <2>7 DEF ItemsCounted, MessagesConserved, MessageTaken, MessagesTyped
<1>4. ASSUME NEW q \in MqBlock, MessagesFreed(q)
      PROVE  ItemsCounted'
  <2>1. /\ messages' = [messages EXCEPT ![q] = <<>>]
        /\ messages_allocator' = messages_allocator + Len(messages[q])
    BY <1>4 DEF MessagesFreed
  <2> DEFINE n == Len(messages[q])
             T == {q} \X (1..n)
  <2>2. messages[q] \in Seq(Msgs) /\ n \in Nat /\ <<>> \in Seq(Msgs) /\ Len(<<>>) = 0
    BY LenProperties DEF MessagesTyped
  <2>3. QueuedItems' = (QueuedItems \ T) \cup ({q} \X (1..0))
    BY <2>1, <2>2, ItemsOf DEF MessagesTyped
  <2>4. T \subseteq QueuedItems
    BY <2>2, LenProperties DEF QueuedItems
  <2>5. IsFiniteSet(T) /\ Cardinality(T) = n
    <3> DEFINE I == 1..n
    <3>1. IsFiniteSet(I) /\ Cardinality(I) = n
      BY <2>2, FS_Interval
    <3>2. IsFiniteSet({q}) /\ Cardinality({q}) = 1
      BY FS_Singleton
    <3> HIDE DEF I
    <3>3. IsFiniteSet({q} \X I) /\ Cardinality({q} \X I) = Cardinality({q}) * Cardinality(I)
      BY <3>1, <3>2, FS_Product
    <3> QED
      BY <2>2, <3>1, <3>2, <3>3 DEF I
  <2> HIDE DEF T
  <2>6. QueuedItems' = QueuedItems \ T /\ QueuedItems \cap T = T
    BY <2>3, <2>4
  <2>7. IsFiniteSet(QueuedItems') /\ Cardinality(QueuedItems') = Cardinality(QueuedItems) - n
    <3>1. /\ IsFiniteSet(QueuedItems \ T)
          /\ Cardinality(QueuedItems \ T)
               = Cardinality(QueuedItems) - Cardinality(QueuedItems \cap T)
      BY FS_Difference DEF ItemsCounted
    <3> QED
      BY <3>1, <2>5, <2>6
  <2>8. Cardinality(QueuedItems) \in Nat
    BY FS_CardinalityType DEF ItemsCounted
  <2> QED
    BY <2>1, <2>2, <2>7, <2>8 DEF ItemsCounted, MessagesConserved, MessagesTyped
<1> QED
  BY <1>1, <1>2, <1>3, <1>4 DEF MessagesStep

\* The counters are never below the lengths, and equal to them as long as queues
\* are drained before they are freed.
CountersBound == \A q \in MqBlock : Len(messages[q]) <= num_msg[q] /\ num_msg[q] <= MQ_MAX_MSG_SIZE

LEMMA CountersStep ==
  ASSUME MessagesTyped, MessagesStep
  PROVE  /\ CountersBound => CountersBound'
         /\ "undrained" \notin Liberties /\ Counted => Counted'
<1>1. CASE MessagesStay
  BY <1>1 DEF MessagesStay, CountersBound, Counted
<1>2. ASSUME NEW q \in MqBlock, NEW s \in Seq(Msgs), NEW c \in Int,
             messages' = [messages EXCEPT ![q] = s], num_msg' = [num_msg EXCEPT ![q] = c],
             /\ CountersBound => Len(s) <= c /\ c <= MQ_MAX_MSG_SIZE
             /\ "undrained" \notin Liberties /\ Counted => Len(s) = c /\ c <= MQ_MAX_MSG_SIZE
      PROVE  /\ CountersBound => CountersBound'
             /\ "undrained" \notin Liberties /\ Counted => Counted'
  <2>1. /\ messages'[q] = s /\ num_msg'[q] = c
        /\ \A r \in MqBlock \ {q} : messages'[r] = messages[r] /\ num_msg'[r] = num_msg[r]
    BY <1>2 DEF MessagesTyped
  <2> QED
    BY <1>2, <2>1 DEF CountersBound, Counted
<1>3. ASSUME NEW q \in MqBlock
      PROVE  messages[q] \in Seq(Msgs) /\ Len(messages[q]) \in Nat /\ num_msg[q] \in Int
             /\ MQ_MAX_MSG_SIZE \in Nat
  BY <1>3, LenProperties, MailboxesAssumption DEF MessagesTyped
<1>4. ASSUME NEW q \in MqBlock, NEW m \in Msgs, MessageSent(q, m)
      PROVE  /\ CountersBound => CountersBound'
             /\ "undrained" \notin Liberties /\ Counted => Counted'
  <2> DEFINE s == Append(messages[q], m)
  <2>1. s \in Seq(Msgs) /\ Len(s) = Len(messages[q]) + 1
    BY <1>3, AppendProperties
  <2>2. /\ messages' = [messages EXCEPT ![q] = s]
        /\ num_msg' = [num_msg EXCEPT ![q] = num_msg[q] + 1]
        /\ num_msg[q] # MQ_MAX_MSG_SIZE
    BY <1>4 DEF MessageSent
  <2> HIDE DEF s
  <2>3. /\ CountersBound => Len(s) <= num_msg[q] + 1 /\ num_msg[q] + 1 <= MQ_MAX_MSG_SIZE
        /\ Counted => Len(s) = num_msg[q] + 1 /\ num_msg[q] + 1 <= MQ_MAX_MSG_SIZE
        /\ num_msg[q] + 1 \in Int
    BY <1>3, <2>1, <2>2 DEF CountersBound, Counted
  <2> QED
    BY <1>2, <2>1, <2>2, <2>3
<1>5. ASSUME NEW q \in MqBlock, MessageTaken(q)
      PROVE  /\ CountersBound => CountersBound'
             /\ "undrained" \notin Liberties /\ Counted => Counted'
  <2> DEFINE s == Tail(messages[q])
  <2>1. s \in Seq(Msgs) /\ Len(s) = Len(messages[q]) - 1
    BY <1>3, <1>5, HeadTailProperties DEF MessageTaken
  <2>2. /\ messages' = [messages EXCEPT ![q] = s]
        /\ num_msg' = [num_msg EXCEPT ![q] = num_msg[q] - 1]
    BY <1>5 DEF MessageTaken
  <2> HIDE DEF s
  <2>3. /\ CountersBound => Len(s) <= num_msg[q] - 1 /\ num_msg[q] - 1 <= MQ_MAX_MSG_SIZE
        /\ Counted => Len(s) = num_msg[q] - 1 /\ num_msg[q] - 1 <= MQ_MAX_MSG_SIZE
        /\ num_msg[q] - 1 \in Int
    BY <1>3, <2>1 DEF CountersBound, Counted
  <2> QED
    BY <1>2, <2>1, <2>2, <2>3
<1>6. ASSUME NEW q \in MqBlock, MessagesFreed(q)
      PROVE  /\ CountersBound => CountersBound'
             /\ "undrained" \notin Liberties /\ Counted => Counted'
  <2>1. /\ <<>> \in Seq(Msgs) /\ Len(<<>>) = 0
        /\ messages' = [messages EXCEPT ![q] = <<>>]
        /\ num_msg' = [num_msg EXCEPT ![q] = num_msg[q]]
        /\ "undrained" \notin Liberties => messages[q] = <<>>
    BY <1>6 DEF MessagesFreed, MessagesTyped
  <2>2. /\ CountersBound => 0 <= num_msg[q] /\ num_msg[q] <= MQ_MAX_MSG_SIZE
        /\ "undrained" \notin Liberties /\ Counted
             => 0 = num_msg[q] /\ num_msg[q] <= MQ_MAX_MSG_SIZE
    BY <1>3, <2>1 DEF CountersBound, Counted
  <2> QED
    BY <1>2, <1>3, <2>1, <2>2
<1> QED
  BY <1>1, <1>4, <1>5, <1>6 DEF MessagesStep

StocksInv == FreeHoldNothing /\ ItemsCounted /\ StockSuffices /\ CountersBound

LEMMA InitStocks == Init => StocksInv /\ Counted
<1> SUFFICES ASSUME Init PROVE StocksInv /\ Counted
  OBVIOUS
<1>1. Counted /\ CountersBound
  BY MailboxesAssumption DEF Init, Counted, CountersBound
<1>2. /\ Range(mq_allocator) \subseteq MqBlock
      /\ Len(resource_allocator) = MAX_NUM_RESOURCES /\ Len(mq_allocator) = MAX_NUM_RESOURCES
  BY MailboxesAssumption DEF Init, MqBlock, Range
<1>3. Listed \cap ResBlock = {} /\ QueuedItems = {}
  BY DEF Init, Listed, QueuedItems
<1>4. FreeHoldNothing
  BY <1>2 DEF Init, FreeHoldNothing
<1>5. StockSuffices
  <2>1. Cardinality(Listed \cap ResBlock) = 0
    BY <1>3, FS_EmptySet
  <2> QED
    BY <1>2, <2>1, MailboxesAssumption DEF StockSuffices, ResourceStock
<1>6. ItemsCounted
  BY <1>3, NoItems, MailboxesAssumption DEF Init
<1> QED
  BY <1>1, <1>4, <1>5, <1>6 DEF StocksInv

LEMMA StocksHold == Spec => []StocksInv
<1>1. Inv /\ StocksInv /\ [Next]_vars => StocksInv'
  BY StepStocks, ItemsStep, CountersStep, InvParts DEF StocksInv, StocksStep
<1> QED
  BY <1>1, InitStocks, InvHolds, PTL DEF Spec

LEMMA CountedHolds ==
  ASSUME "undrained" \notin Liberties
  PROVE  Spec => []Counted
<1>1. Inv /\ StocksInv /\ Counted /\ [Next]_vars => Counted'
  BY StepStocks, CountersStep, InvParts DEF StocksInv, StocksStep
<1> QED
  BY <1>1, InitStocks, StocksHold, InvHolds, PTL DEF Spec

-----------------------------------------------------------------------------

\* If nobody unlinks a queue that still holds messages, the counter by which
\* send and receive decide whether to block is the length of the queue, even
\* after other pools have run out and blocks were reused.
THEOREM CountersCorrect ==
  ASSUME "undrained" \notin Liberties
  PROVE  Spec => []CounterIsLength
<1>1. Counted => CounterIsLength
  BY DEF Counted, CounterIsLength, Queues
<1> QED
  BY <1>1, CountedHolds, PTL

\* Callers that drain their queues, leave the pools something and block only
\* when another process is ready make no call follow a null pointer.
THEOREM FaultsExcluded ==
  ASSUME {"undrained", "exhaust", "no_sleeper"} \cap Liberties = {}
  PROVE  Spec => []NeverFaults
<1>1. Inv /\ StocksInv /\ Counted /\ NeverFaults /\ [Next]_vars => NeverFaults'
  BY StepStocks DEF StocksInv, StocksStep, MayFault, NeverFaults
<1>2. Init => NeverFaults
  BY DEF Init, NeverFaults
<1>3. Spec => []Counted
  BY CountedHolds
<1> QED
  BY <1>1, <1>2, <1>3, StocksHold, InvHolds, PTL DEF Spec

\* No Message block is lost or counted twice, whatever the callers do: not in the
\* unlink of a queue that holds messages, nor in the reuse of a queue's block.
THEOREM MessagesCorrect == Spec => []MessagesConserved
<1>1. StocksInv => MessagesConserved
  BY DEF StocksInv, ItemsCounted
<1> QED
  BY <1>1, StocksHold, PTL

\* Each queue that is created costs a Resource block, and nothing else does,
\* whatever the callers do: failed calls, and queues destroyed as resources,
\* leave as many as there were.
THEOREM ResourcesCorrect == Spec => OnlyNewQueueLosesResource
<1>1. Inv /\ StocksInv /\ [Next]_vars
        => [\/ ResourceStock' = ResourceStock
            \/ /\ ResourceStock' = ResourceStock - 1
               /\ \E q \in MqBlock \ Queues : Queues' = Queues \cup {q}]_vars
  BY StepStocks DEF StocksInv, StocksStep, StockKept, StockLost
<1> QED
  BY <1>1, StocksHold, InvHolds, PTL DEF Spec, OnlyNewQueueLosesResource

=============================================================================
