# A verification project for the message queues of disastrOS

`src/disastrOS_MessageQueues` is a teaching operating system that runs as one
Unix process: its "processes" are `ucontext` coroutines, its system calls swap to
a trap context, and `SIGALRM` every 100 ms is the timer interrupt. On top of
processes, timers and resources it offers message queues. This directory holds
TLA+ modules that model that system, the instances of them that TLC checks, and
theorems that TLAPS checks. File and line numbers below are relative to
`src/disastrOS_MessageQueues`.

## 1. Inventory

| Component | State | Operations | Correct when |
|---|---|---|---|
| Process table and life cycle (`disastrOS_pcb`, `_spawn`, `_wait`, `_exit`, `_fork`) | PCB blocks with `pid`, `status`, `parent`, `children`, `syscall_num`, `syscall_args`, `syscall_retvalue`; the PCB and PCBPtr pools; `last_pid`, `init_pcb` | `internal_spawn`, `internal_wait`, `internal_exit`, `internal_fork` | a PCB is in one list and its status says which; each child has one guardian; a wait returns what it was asked, is never lost, and a PCB is freed once |
| Scheduler and timers (`_schedule`, `_preempt`, `_sleep`, `_timer`) | `running`, `ready_list`, `waiting_list`, `zombie_list`, `timer_list`, `disastrOS_time` | `internal_schedule`, `internal_preempt`, `internal_sleep`, `TimerList_add`, `TimerList_current` | one timer per sleeper, in time order; sleepers wake and ready processes run |
| Kernel entry, start-up and shutdown (`disastrOS.c`, `_shutdown`) | the four contexts, the syscall vectors, `shutdown_now` | `disastrOS_syscall`, `disastrOS_trap`, `timerHandler`, `timerInterrupt`, `disastrOS_start` | a call is atomic with respect to the timer; nothing faults |
| Message queues (`_message_queue`, `_mq_open`, `_mq_close`, `_mq_unlink`, `_mq_send`, `_mq_receive`) | `MessageQueue` blocks (`messages`, `num_msg`), the MessageQueue and Message pools | the five calls | a queue is a bounded FIFO; the counter is the length; messages are conserved; a call that fails does nothing |
| Resources and descriptors (`_resource`, `_descriptor`, `_open_resource`, `_close_resource`, `_destroy_resource`) | `resources_list`, the Resource and Descriptor pools, each process' `descriptors` and `last_fd` | the three calls, the release on exit | no descriptor dangles; an id names one resource; an fd one descriptor |
| Pool allocator (`pool_allocator.c`) | `free_list`, `first_idx`, `size` | `getBlock`, `releaseBlock` | a block is handed out once and never lost; a foreign or free block is refused |
| Linked list (`linked_list.c`) | `first`, `last`, `size`, the items' `prev` and `next` | `List_insert`, `List_detach`, `List_find` | the links are those of a sequence, in both directions |
| Test programs (`disastrOS_test`, `disastrOS_test_blocking`) | how far init and each child are in their programs, what they have read | the calls they make, in order | both come to their shutdown in every interleaving with the timer; the stress test delivers every message in order without an error, the blocking test never reorders or repeats one |

**How they interact.** A process leaves a call's number and arguments in its own
PCB and traps; the handler works on the global lists through `running` and
writes the result in a PCB, usually the caller's. A handler that blocks moves
`running` itself to another process. The lists are intrusive (the links are in
the items), so moving an item between lists relies on it being in exactly one.
Every object lives in a fixed pool, and what a block held before is still there
when it is handed out again, except for the fields an `_alloc` function sets.
`internal_exit` ties the parts together: it walks the family, the timers and the
descriptors of the process that dies.

**What is hard here.** The timer may preempt between any two calls; a parent may
block before or after its child exits; pointers to PCBs survive the PCB
(`parent`, `Descriptor.pcb`, the caller of a blocked send); several timers elapse
in one tick; pools run out; blocks are reused with old contents; several steps
of a call have no undo. Nothing is persistent and there is one CPU, so there are
no crash recoveries, lost messages or data races in this code. `PROJECT.json`
lists each hazard at its line with the properties that cover it.

## 2. Modules

| Module | Models | Depends on |
|---|---|---|
| `Processes` | process table, scheduler, timers, kernel entry | |
| `MCProcesses` | TLC instances of it; claims of comments that do not hold | `Processes` |
| `Mailboxes` | message queues, resources, descriptors and their pools | `MessageQueues` (as its abstract specification) |
| `MessageQueues` | what the calls on queues and resources promise their callers: effects and results | |
| `MCMailboxes` | TLC instances; claims that do not hold | `Mailboxes` |
| `DisastrOS` | both on one CPU: blocking calls, exits and new processes with queues open | `Processes`, `Mailboxes` (as `Mail`) |
| `MCDisastrOS` | TLC instances; claims that do not hold | `DisastrOS` |
| `TestPrograms` | the two test programs executing on `DisastrOS` | `DisastrOS` |
| `MCTestPrograms` | TLC instances; a claim that does not hold | `TestPrograms` |
| `PoolAllocator` | `pool_allocator.c`: the array of indices | |
| `LinkedList` | `linked_list.c`: the pointers in the items | |
| `Storage` | blocks of a pool as items of lists, under the discipline of the kernel | `PoolAllocator`, `LinkedList` (as `L`), `ListStore` (as its abstract specification) |
| `ListStore` | what all other modules take pools and lists for | |
| `MCStorage` | the TLC instance of `Storage` | `Storage` |
| `SequenceLemmas` | lemmas about sequences that the proofs need | |
| `ProcessesProofs`, `FamiliesProofs` | `Processes`: lists, timers, parents and children, proved | `Processes`, `SequenceLemmas` |
| `MailboxesProofs`, `PromiseProofs` | `Mailboxes`: descriptors, counters and pools, that it implements `MessageQueues`, and what failed calls do, proved | `Mailboxes`, `SequenceLemmas` |
| `DisastrOSProofs` | `DisastrOS`: both parts' invariants with all the calls on one CPU, proved | `DisastrOS`, `FamiliesProofs`, `MailboxesProofs` (as `MP`) |
| `TestProgramsProofs` | `TestPrograms`: what the two programs rely on, proved | `TestPrograms`, `DisastrOSProofs` |
| `StorageProofs` | the pool and the lists of `Storage`, and that they implement `ListStore`, proved | `Storage`, `SequenceLemmas` |

### Processes

One variable per global list or PCB field. A PCB is named by its block, because
the code keeps addresses and follows them after the block was reused; the fields
of a free block keep their contents. One action per handler, each a whole call:
a trap runs with `SIGALRM` masked (`disastrOS.c:225`), so a call is atomic.
`timerInterrupt` is the tick and the scheduling pass. `RestartFromMain` is what
happens when a trap finds no process to run: `uc_link` resumes `main_context`,
and the end of `disastrOS_start` runs again (`disastrOS.c:213-262`).

| TLA+ | code |
|---|---|
| `running`, `ready_list`, `waiting_list`, `zombie_list` | the globals; the last two as sets, since the code only adds to them and detaches a given item |
| `timer_list`, items `[pcb, left]` | `TimerItem`, with `awakening_time` relative to `disastrOS_time` |
| `children` | the PCBPtr list, as PCBs |
| `pcb_allocator`, `pcb_ptr_allocator` | the pools: a stack of blocks (which one comes next matters, its contents do), a count |
| `contexts` | the blocks whose `cpu_state` was ever prepared or saved |
| `system` | `"hung"` and `"crashed"` stand for an endless loop and a null dereference |

`internal_fork` is `internal_spawn` without the context: the child gets the CPU
like any other process and resumes what the last owner of its block left, as
user code if there was one, and through null pointers if there was none
(`ResumeWithoutContext`).

`Liberties` names what the programs of the repository do not do and the calls do
not forbid: block with nobody ready, leave orphans, wait for strangers, let init
exit, spawn with an empty pool, fork. Every run says which ones it grants. Left
out: exit values, signals (set and never read) and stacks.

### Mailboxes

The blocks in `resources_list` are the domain of a function to their `id`,
`type` and users; `messages` and `num_msg` belong to the queue *block*, since
`num_msg` survives its reuse. `desc` holds the allocated descriptors, and
`descriptors[p]` the ones in the list of `p`. Opening is a function from one
kernel state to the next (`Kernel`, `OpenResource`, `OpenQueue`, `MqOpen`)
because `mq_open` of a plain resource runs the whole of `open` and then its own
code on the result. Who runs is left open: `running` may change to any process
between calls, a call that blocks passes the CPU to any other (and, as in the
code, writes its result *there*, `disastrOS_mq_send.c:70`), and a process may
exit, with its descriptors released when its parent waits for it and forgotten
otherwise.

`MessageQueues` is the promise: named FIFO queues of bounded length, plain
resources, open handles, and for each process the result and the second argument
its last call left in its PCB. One action per call and outcome. A result of 0 or
more comes with the one effect that earns it, and an error with none: a receive
that answers 0 gives its caller the first message of the queue *and removes it*, a
send that answers 0 has appended its message, a removed name is one nobody has
open. A call that blocks does so only on a full or an empty queue, changes
neither, and tells its outcome to another process. `Promise` in `Mailboxes` is
the mapping: queues, plain resources and handles from `resources_list`, `messages`
and the descriptors, results and arguments from the PCBs.

The message is looked for where the tests look for it after a receive, in
`running->syscall_args[1]` (`disastrOS_test.c:49`). `README.md:12` of the
repository has it written to a buffer of the caller's, which the code never
touches, so the promise is not about that buffer. Nor does it see which fd a call
names: it says that the caller has *some* fd of the resource, and that the effect
is on that resource. A call that leaves all of this as it was, such as an error
repeated, is a stutter.

### DisastrOS

`Processes` extended by an instance `Mail` of `Mailboxes` whose processes are the
PCBs: `running`, `retvalue` and `system` are the same variables, so that each
action of the composition is a conjunction of one of `Processes` and one of
`Mailboxes`. The actions have the names of the calls: `spawn`, `wait`, `exit`,
`mq_open`, `mq_close`, `mq_unlink`, `mq_send`, `mq_receive`, and `sleep` and
`shutdown`, which `TestPrograms` uses. What is new is what the code does across
the two. `Block` is a send or a receive that blocks: the caller goes to the
waiting and timer lists (`ParkCaller`) and the result to `running'`, the next
process. `exit` releases descriptors only in the branch that frees the PCB;
`spawn` gives a reused PCB an empty descriptor list (`FreshPcb`). `SysSpec` is a
program of communicating processes: any of these calls but the last two, by any
process but the sleeper, with the timer between any two.

### TestPrograms

`disastrOS_test_blocking.c` (one child, one queue that overflows) and
`disastrOS_test.c` (several queues filled by init, one child to read each). A
program is the sequence of calls its loops amount to (`InitOfBlocking`,
`ChildOfBlocking`, `InitOfStress`, `ChildOfStress`); the initial state chooses
which of the two runs. A process has a program counter, its variable `fd`, and
what it has read. `NextInstr` is the one branch: the wait loop ends at an error.

A call takes two steps here. In `Trap` the handler runs, with the alarm masked.
In `Return` the caller is back in `disastrOS_syscall`, with the alarm enabled, and
reads `running->syscall_retvalue` (`disastrOS.c:101`); the timer may strike in
between and other processes may run. A process blocked in a call is also between
the two. `answer` remembers what the handler stored for it, so that the
properties can tell when something else is there by the time it is read.

### Storage

`PoolAllocator` is the array of indices behind the blocks, with addresses as byte
offsets, so that releases of other pools' addresses and of addresses inside a
block can be told apart. `LinkedList` is the pointer code. `Storage` combines
them as the kernel does: blocks are taken without clearing their links (as
`Message_alloc` does), inserted anywhere in a list, detached, released, and also
released when they should not be. The callers' discipline is in the guards and is
what `EachProcessInOnePlace` and `EachBlockInOnePlace` show of the callers: they
insert what is in no list, detach what the list holds, release what is in none.
`StoreIsStackAndSequences` is the refinement of `ListStore`: free blocks are a
stack, and lists are sequences in which a block occurs once. That is the ground
on which `Processes` and `Mailboxes` use `Head`, `Tail` and `Append` for them.

## 3. Runs

Runs of `Processes`, `Mailboxes` and `TestPrograms` check deadlock off, because
the machine stops for good at shutdown and after a fault; that it does not stop
otherwise is `NeverFaults`, `Terminates` and the other liveness properties.
`disastros` and `storage` cannot stop and check deadlock too.

| Run | Question | Result |
|---|---|---|
| `processes_any` | do lists, timers, pools and families stay consistent whatever the processes do, up to a fault? | yes: `TypeOK`, `EachProcessInOnePlace`, `StatusMatchesPlace`, `TimersMatchSleepers`, `OneGuardianEach`; and `OnlyAwaitedExitLosesPointer`: a PCBPtr is lost by one path only |
| `processes_discipline` | do disciplined processes ever meet a fault, lose a wake-up, get a wrong answer from wait, or never run again? | no: `ParentPointersLive`, `NeverFaults`, `NoLostWakeup`, `WaitReturnsAskedChild`, `ReapedIsReported`, `ReadyRuns`, `SleeperWakes` |
| `mailboxes_any` | are blocks, ids, descriptors and messages accounted for whatever the callers do? | yes: `TypeOK`, `EachBlockInOnePlace`, `DescriptorsAgree`, `MessagesConserved`; `OnlyNewQueueLosesResource`: a Resource block is lost by one path only; and `FailedCallOnlyAdds`: a call that reports an error, with pools exhausted or of a plain resource too, takes nothing from anybody |
| `mailboxes_discipline` | do disciplined callers get bounded FIFO queues, without faults, wrong counters or half-done calls? | yes: `CounterIsLength`, `NeverFaults`, `FailedCallChangesNothing`, and the refinement `QueuesKeepPromise`, results and received messages included |
| `disastros` | do processes that share a queue, block in it, exit and are replaced keep lists, timers, wake-ups, descriptors and counters consistent? | yes: `EachProcessInOnePlace`, `StatusMatchesPlace`, `TimersMatchSleepers`, `NoLostWakeup`, `NeverFaults`, `OpenQueuesExist`, `CountersAreLengths`, `ExitReleasesAll` |
| `test_programs` | do the test programs do what they were written to show, wherever the timer strikes? | yes: `StressDeliversAll`, `DeliveredInOrder`, `ForeignResultsAreErrors`, `CleanEnd`, `Terminates` |
| `storage` | are the array and pointer code the stacks and sequences that the other modules use? | yes: `FreeListIsChain`, `ListsScanBothWays`, `UnlistedIsUnlinked`, `StoreIsStackAndSequences` |

The other runs each show a claim of the code's own text failing:

| Run | Claim | What happens |
|---|---|---|
| `orphan_wait` | `disastrOS_exit.c:13`: the parent is awakened | orphans are moved to init's list and keep their old `parent`, so their exit never wakes init |
| `stale_counter` | `disastrOS_mq_receive.c:70`: `assert(msg_read)` | a reused queue block keeps `num_msg` |
| `blocked_call` | `README.md`: mq_send and mq_receive return 0 if successful, <0 if not | a call that blocked returns an older result; its own goes to the process that runs next |
| `ended_user` | `disastrOS_exit.c:74`: all resources of a process are released upon termination | not those of a process that ends before its parent waits, neither then nor when it is reaped |
| `lost_result` | `README.md`: mq_send returns 0 if successful | a sender preempted before it has read its result finds there the error of a receive that blocked meanwhile, though its message is in the queue |

Further disagreements of the same kind were met. Three have a configuration that
shows them, to be run by hand:

- `stranger_wait.cfg` (`NoWaitForStranger`). `disastrOS_wait.c:33` says that a pid
  outside the child list is an error; the scan ends on the last child, and the
  caller blocks.
- `pointer_leak.cfg` (`SpawnFindsPointer`). `disastrOS_spawn.c:28` asserts that
  there is a PCBPtr; an exit to a waiting parent never frees the one it takes off.
- `resource_leak.cfg` (`CreateReportsFailure`). `disastrOS_mq_open.c:31` checks for a
  failed creation; each queue costs a Resource block for ever, and the creation
  without one dereferences null first.

The others need no more than an added liberty. `mq_open` for a plain resource goes
on after it has opened it, and returns `DSOS_ERESOURCECREATE` although the resource
is open (`disastrOS_mq_open.c:20`). With `"exhaust"`, `mq_open` creates the queue and
returns `DSOS_ERESOURCENOFD` when no descriptor is free (`disastrOS_mq_open.c:43`),
which breaks `FailedCallChangesNothing`. `FailedCallOnlyAdds`, checked with both
liberties, bounds what is left behind: a queue nobody has open, or a plain
resource and a descriptor of the caller's for it. With `"no_sleeper"`, `Processes` reaches
`RestartFromMain`, a second init, though `disastrOS.c:213` says of `main_context`
"we will come back here on shutdown". And in `TestPrograms` the blocking test does
not deliver everything: a send that blocked is not retried
(`disastrOS_test_blocking.c:111`), so its message is never sent.

**Bounds and why they are enough.**

- `processes_any` has 3 PCBs and 4 pids: init, a child and a grandchild make
  orphans and inherited children, the fourth pid reuses a block, and the pool
  runs out. Sleeps of 0 and 2 ticks give elapsed, pending and out-of-order
  timers. `processes_discipline` has 4 PCBs, because the sleeper takes one, and a
  parent with two children needs three more. Beyond that more processes only
  repeat roles (init, parent, child, sleeper).
- `mailboxes_*` has two processes, two queue blocks and two descriptors, so that a
  block is reused, two users share a queue, and the pools of blocks and
  descriptors can run out. `mailboxes_any` has one Message block for two queues of
  capacity 1, so that this pool too runs out, under a queue that is not full;
  `mailboxes_discipline` has capacity 2 and two message values, to tell orders
  apart. `MaxFd` stops processes from opening for ever. Process and queue names are
  interchangeable in `mailboxes_any`, which uses symmetry and no liveness.
- `disastros` has 3 PCBs for 5 processes, so that PCBs are reused twice: the
  sleeper keeps one, and init and its current child both use the queue, so that
  both can be blocked at once. One queue name with two queue blocks lets the queue
  be unlinked and created again; capacity 1 makes every second send block; a
  blocked call sleeps 2 ticks, so that calls and exits fall before, at and after
  its wake-up.
- `test_programs` scales the constants of the tests and keeps their relations: the
  capacity is 2 for 10 and the blocking test sends 5 messages for 13, still 3 more
  than fit; the stress test has 4 queues, 2 children and 2 messages each for 7, 5
  and 5, so that some queues still have no reader; a child naps 1 tick for 4. A
  blocked call sleeps 2 ticks for 30. Both are even, and that matters: with init,
  the sleeper and a child taking turns one tick each, the parity decides who runs
  when the call wakes. The blocking test has 3 processes and the stress test 4,
  and no PCB is used twice, as in the code.
- `storage` has 5 blocks and two lists, so that an item can be first, last, in the
  middle or alone, next to another list, with blocks free and taken left over;
  the released addresses are those of all blocks, one below and one above the
  buffer, and one inside a block.

Bounds on pids and fds are guards, so that they restrict behaviours and never
fake results.

**Fairness.** `processes_discipline` assumes `WF_vars(timerInterrupt)` only:
`setitimer` re-arms itself (`disastrOS.c:78-82`) and no user code masks `SIGALRM`.
Nothing is assumed of the processes, which may compute for ever. `Terminates`
needs more, for a program must be executed to end: `SF` of each process' step. A
process that has the CPU again and again executes its code then, because a time
slice is 100 ms and a call takes microseconds; weak fairness would not say so,
since the step is disabled whenever another process runs.

## 4. Proofs

Theorems hold for every value of the constants: every size of the pools, every
bound, and every set of liberties unless one is named. They assume the assumptions
on constants that the modules declare and nothing else: sizes are positive, names
differ from the null values, liberties are among those that exist
(`ProcessesAssumption`, `MailboxesAssumption`, `DisastrOSAssumption` and the like).

**Processes.**

- `ProcessesProofs!TypeCorrect`, `Spec => []TypeOK`. `TypeOK` is inductive. What
  makes it more than bookkeeping is that every list operation must be shown to
  yield PCBs: the sorted insertion (`TimerList_addType`), the scans that stop at
  an index (`ElapsedTimersRange`, `AwaitedChildIsChild`), and the wake-up pass
  (`ScheduleType`).
- `ProcessesProofs!PlacementCorrect`, `Spec => []EachProcessInOnePlace`, and
  `ProcessesProofs!StatusCorrect`, `Spec => []StatusMatchesPlace`. Neither property
  is inductive, and one cannot be had without the other. The code does not look
  where an item is before it moves it; it trusts other state, and `Inv` says that
  this trust is justified. `internal_exit` takes a parent off the waiting list
  because of the parent's status and last call, through a pointer that may lead to
  a free block: `FreeStatus` says that a free block never looks like a waiting one.
  `internal_wait` frees a zombie it finds among the caller's children:
  `ChildrenSound` says that children are allocated and in one children list, once.
  `internal_schedule` takes off the waiting list whoever a timer names:
  `TimersSound` says that timers name blocked processes, once each, and none that
  waits for a child, which `internal_exit` could wake a second time. The proof has
  one lemma per action (`NewProcessKeeps` to `RestartKeeps`); the scheduling pass, which
  `internal_preempt` and `timerInterrupt` share, is `ScheduleKeeps`.
- `ProcessesProofs!TimersCorrect`, `Spec => []TimersMatchSleepers`. `TimersSound` is one
  direction; `Covered` is the other, that whoever is blocked in anything but a wait
  has a timer. The pass of `internal_schedule` looks at the head of the timer list
  only, so that none that elapsed stays behind needs the order (`Ordered`) and that
  none had elapsed before the tick (`Pending`). `InsertionOrdered` is the lemma
  about the sorted insertion.
- `FamiliesProofs` has seven theorems about parents and children. `StepShape` reads
  every handler once and says which kind of step it is (`Stopped`, `Spawned`,
  `Zombied`, `Reaped`, ...) and what that kind does block by block; the rest argues
  about the kinds. Each theorem excludes the liberties it must, and no other:

  | Theorem | Property | Not granted | Because otherwise |
  |---|---|---|---|
  | `GuardiansCorrect` | `OneGuardianEach` | none | |
  | `PointersCorrect` | `OnlyAwaitedExitLosesPointer` | none | |
  | `WaitCorrect` | `WaitReturnsAskedChild` | `"stranger"` | a wait for a pid that is not a child's blocks, and a later child of that pid would answer it |
  | `ParentsCorrect` | `ParentPointersLive` | `"orphan"`, `"no_sleeper"` | an orphan's `parent` leads to a block that is freed and reused; a second init has no parent either |
  | `WakeupCorrect` | `NoLostWakeup` | `"orphan"`, `"stranger"` | the exit of an orphan does not wake init; nobody ends the wait for a stranger |
  | `ReapCorrect` | `ReapedIsReported` | `"orphan"` | an exit to a waiting parent writes to whom `parent` names |
  | `FaultsCorrect` | `NeverFaults` | all but `"stranger"` | each of the others leads to a fault of its own |

  Four invariants carry them. `GuardiansInv`: every process but init is the child of
  one that has not ended (`Guarded`), zombies and free blocks have no children left,
  and the init that inherits them is there, because an init that exits faults on its
  null parent. `Families`: parent pointers and children lists agree, which an orphan
  breaks for ever. `CpuBusy`: the sleeper is on the CPU or ready, so somebody always
  is. `WaitersHope`: whoever waits for a child has one that could still end its
  wait. `NeverFaults` needs in addition that every process has a context to resume
  (`Contexts`), and `WaitCorrect` that pids are distinct (`PidsDistinct`). The lost
  PCBPtr is a matter of counting: the items of all children lists correspond one to
  one with the children (`Kin`), so the stock changes with the cardinality of a set.

**Mailboxes.**

- `MailboxesProofs!MailboxTypes`, `BlocksCorrect` and `DescriptorsCorrect`: `TypeOK`,
  `EachBlockInOnePlace` and `DescriptorsAgree`, whose conjunction is inductive.
  `mq_open` writes in the block it takes from a pool, so a listed block must not be
  free; unlink and destroy free what has no users, so a block's users must be all
  the descriptors that lead to it. Opening is proved along the kernel states the
  call passes through: `KernelOK` is the invariant of those, and each operator that
  opens is shown to keep it (`AddDescriptorKeeps` to `MqOpenKeeps`). The result covers
  what the code does wrong and survives: the Resource block a queue loses, and a
  queue destroyed as a plain resource.
- `MailboxesProofs!CountersCorrect`, that `CounterIsLength` holds if queues are
  drained before they are unlinked. `num_msg` survives the reuse of its block, so
  the invariant must speak of free blocks: they hold no messages (`FreeEmpty`) and
  their counters are 0 (`Counted` is about all blocks).
- `MailboxesProofs!FaultsExcluded`, that `NeverFaults` holds if, besides, callers
  leave the pools something and block only when another process is ready. The
  programs' discipline looks at Resource blocks, and the code takes a MessageQueue
  block too, so there must be one: `StockOK` counts the Resource blocks that are
  free or listed, which are never more than the free MessageQueue blocks.
- `MailboxesProofs!MessagesCorrect` and `ResourcesCorrect`: `MessagesConserved` and
  `OnlyNewQueueLosesResource`, whatever the callers do. `StocksStep` says what a call
  does to the stocks: it makes or consumes at most one message, and the Resource
  blocks that are free or listed change only by the one that the unlinking of a queue
  forgets. The messages in all queues are counted as the cardinality of the set of
  their items (queue, position).
- `PromiseProofs!QueuesCorrect`, `Spec => QueuesKeepPromise`: each step of `Mailboxes` is
  a step of `MessageQueues` or none. `QueueMap`, `PlainIds` and `HandleSet` are the
  refinement mapping as functions of the resource list, the messages and the
  descriptors, so that it can be followed through the kernel states of an open; an
  open ends in one of five ways (`OpenedAs`, from `OpenResourceAs` and `OpenQueueAs`), and
  `OpenedSeen` says what each is to the promise. Every other call has a lemma of its
  own (`CloseSeen` to `ParkSeen`) that ends in one of the steps `SeenRefused` to
  `SeenReceive`. The proof needs the invariants above, for a queue is one block
  (`EachBlockInOnePlace`) and a handle leads to its queue (`DescriptorsAgree`); and it
  needs `Counted`, because the code finds a queue full or empty by `num_msg` and the
  promise by the messages. Hence `"undrained"` is not granted. Nor is `"exhaust"`, with
  which `mq_open` creates a queue and returns `DSOS_ERESOURCENOFD`, or `"plain"`, with
  which it opens a plain resource and returns an error: both are effects that come
  with an error, which the promise does not have.
- `PromiseProofs!ErrorsCorrect`, `Spec => FailedCallChangesNothing`. Not granted are
  `"exhaust"`, for the same reason, and `"plain"`: `mq_open` opens a plain resource and
  then returns the error of its own attempt.
- `PromiseProofs!ErrorsOnlyAdd`, `Spec => FailedCallOnlyAdds`, whatever the callers do:
  what the two theorems before must exclude is bounded here. `OnlyAddsTo` is the
  property between two kernel states, and each operator that opens is shown to have
  it (`AddDescriptorAdds` to `MqOpenAdds`); an error of any other call changes nothing.

**Storage.** Four theorems, for every number and size of blocks, any lists and every
set of addresses that may be released; the only hypothesis is the discipline in the
guards of `Storage`.

- `StorageProofs!PoolCorrect`, `StoreSpec => []FreeListIsChain`, and `ListsCorrect`,
  `StoreSpec => []ListsScanBothWays`, have witnesses as their invariant: a sequence of
  the free blocks, linked through `free_list` (`IsStack`), and a sequence of items for
  each list, linked through `prev` and `next` (`AreItems`). A block is in one of these
  once, which the refusals of `releaseBlock` and the callers' discipline keep so; hence
  the pointers a step writes are those of one list (`LinkKeeps`, `UnlinkKeeps`).
  `UnlinkedCorrect`, `StoreSpec => []UnlistedIsUnlinked`, is why a block can be taken
  from the pool and inserted without clearing its links.
- `StorageProofs!StoreCorrect`, `StoreSpec => StoreIsStackAndSequences`. The mapping scans
  the links with a recursive function, so it must be shown that the scan meets the
  items of the witness, in order (`FollowedIs`). The induction theorems of the library
  do not apply here; the proof takes the least place at which the two differ
  (`MinIsLeast`) and looks at the place before.

**The composition.** `DisastrOSProofs` proves of `SysSpec` what a program of the whole
system relies on. Nothing of the parts is proved again; what must be shown is that
each step of the composition is a step both parts' lemmas know.

- To the process manager, a call on queues is one that answers its caller at once
  (`Completes`) or parks it (`Block`). The lemmas of `ProcessesProofs` and
  `FamiliesProofs` are therefore about kinds of steps, of which those of `Next` are
  some: `SystemStep` adds `Replied` and `Parked` to the kinds of `StepShape`. Their
  invariants use `StateTyped`, which is `TypeOK` without the types of results, since
  a queue call returns others than pids and `DSOS_EWAIT` and no handler looks at them.
- To the queues, a step is one of their calls (`SameOpen` to `SameReceive`), or leaves
  them alone (`MailFrame`), or ends a process or begins one. `MP` is `MailboxesProofs`
  with PCBs as its processes, and its facts are cited with the constants'
  assumptions as `MailAssumption` proves them.
- `SysInv` is the conjunction of the invariants that hold whatever the programs do:
  lists, timers, families and results (`AlwaysInv`, `TimersInv`), and blocks,
  descriptors and stocks (`MailSound`, `FreeHoldNothing`, `StockSuffices`). `SysStep`
  is its step, an action at a time (`SpawnStep` to `ReceiveStep`).

| Theorem | Property | Not granted |
|---|---|---|
| `SystemPlaces`, `SystemStatus`, `SystemTimers` | `EachProcessInOnePlace`, `StatusMatchesPlace`, `TimersMatchSleepers` | none |
| `SystemDescriptors` | `OpenQueuesExist` | none |
| `SystemReleases` | `ExitReleasesAll` | none |
| `SystemWakeups` | `NoLostWakeup` | `"orphan"`, `"stranger"` |
| `SystemCounters` | `CountersAreLengths` | `"undrained"` |
| `SystemFaultless` | `NeverFaults` | all of `Liberties` but `"stranger"`; `"undrained"`, `"exhaust"` and `"no_sleeper"` of `MailLiberties` |

`SystemFaultless` is where the parts need each other: a send that blocks follows a
null pointer when no other process is ready, which the queues cannot know and the
process manager shows (`SleeperReady`); and an exit in the process manager frees
descriptors, which are what the queues' blocks count.

**The test programs.** `TestProgramsProofs` proves of `TestSpec` what does not depend on
how many queues, children and messages there are.

- The layout comes first: which call of a program is where (`OpenPos`, `SendPos` and
  so on), for all sizes, from the concatenations the programs are written as.
- `TestInv` is `SysInv`, which every step of the programs keeps because it is one of
  `SysSpec`, an end of the machine, or changes no variable of the kernel
  (`TestKeeps`), and `Bookkeeping`: pids are handed out in the order of init's
  spawns, none twice; a counter is inside its program; and a process has ended just
  when it has made its last call. Hence a call is always one of the program of the
  process that makes it (`Callers`), which is what a statement about results needs.
- `LostResultsAreErrors`, `TestSpec => []ForeignResultsAreErrors`: every call of the
  programs is looked at for the results it stores in other PCBs (`KeptOrLost`). Only
  queue calls that block store one in the PCB that runs next; an exit that wakes its
  parent does too, but then it is the answer to the parent's wait.
- `CleanProgramsCleanUp`, `TestSpec => []CleanEnd`. `TrapDoes` says what the next call
  of each process does to the system (`InitEffect`, `ChildEffect`), for which the calls
  on queues are brought to a shape each (`MakesQueue` to `TakesMessage`). `CleanInv` is
  the invariant. `MailTracked`: the listed queues are those init has opened, a
  descriptor leads to one of them, so an unlink frees a queue nobody uses, and an
  unlisted block is empty. `UnlinkedGone` and `ChildrenReaped`: each unlink that
  succeeded removed its queue, each wait that succeeded freed one process. A call
  has succeeded (`Succeeded`) when init is past it, or is told so but has not read it;
  the second case is needed because the step that frees the child is not the one in
  which init reads the pid, and what is stored meanwhile can be replaced, by an error,
  which then sets `failed`. `InitParks` says where init can sleep: were a timer to end
  a wait, or a child to end a send, a call would pass for successful that did nothing.
  The last step counts: init and the sleeper are what is left when as many waits
  succeeded as children were spawned.
- `MessagesInOrder`, `TestSpec => []DeliveredInOrder`: each child reads, and then finds
  in its queue, messages of that queue in the order in which init sends them, none
  twice. `OrderInv` is the invariant. `FlowInv`: what is in a queue, and what a child has
  read or is about to read (`Got`), are messages that init has made the send of, in
  that order, and all the child has come before all that is left. `FilesInv`: the
  descriptors of a child are of its queue (it has the pid the queue is named after, a
  PCB that nobody had a file in, and opens one queue), and those of init have the fds
  that `disastrOS_test.c` takes for granted; that the n-th open gets fd n is true only
  because an open that fails does so for want of a descriptor, which no later open
  finds either before init closes (`NextFd`). Without it a send could put the message
  of one queue into another. A send comes after all that are in the queue because init
  has made no later one (`Newest`), and what a child is about to read, a message or
  nothing, is in its second argument, which no other process' call changes
  (`ArgKept`). The invariant is
  of runs without a fault; a fault changes neither the queues nor what was read
  (`DeliveredStays`).

`SequenceLemmas` states what head, tail, append, concatenation, sub-sequences, and
insertion and removal at a place do to the range of a sequence, to its injectivity
and to its elements.

Only model-checked: liveness (`ReadyRuns`, `SleeperWakes`, `Terminates`; the prover
does not treat fairness), and `StressDeliversAll` of `TestPrograms`, which holds only for
pools that are large enough for the test.

## 5. Not modelled, and the plan

Not modelled:

- The range check of system call numbers lets one number past the vectors through
  (`disastrOS.c:88`); no wrapper passes one.
- A second alarm while the first is handled (`disastrOS.c:234`, where the alarm is
  not masked) needs a scheduling pass longer than 100 ms and would corrupt stacks,
  which the models have none of.
- `disastrOS_time + cycles` may overflow (`disastrOS_sleep.c:16`); time is kept
  relative here.
- The buffer argument of `mq_receive`, which the code never writes; queue calls on
  plain resources, which cast to memory that is not there; what a forked child
  executes on the old stack of its block.
- Paths that cannot be taken. The walk over the timers of a process that exits
  (`disastrOS_exit.c:60-72`, "untested") finds none: by `TimersMatchSleepers` a process
  with a timer is asleep, and only the running one exits. The refusal of a second
  timer (`DSOS_ESLEEP` at `disastrOS_sleep.c:12`, `disastrOS_mq_send.c:44`,
  `disastrOS_mq_receive.c:42`) tests `running->timer`, which nothing ever sets to
  anything but 0, and there would be none to find by the same property. The want of
  a timer block (`:21`, `:53` and `:51` there) would take more than one timer per PCB,
  for the two pools have the same size (`disastrOS_timer.c:17`, `disastrOS_pcb.c:29`).
- Exit values, signals, printing and logging, and the `ucontext` machinery itself.

Next: `StressDeliversAll` as a theorem, with the sizes it needs as its hypotheses.
