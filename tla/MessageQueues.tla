--------------------------- MODULE MessageQueues ---------------------------
(***************************************************************************)
(* What the calls on queues and plain resources promise to the processes   *)
(* that make them, without blocks, pools or counters.  A queue is a        *)
(* bounded FIFO with a name; a process uses it through fds; what somebody  *)
(* has open cannot disappear.                                              *)
(*                                                                         *)
(* A call is seen by what it leaves in the PCB of its caller: a result,    *)
(* and the second argument, which after a receive is the message received. *)
(* A result of 0 or more comes with the one effect that earns it, and an   *)
(* error with none: a message that is handed out is the first of its queue *)
(* and leaves it, and a send that answers 0 has queued its message.        *)
(*                                                                         *)
(* This is not all that README.md of the repository promises: a call that  *)
(* blocks tells its outcome to the process that runs next.                 *)
(***************************************************************************)
EXTENDS Naturals, Sequences

CONSTANTS
  Proc, Ids, Msgs, NoMsg, Fds, Capacity,
  OpenErrors, CloseErrors, SendError, ReceiveError,  \* results of refused calls
  Full, Empty                                        \* what blocked calls report

VARIABLES
  queue,      \* id -> its messages, for the ids of queues
  plain,      \* the ids of the plain resources
  handles,    \* the open fds: [pcb, fd, id]
  argument,   \* process -> what its last call left in its second argument
  result      \* process -> the result stored for it

vars == <<queue, plain, handles, argument, result>>

Named == DOMAIN queue \cup plain

Answers(p, code, arg) ==
  /\ result' = [result EXCEPT ![p] = code]
  /\ argument' = [argument EXCEPT ![p] = arg]

\* The fd that p is told is a new one of p, for a resource that exists or that
\* the call creates.
Open(p, fd, i) ==
  /\ \A h \in handles : h.pcb = p => h.fd # fd
  /\ handles' = handles \cup {[pcb |-> p, fd |-> fd, id |-> i]}
  /\ \/ i \in Named /\ UNCHANGED <<queue, plain>>
     \/ /\ i \notin Named
        /\ queue' = [j \in DOMAIN queue \cup {i} |-> IF j = i THEN <<>> ELSE queue[j]]
        /\ UNCHANGED plain
     \/ /\ i \notin Named
        /\ plain' = plain \cup {i}
        /\ UNCHANGED queue
  /\ Answers(p, fd, NoMsg)

Close(h) ==
  /\ handles' = handles \ {h}
  /\ Answers(h.pcb, 0, argument[h.pcb])
  /\ UNCHANGED <<queue, plain>>

\* unlink and destroy.
Remove(p, i) ==
  /\ \A h \in handles : h.id # i
  /\ queue' = [j \in DOMAIN queue \ {i} |-> queue[j]]
  /\ plain' = plain \ {i}
  /\ Answers(p, 0, argument[p])
  /\ UNCHANGED handles

Send(h, m) ==
  /\ Len(queue[h.id]) < Capacity
  /\ queue' = [queue EXCEPT ![h.id] = Append(@, m)]
  /\ Answers(h.pcb, 0, m)
  /\ UNCHANGED <<plain, handles>>

Receive(h) ==
  /\ queue[h.id] # <<>>
  /\ queue' = [queue EXCEPT ![h.id] = Tail(@)]
  /\ Answers(h.pcb, 0, Head(queue[h.id]))
  /\ UNCHANGED <<plain, handles>>

Refuse(p, code, arg) ==
  /\ Answers(p, code, arg)
  /\ UNCHANGED <<queue, plain, handles>>

\* Each call is refused with errors of its own, and leaves its own argument.
Refusal(p) ==
  \/ \E code \in OpenErrors \cup {ReceiveError} : Refuse(p, code, NoMsg)
  \/ \E code \in CloseErrors : Refuse(p, code, argument[p])
  \/ \E m \in Msgs : Refuse(p, SendError, m)

\* The caller of h blocks, and its result goes to n, which runs next.
Block(h, n, code, arg) ==
  /\ n # h.pcb
  /\ result' = [result EXCEPT ![n] = code]
  /\ argument' = [argument EXCEPT ![h.pcb] = arg]
  /\ UNCHANGED <<queue, plain, handles>>

BlockInSend(h, n, m)  == Len(queue[h.id]) = Capacity /\ Block(h, n, Full, m)
BlockInReceive(h, n)  == queue[h.id] = <<>> /\ Block(h, n, Empty, NoMsg)

\* A process that ends has nothing open any more.
Exit(p) ==
  /\ handles' = {h \in handles : h.pcb # p}
  /\ UNCHANGED <<queue, plain, argument, result>>

Init ==
  /\ queue = [i \in {} |-> <<>>]
  /\ plain = {}
  /\ handles = {}
  /\ argument = [p \in Proc |-> NoMsg]
  /\ result = [p \in Proc |-> 0]

\* Sends and receives are made on the fds of queues.
UseQueue(h) ==
  /\ h.id \in DOMAIN queue
  /\ \/ Receive(h)
     \/ \E m \in Msgs : Send(h, m)
     \/ \E n \in Proc : BlockInReceive(h, n) \/ \E m \in Msgs : BlockInSend(h, n, m)

Next ==
  \/ \E p \in Proc, fd \in Fds, i \in Ids : Open(p, fd, i)
  \/ \E h \in handles : Close(h) \/ UseQueue(h)
  \/ \E p \in Proc, i \in Named : Remove(p, i)
  \/ \E p \in Proc : Refusal(p) \/ Exit(p)

Spec == Init /\ [][Next]_vars

=============================================================================
