---------------------------- MODULE MCMailboxes ----------------------------
(***************************************************************************)
(* The instances of Mailboxes that TLC checks, and what the documentation  *)
(* of the message queues says of behaviours that leave the discipline of   *)
(* the tests, or that meet the ends of the pools.                          *)
(***************************************************************************)
EXTENDS Mailboxes, TLC

CONSTANTS p1, p2, i1, i2

ModesExclusive == {{}, {CREATE}, {CREATE, EXCL}}
ModesPlain     == {{}, {CREATE}}

\* disastrOS_mq_receive.c:70, assert(msg_read): a queue whose counter is not 0
\* has a first message.
ReceiveFindsMessage ==
  \A q \in Queues : num_msg[q] # 0 => messages[q] # <<>>

\* disastrOS_mq_open.c:31, "check if something went wrong while creating our
\* message queue": an mq_open that cannot create reports an error.
CreateReportsFailure ==
  [][(\E i \in Ids, mode \in Modes : internal_mqOpen(i, DSOS_MQ, mode))
       => system' = "up"]_vars

Symmetric == Permutations(Proc) \cup Permutations(Ids)

=============================================================================
