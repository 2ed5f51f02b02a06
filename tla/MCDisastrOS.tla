---------------------------- MODULE MCDisastrOS ----------------------------
(***************************************************************************)
(* The instances of DisastrOS that TLC checks, and what the documentation  *)
(* says of a call that blocks and of a process that ends.                  *)
(***************************************************************************)
EXTENDS DisastrOS

\* To open a queue, or to create it (Mail!CREATE; an expression of the instance
\* Mail cannot define a constant that Mail itself is given).
ModesPlain == {{}, {"DSOS_CREATE"}}

\* README.md: mq_send "returns 0 if successful, <0 if not" and so does mq_receive.
\* A call that blocked has sent or received nothing, so when its caller has the
\* CPU again it returns an error.
BlockedCallReportsError ==
  [][\A b \in waiting_list :
       running' = b /\ syscall_num[b] \in {"mq_send", "mq_receive"}
         => retvalue'[b] < 0]_sysVars

\* disastrOS_exit.c:74, "we release all resources of a process upon termination":
\* no queue counts among its users a process that ended and was waited for.
EndedProcessesUseNothing ==
  \A q \in DOMAIN resources_list : \A d \in resources_list[q].opened :
    desc[d].pcb \notin FreePcbs

=============================================================================
