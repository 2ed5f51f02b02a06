--------------------------- MODULE MCTestPrograms ---------------------------
(***************************************************************************)
(* The instances of TestPrograms that TLC checks, and what README.md says  *)
(* of mq_send.                                                             *)
(***************************************************************************)
EXTENDS TestPrograms

\* sprintf(buf[i][j], "msg%d,%d", i, j)
Texts ==
  [i \in Ids |-> [j \in 1..M_blocking |->
     "msg" \o ToString(i) \o "," \o ToString(j - 1)]]

\* README.md: mq_send "returns 0 if successful, <0 if not".  What its caller is
\* about to read is 0 when the message is in the queue.
SuccessfulSendReturnsZero ==
  \A b \in in_call :
    pid[b] = 0 /\ Instr(b).op = "mq_send" /\ answer[b] = <<0>> => retvalue[b] = 0

=============================================================================
