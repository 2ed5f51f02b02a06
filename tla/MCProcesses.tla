---------------------------- MODULE MCProcesses ----------------------------
(***************************************************************************)
(* The instances of Processes that TLC checks.  Besides the properties of  *)
(* Processes, this module states what comments and assertions of the code  *)
(* claim and the code does not do once processes leave the discipline of   *)
(* the repository's tests, or the pools run out.                           *)
(***************************************************************************)
EXTENDS Processes

\* disastrOS_exit.c:13: the parent is "awakened if it was waiting for this
\* process to report its value".
ExitWakesParent ==
  system = "up" => \A w \in waiting_list :
    BlockedInWait(w) => AwaitedBy(w) \cap zombie_list = {}

\* disastrOS_wait.c:33: "if we were looking for a process not in child list we
\* need to return an error", and so never block.
NoWaitForStranger ==
  system = "up" => \A w \in waiting_list :
    BlockedInWait(w) => AwaitedBy(w) # {}

\* disastrOS_spawn.c:28, assert(new_pcb_ptr): a process that found a PCB for
\* its child also finds a PCBPtr for it.
SpawnFindsPointer ==
  InUserCode /\ pcb_allocator # <<>> => pcb_ptr_allocator > 0

=============================================================================
