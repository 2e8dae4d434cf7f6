---------------------------- MODULE DfuRefinement ----------------------------
(***************************************************************************)
(* The two tasks of DfuStateMachine implement the atomic DfuProtocol for a *)
(* host that lets each request settle before it sends the next one.        *)
(*                                                                         *)
(* A request is in the mailbox from Notify until the state machine task is *)
(* back at the top of its loop; the busy states are steps on the way, and  *)
(* map to the state the work started from.  DETACH is served by the        *)
(* watchdog.                                                               *)
(***************************************************************************)
EXTENDS DfuStateMachine

RequestOf(signals) ==
  IF signals = {} THEN "none"
  ELSE LET r == CHOOSE r \in signals : TRUE
       IN IF r # "DNLOAD" THEN r ELSE IF xferLength # 0 THEN "BLOCK" ELSE "END"

Protocol == INSTANCE DfuProtocol WITH
  state <- IF state = "DNBUSY" THEN "DNLOAD_SYNC"
           ELSE IF state = "MANIFEST" THEN "MANIFEST_SYNC" ELSE state,
  status <- status,
  unfinished <- inProgress \/ state \in Busy,
  pending <- IF svPc = "reboot" THEN "DETACH" ELSE RequestOf(bits \cup smBits)

\* The two tasks go through the state diagrams of dfu_state_machine.c and no
\* other states, but for an ABORT that is refused in dfuIDLE, and serve every
\* request they accept.
ImplementsProtocol == Protocol!SpecAsBuilt

\* The state diagrams to the letter: ABORT in dfuIDLE does nothing
\* (dfu_state_machine.c:811).
FollowsDiagrams == Protocol!Init /\ [][Protocol!Next]_(Protocol!vars)
=============================================================================
