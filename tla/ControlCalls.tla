----------------------------- MODULE ControlCalls -----------------------------
(***************************************************************************)
(* What the device control library promises a transport: every call is     *)
(* executed exactly once, by the servicer that registered its resource,    *)
(* and returns with that servicer's status.  There are no queues, threads  *)
(* or tiles.                                                               *)
(***************************************************************************)
CONSTANTS
  Gateways,         \* the transports' device control instances
  Resources,
  Servicers, Owned, \* the resources each servicer registered
  Statuses          \* what a servicer may answer

VARIABLES
  phase,            \* "idle", "called", "executed"
  resource,         \* the resource of the last call
  by,               \* the servicer that executed it, until it returns
  status            \* the status of the last call executed

vars == <<phase, resource, by, status>>

Init ==
  /\ phase = [g \in Gateways |-> "idle"]
  /\ resource = [g \in Gateways |-> "special"]
  /\ by = [g \in Gateways |-> {}]
  /\ status = [g \in Gateways |-> "SUCCESS"]

Registered == UNION {Owned[s] : s \in Servicers}

Call(g) ==
  /\ phase[g] = "idle"
  /\ phase' = [phase EXCEPT ![g] = "called"]
  /\ \E r \in Registered : resource' = [resource EXCEPT ![g] = r]
  /\ UNCHANGED <<by, status>>

\* Answered on the spot: a resource of the library itself, or of nobody, which
\* may leave the status alone, or a write that is too short
Answer(g, r, st) ==
  /\ phase[g] = "idle"
  /\ \/ st = "DATA_LENGTH_ERROR"
     \/ r = "special" /\ st \in {"SUCCESS", "BAD_COMMAND"}
     \/ r # "special" /\ r \notin Registered /\ st \in {"BAD_RESOURCE", status[g]}
  /\ resource' = [resource EXCEPT ![g] = r]
  /\ status' = [status EXCEPT ![g] = st]
  /\ UNCHANGED <<phase, by>>

Execute(g, s, st) ==
  /\ phase[g] = "called" /\ resource[g] \in Owned[s]
  /\ phase' = [phase EXCEPT ![g] = "executed"]
  /\ by' = [by EXCEPT ![g] = {s}]
  /\ status' = [status EXCEPT ![g] = st]
  /\ UNCHANGED resource

Return(g) ==
  /\ phase[g] = "executed"
  /\ phase' = [phase EXCEPT ![g] = "idle"]
  /\ by' = [by EXCEPT ![g] = {}]
  /\ UNCHANGED <<resource, status>>

Next == \E g \in Gateways :
  \/ Call(g) \/ Return(g)
  \/ \E s \in Servicers, st \in Statuses : Execute(g, s, st)
  \/ \E r \in Resources :
       \E st \in {"SUCCESS", "BAD_COMMAND", "BAD_RESOURCE", "DATA_LENGTH_ERROR", status[g]} :
         Answer(g, r, st)

Spec == Init /\ [][Next]_vars
=============================================================================
