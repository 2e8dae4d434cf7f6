---------------------------- MODULE DeviceControl ----------------------------
(***************************************************************************)
(* The device control library: device_control.c and resource_table.c.      *)
(*                                                                         *)
(* A transport's task is the gateway of its device control instance.  At   *)
(* boot it collects the registrations of the servicers, then it forwards   *)
(* one command at a time to the queue of the servicer that registered the  *)
(* resource and waits for the answer.  Servicers on the gateway's tile     *)
(* register and answer through gateway_queue; the others through the       *)
(* intertile channel, with a client thread on their tile that puts the     *)
(* commands in their queue.  A servicer serves any number of instances.    *)
(***************************************************************************)
EXTENDS Integers, Sequences, FiniteSets

CONSTANTS
  Gateways,         \* the device control instances, one per transport
  Servicers,        \* servicer_count of them
  OnTile,           \* the servicers on the tile of the gateways
  Resources,        \* resource IDs; "special" is CONTROL_SPECIAL_RESID
  Owned,            \* the resources each servicer registers
  ArrayIndex        \* per servicer: the instances' places in device_control_ctx[]

ASSUME ControlAssumption ==
  /\ IsFiniteSet(Servicers) /\ OnTile \subseteq Servicers
  /\ "special" \in Resources
  /\ Owned \in [Servicers -> SUBSET (Resources \ {"special"})]
  /\ \A s, t \in Servicers : s # t => Owned[s] \cap Owned[t] = {}
  /\ ArrayIndex \in [Servicers -> [Gateways -> Nat]]
  /\ \A s \in Servicers, g, h \in Gateways :
       g # h => ArrayIndex[s][g] # ArrayIndex[s][h]

VARIABLES
  gw,               \* the gateway's task: where it is
  servicerTable,    \* servicer_table: the servicers in order of registration
  resourceTable,    \* resource_table: an index of the former, 0 for NO_SERVICER
  gatewayQueue,     \* gateway_queue, of length 1
  up, down,         \* the intertile channel, to and from the gateway
  client,           \* device_control_client_thread: the command it holds
  queue,            \* the servicers' queues, of length 1
  toRegister,       \* the instances a servicer has yet to register with
  held, result,     \* the command a servicer executes, ret once it has
  call,             \* requested_resid
  lastStatus,       \* last_status
  statusLen,        \* status_buffer_len is set
  statusBuffer      \* status_buffer, for one status

bootVars == <<servicerTable, resourceTable, toRegister>>
channelVars == <<gatewayQueue, up, down>>
servicerVars == <<client, queue, held, result>>
statusVars == <<statusLen, statusBuffer>>
vars == <<gw, bootVars, channelVars, servicerVars, call, lastStatus, statusVars>>

ServicerStatuses == {"SUCCESS", "ERROR"}
LastStatuses == ServicerStatuses \cup {"BAD_RESOURCE", "BAD_COMMAND", "DATA_LENGTH_ERROR"}
Registration(s) == [kind |-> "registration", from |-> s, status |-> "none"]
Answer(s, st) == [kind |-> "answer", from |-> s, status |-> st]

Messages ==
  [kind : {"registration"}, from : Servicers, status : {"none"}]
    \cup [kind : {"answer"}, from : Servicers, status : ServicerStatuses]
\* remote: dev_ctrl_ctx is the instance of the client's tile
Commands == [gateway : Gateways, resource : Resources, remote : BOOLEAN]

Lone(S) == \A x, y \in S : x = y

GatewayTypeOK ==
  /\ gw \in [Gateways -> {"register", "clear", "ready", "send", "wait", "halted"}]
  /\ call \in [Gateways -> Resources]
  /\ statusLen \in [Gateways -> BOOLEAN] /\ statusBuffer \in [Gateways -> Nat]

StatusTypeOK == lastStatus \in [Gateways -> LastStatuses]

TablesTypeOK ==
  /\ servicerTable \in [Gateways -> Seq([servicer : Servicers, remote : BOOLEAN])]
  /\ resourceTable \in [Gateways -> [Resources -> Nat]]
  /\ \A g \in Gateways, r \in Resources : resourceTable[g][r] <= Len(servicerTable[g])
  /\ toRegister \in [Servicers -> SUBSET Gateways]

QueuesTypeOK ==
  /\ gatewayQueue \in [Gateways -> SUBSET Messages]
  /\ up \in [Gateways -> SUBSET Messages]
  /\ down \in [Gateways -> SUBSET (Commands \X Servicers)]
  /\ client \in [Gateways -> SUBSET (Commands \X Servicers)]
  /\ queue \in [Servicers -> SUBSET Commands]
  /\ held \in [Servicers -> SUBSET Commands]
  /\ result \in [Servicers -> ServicerStatuses \cup {"none"}]
  /\ \A g \in Gateways : Lone(gatewayQueue[g]) /\ Lone(up[g])
                         /\ Lone(down[g]) /\ Lone(client[g])
  /\ \A s \in Servicers : Lone(queue[s]) /\ Lone(held[s])

TypeOK == GatewayTypeOK /\ StatusTypeOK /\ TablesTypeOK /\ QueuesTypeOK

\* device_control_init, device_control_start
Init ==
  /\ gw = [g \in Gateways |-> "register"]
  /\ servicerTable = [g \in Gateways |-> <<>>]
  /\ resourceTable = [g \in Gateways |-> [r \in Resources |-> 0]]
  /\ gatewayQueue = [g \in Gateways |-> {}]
  /\ up = [g \in Gateways |-> {}] /\ down = [g \in Gateways |-> {}]
  /\ client = [g \in Gateways |-> {}] /\ queue = [s \in Servicers |-> {}]
  /\ toRegister = [s \in Servicers |-> Gateways]
  /\ held = [s \in Servicers |-> {}] /\ result = [s \in Servicers |-> "none"]
  /\ call = [g \in Gateways |-> "special"]
  /\ lastStatus = [g \in Gateways |-> "SUCCESS"]
  /\ statusLen = [g \in Gateways |-> FALSE] /\ statusBuffer = [g \in Gateways |-> 0]

-----------------------------------------------------------------------------
(***************************************************************************)
(* Registration                                                            *)
(***************************************************************************)
\* The instance of the array that the servicer is at
NextInArray(s, g) ==
  /\ g \in toRegister[s]
  /\ \A h \in toRegister[s] : ArrayIndex[s][g] <= ArrayIndex[s][h]

RegisterWithOne(s, g) ==
  /\ NextInArray(s, g)
  /\ IF s \in OnTile
     THEN /\ gatewayQueue[g] = {}
          /\ gatewayQueue' = [gatewayQueue EXCEPT ![g] = {Registration(s)}]
          /\ UNCHANGED up
     ELSE /\ up[g] = {}
          /\ up' = [up EXCEPT ![g] = {Registration(s)}]
          /\ UNCHANGED gatewayQueue
  /\ toRegister' = [toRegister EXCEPT ![s] = {}]
  /\ UNCHANGED <<gw, servicerTable, resourceTable, down, servicerVars, call,
                 lastStatus, statusVars>>

\* device_control_servicer_register, one instance of the array after the other;
\* it waits for ever for the room of the one it is at.
Register(s, g) ==
  /\ NextInArray(s, g)
  /\ IF s \in OnTile
     THEN /\ gatewayQueue[g] = {}
          /\ gatewayQueue' = [gatewayQueue EXCEPT ![g] = {Registration(s)}]
          /\ UNCHANGED up
     ELSE /\ up[g] = {}
          /\ up' = [up EXCEPT ![g] = {Registration(s)}]
          /\ UNCHANGED gatewayQueue
  /\ toRegister' = [toRegister EXCEPT ![s] = @ \ {g}]
  /\ UNCHANGED <<gw, servicerTable, resourceTable, down, servicerVars, call,
                 lastStatus, statusVars>>

CompleteEarly(g) == Len(servicerTable[g]) + 1 >= Cardinality(Servicers)
Complete(g) == Len(servicerTable[g]) = Cardinality(Servicers)

TableWithLast(g, s) ==
  [r \in Resources |->
     IF r \in Owned[s] THEN Len(servicerTable[g]) ELSE resourceTable[g][r]]

\* resource_table_add; a conflict ends the registration
TableWith(g, s) ==
  [r \in Resources |->
     IF r \in Owned[s] THEN Len(servicerTable[g]) + 1 ELSE resourceTable[g][r]]

TakeRegistration(g) ==
  /\ gw[g] = "register" /\ ~Complete(g)
  /\ \E remote \in BOOLEAN : \E m \in IF remote THEN up[g] ELSE gatewayQueue[g] :
       /\ IF remote THEN up' = [up EXCEPT ![g] = {}] /\ UNCHANGED gatewayQueue
          ELSE gatewayQueue' = [gatewayQueue EXCEPT ![g] = {}] /\ UNCHANGED up
       /\ servicerTable' = [servicerTable EXCEPT ![g] =
            Append(@, [servicer |-> m.from, remote |-> remote])]
       /\ resourceTable' = [resourceTable EXCEPT ![g] = TableWith(g, m.from)]
  /\ UNCHANGED <<gw, toRegister, down, servicerVars, call, lastStatus, statusVars>>

\* The time is up: the transport's assertion stops the firmware.
RegistrationFails(g) ==
  /\ gw[g] = "register" /\ ~Complete(g)
  /\ gw' = [gw EXCEPT ![g] = "halted"]
  /\ UNCHANGED <<bootVars, channelVars, servicerVars, call, lastStatus, statusVars>>

\* The status buffer is there before it is cleared.
AllocateStatus(g) ==
  /\ gw[g] = "register" /\ Complete(g)
  /\ gw' = [gw EXCEPT ![g] = "clear"]
  /\ statusLen' = [statusLen EXCEPT ![g] = TRUE]
  /\ UNCHANGED <<bootVars, channelVars, servicerVars, call, lastStatus, statusBuffer>>

ClearStatus(g) ==
  /\ gw[g] = "clear"
  /\ gw' = [gw EXCEPT ![g] = "ready"]
  /\ statusBuffer' = [statusBuffer EXCEPT ![g] = 0]
  /\ UNCHANGED <<bootVars, channelVars, servicerVars, call, lastStatus, statusLen>>

-----------------------------------------------------------------------------
(***************************************************************************)
(* Commands: device_control_request and                                    *)
(* device_control_payload_transfer_bidir, called by the transport          *)
(***************************************************************************)
\* resource_table_search
Found(g, r) == r = "special" \/ resourceTable[g][r] # 0

\* device_control_request refuses a resource of nobody's, which a transport may
\* hand on all the same; a write of more bytes than came goes no further.
Refuse(g, r) ==
  /\ gw[g] = "ready"
  /\ call' = [call EXCEPT ![g] = r]
  /\ \/ ~Found(g, r) /\ UNCHANGED lastStatus
     \/ ~Found(g, r) /\ lastStatus' = [lastStatus EXCEPT ![g] = "BAD_RESOURCE"]
     \/ Found(g, r) /\ lastStatus' = [lastStatus EXCEPT ![g] = "DATA_LENGTH_ERROR"]
  /\ UNCHANGED <<gw, bootVars, channelVars, servicerVars, statusVars>>

\* special_read_command; a write to the special resource is a bad command
Special(g) ==
  /\ gw[g] = "ready"
  /\ call' = [call EXCEPT ![g] = "special"]
  /\ \E st \in {"SUCCESS", "BAD_COMMAND"} : lastStatus' = [lastStatus EXCEPT ![g] = st]
  /\ UNCHANGED <<gw, bootVars, channelVars, servicerVars, statusVars>>

Begin(g, r) ==
  /\ gw[g] = "ready" /\ r # "special" /\ Found(g, r)
  /\ call' = [call EXCEPT ![g] = r]
  /\ gw' = [gw EXCEPT ![g] = "send"]
  /\ UNCHANGED <<bootVars, channelVars, servicerVars, lastStatus, statusVars>>

\* The servicer_table entry of the command in hand
Entry(g) == servicerTable[g][resourceTable[g][call[g]]]

Command(g) == [gateway |-> g, resource |-> call[g], remote |-> FALSE]

\* do_command
SendOnTile(g) ==
  /\ gw[g] = "send" /\ ~Entry(g).remote
  /\ queue[Entry(g).servicer] = {}
  /\ queue' = [queue EXCEPT ![Entry(g).servicer] = {Command(g)}]
  /\ gw' = [gw EXCEPT ![g] = "wait"]
  /\ UNCHANGED <<bootVars, channelVars, client, held, result, call, lastStatus, statusVars>>

SendOffTile(g) ==
  /\ gw[g] = "send" /\ Entry(g).remote
  /\ down[g] = {}
  /\ down' = [down EXCEPT ![g] = {<<Command(g), Entry(g).servicer>>}]
  /\ gw' = [gw EXCEPT ![g] = "wait"]
  /\ UNCHANGED <<bootVars, gatewayQueue, up, servicerVars, call, lastStatus, statusVars>>

PeekAnswer(g) ==
  /\ gw[g] = "wait"
  /\ \E m \in IF Entry(g).remote THEN up[g] ELSE gatewayQueue[g] :
       lastStatus' = [lastStatus EXCEPT ![g] = m.status]
  /\ gw' = [gw EXCEPT ![g] = "ready"]
  /\ UNCHANGED <<bootVars, channelVars, servicerVars, call, statusVars>>

TakeAnswer(g) ==
  /\ gw[g] = "wait"
  /\ \E m \in IF Entry(g).remote THEN up[g] ELSE gatewayQueue[g] :
       lastStatus' = [lastStatus EXCEPT ![g] = m.status]
  /\ IF Entry(g).remote
     THEN up' = [up EXCEPT ![g] = {}] /\ UNCHANGED gatewayQueue
     ELSE gatewayQueue' = [gatewayQueue EXCEPT ![g] = {}] /\ UNCHANGED up
  /\ gw' = [gw EXCEPT ![g] = "ready"]
  /\ UNCHANGED <<bootVars, down, servicerVars, call, statusVars>>

\* device_control_client_thread
ClientReceive(g) ==
  /\ client[g] = {} /\ down[g] # {}
  /\ client' = [client EXCEPT ![g] =
       {<<[c[1] EXCEPT !.remote = TRUE], c[2]>> : c \in down[g]}]
  /\ down' = [down EXCEPT ![g] = {}]
  /\ UNCHANGED <<gw, bootVars, gatewayQueue, up, queue, held, result, call,
                 lastStatus, statusVars>>

ClientForwardOrDrop(g) ==
  /\ \E c \in client[g] :
       queue' = [queue EXCEPT ![c[2]] = IF @ = {} THEN {c[1]} ELSE @]
  /\ client' = [client EXCEPT ![g] = {}]
  /\ UNCHANGED <<gw, bootVars, channelVars, held, result, call, lastStatus, statusVars>>

ClientForward(g) ==
  /\ \E c \in client[g] :
       /\ queue[c[2]] = {}
       /\ queue' = [queue EXCEPT ![c[2]] = {c[1]}]
  /\ client' = [client EXCEPT ![g] = {}]
  /\ UNCHANGED <<gw, bootVars, channelVars, held, result, call, lastStatus, statusVars>>

-----------------------------------------------------------------------------
(***************************************************************************)
(* Servicers: device_control_servicer_cmd_recv in a loop, once registered  *)
(***************************************************************************)
ReceivePeek(s) ==
  /\ toRegister[s] = {} /\ held[s] = {} /\ queue[s] # {}
  /\ held' = [held EXCEPT ![s] = queue[s]]
  /\ UNCHANGED <<gw, bootVars, channelVars, client, queue, result, call, lastStatus, statusVars>>

Receive(s) ==
  /\ toRegister[s] = {} /\ held[s] = {} /\ queue[s] # {}
  /\ held' = [held EXCEPT ![s] = queue[s]]
  /\ queue' = [queue EXCEPT ![s] = {}]
  /\ UNCHANGED <<gw, bootVars, channelVars, client, result, call, lastStatus, statusVars>>

\* read_cmd_cb, write_cmd_cb
Execute(s) ==
  /\ held[s] # {} /\ result[s] = "none"
  /\ \E st \in ServicerStatuses : result' = [result EXCEPT ![s] = st]
  /\ UNCHANGED <<gw, bootVars, channelVars, client, queue, held, call, lastStatus, statusVars>>

\* The answer of a servicer is to find the gateway's queue empty.
Reply(s) ==
  /\ result[s] # "none"
  /\ \E c \in held[s] :
       LET g == c.gateway IN
       IF c.remote
       THEN /\ up[g] = {}
            /\ up' = [up EXCEPT ![g] = {Answer(s, result[s])}]
            /\ UNCHANGED gatewayQueue
       ELSE /\ gatewayQueue[g] = {}
            /\ gatewayQueue' = [gatewayQueue EXCEPT ![g] = {Answer(s, result[s])}]
            /\ UNCHANGED up
  /\ held' = [held EXCEPT ![s] = {}] /\ result' = [result EXCEPT ![s] = "none"]
  /\ UNCHANGED <<gw, bootVars, down, client, queue, call, lastStatus, statusVars>>

-----------------------------------------------------------------------------
Halted == \E g \in Gateways : gw[g] = "halted"

Sends(g) == SendOnTile(g) \/ ClientForward(g)
Gateway(g) ==
  TakeRegistration(g) \/ AllocateStatus(g) \/ ClearStatus(g) \/ SendOffTile(g)
    \/ TakeAnswer(g)
Servicer(s) == Receive(s) \/ Execute(s) \/ Reply(s) \/ \E g \in Gateways : Register(s, g)

Next ==
  /\ ~Halted
  /\ \/ \E g \in Gateways :
          \/ Gateway(g) \/ Sends(g) \/ ClientReceive(g) \/ RegistrationFails(g)
          \/ Special(g) \/ \E r \in Resources : Refuse(g, r) \/ Begin(g, r)
     \/ \E s \in Servicers : Servicer(s)

\* Every task runs when it can; a task that waits for room in a queue gets it
\* when it is its turn.  Nothing obliges a transport to call.
Fairness ==
  /\ \A g \in Gateways :
       WF_vars(~Halted /\ Gateway(g)) /\ WF_vars(~Halted /\ ClientReceive(g))
         /\ SF_vars(~Halted /\ SendOnTile(g)) /\ SF_vars(~Halted /\ ClientForward(g))
  /\ \A s \in Servicers : WF_vars(~Halted /\ Servicer(s))

Spec == Init /\ [][Next]_vars
FairSpec == Spec /\ Fairness

-----------------------------------------------------------------------------
\* The commands and answers of an instance, wherever they are
Answers(g) == {m \in gatewayQueue[g] \cup up[g] : m.kind = "answer"}
HeldFor(g, s) == {c \in held[s] : c.gateway = g}
QueuedFor(g, s) == {c \in queue[s] : c.gateway = g}
Owners(g) == {s \in Servicers : call[g] \in Owned[s]}

\* The places where a command, or the answer to it, may be
Places(g) ==
  {<<"down", c[2]>> : c \in down[g]} \cup {<<"client", c[2]>> : c \in client[g]}
    \cup {<<"queue", s>> : s \in {t \in Servicers : QueuedFor(g, t) # {}}}
    \cup {<<"held", s>> : s \in {t \in Servicers : HeldFor(g, t) # {}}}
    \cup {<<"answer", m.from>> : m \in Answers(g)}

\* A gateway that waits is waited for in exactly one place: its command is on
\* its way, in the hands of the servicer that owns the resource, or answered.
\* Nothing is left behind for a later call.
CommandAccountedFor ==
  \A g \in Gateways :
    Cardinality(Places(g)) = IF gw[g] = "wait" THEN 1 ELSE 0

\* A servicer holds commands for its own resources only, and knows where each
\* came from; the answers a gateway finds are its servicer's.
RoutedToOwner ==
  /\ \A s \in Servicers : \A c \in queue[s] \cup held[s] :
       c.resource = call[c.gateway] /\ c.resource \in Owned[s]
         /\ c.remote = (s \notin OnTile)
  /\ \A g \in Gateways : \A m \in Answers(g) : m.from \in Owners(g)

\* Registrations and answers, which share a queue and a channel, never meet: a
\* gateway never takes one for the other.
BootQueueIsBoot ==
  \A g \in Gateways : \A m \in gatewayQueue[g] \cup up[g] :
    m.kind = IF gw[g] \in {"register", "halted"} THEN "registration" ELSE "answer"

\* The servicers register with every instance, one after the other in an order of
\* their own, although one that waits for an instance keeps the next instances
\* waiting for it.
EveryoneRegisters ==
  \A g \in Gateways : gw[g] = "register" ~> gw[g] = "ready" \/ Halted

\* Every call returns, although instances compete for the servicers' queues.
CallsReturn ==
  \A g \in Gateways : gw[g] \in {"send", "wait"} ~> gw[g] = "ready" \/ Halted

Results(g) ==
  {<<m.from, m.status>> : m \in Answers(g)}
    \cup {<<s, result[s]>> : s \in {t \in Servicers :
                                       HeldFor(g, t) # {} /\ result[t] # "none"}}

\* The call of an instance as its transport sees it
PhaseOf(g) ==
  IF gw[g] \notin {"send", "wait"} THEN "idle"
  ELSE IF Results(g) = {} THEN "called" ELSE "executed"
ExecutedBy(g) == {x[1] : x \in Results(g)}
StatusOf(g) ==
  IF Results(g) = {} THEN lastStatus[g] ELSE (CHOOSE x \in Results(g) : TRUE)[2]

CallPhase == [g \in Gateways |-> PhaseOf(g)]
CallExecutedBy == [g \in Gateways |-> ExecutedBy(g)]
CallStatus == [g \in Gateways |-> StatusOf(g)]

Calls == INSTANCE ControlCalls WITH
  Statuses <- ServicerStatuses, phase <- CallPhase, resource <- call,
  by <- CallExecutedBy, status <- CallStatus

\* Every call is executed exactly once, by the owner of its resource, and
\* returns with that status, whatever the other instances do.
ImplementsCalls == Calls!Spec
=============================================================================
