-------------------------- MODULE Transports_proofs --------------------------
(***************************************************************************)
(* The transports of the device control library and the hosts at their far *)
(* ends: the SPI link with the library and its servicers, for any number   *)
(* of servicers, commands and values of the input port; and the I2C and    *)
(* USB transports, for any resources, answers and number of late transfers.*)
(***************************************************************************)
EXTENDS SpiControl, ControlTransports, DeviceControl_proofs

-----------------------------------------------------------------------------
(***************************************************************************)
(* The SPI link                                                            *)
(***************************************************************************)
SpiTypes ==
  /\ spiPc \in {"boot", "idle", "handle", "transfer", "prepare"}
  /\ hostPc \in {"idle", "send", "fetch"}
  /\ rx \in HostCommands \cup {Nop} /\ hostCommand \in HostCommands

\* The servicer of the command in hand is through with it.
Executed ==
  Answers(g0) # {} \/ \E s \in Servicers : held[s] # {} /\ result[s] # "none"

\* The transfer to fetch the answer of hostCommand with, runs and tx are right.
RunsRight == runs = IF OwnedBySome(hostCommand.resource) THEN 1 ELSE 0
AnswerRight(response) ==
  OwnedBySome(hostCommand.resource) =>
    response = IF hostCommand.read /\ ~hostCommand.oneByte
               THEN ReadResponse(hostCommand.resource, lastStatus[g0])
               ELSE StatusResponse("SUCCESS")

\* The host waits for the answer: how far the SPI task is with the command
FetchInv ==
  /\ spiPc # "boot" /\ rx = hostCommand
  /\ spiPc = "handle" => runs = 0
  /\ spiPc = "transfer" =>
       /\ call[g0] = rx.resource /\ OwnedBySome(rx.resource)
       /\ runs = IF gw[g0] = "ready" \/ Executed THEN 1 ELSE 0
  /\ spiPc \in {"prepare", "idle"} => RunsRight /\ AnswerRight(tx)

\* Between calls the SPI task handles nothing but the transfer that fetched
\* the last answer, and the library nothing at all.
LinkInv ==
  /\ prepared <=> spiPc = "idle"
  /\ spiPc # "boot" => gw[g0] \in {"ready", "send", "wait"}
  /\ gw[g0] \in {"send", "wait"} => spiPc = "transfer"
  /\ spiPc = "transfer" => hostPc = "fetch"
  /\ spiPc = "handle" /\ hostPc # "fetch" => rx = Nop
  /\ hostPc = "send" => runs = 0
  /\ hostPc = "fetch" => FetchInv
  /\ HostDone => RunsRight /\ AnswerRight(hostResult)

\* The status buffer: nobody looks at the port before the buffer was cleared,
\* and what is in hand is stale only if a change is still on its way.
PortInv ==
  /\ port \in PortValues /\ sample \in PortValues
  /\ interrupt \in BOOLEAN /\ notified \in BOOLEAN
  /\ handlerPc \in {"off", "fresh", "read", "store", "wait"}
  /\ gw[g0] \in {"register", "clear", "halted"} =>
       ~interrupt /\ ~notified /\ handlerPc \in {"off", "fresh"}
  /\ handlerPc = "off" => ~interrupt
  /\ handlerPc = "store" /\ ~interrupt /\ ~notified => sample = port
  /\ StatusFollowsPort


LEMMA OneGateway == g0 \in Gateways /\ \A g \in Gateways : g = g0
  BY SpiAssumption DEF g0

LEMMA NopIsNone == Nop \notin HostCommands
  BY SpiAssumption DEF Nop, HostCommands

\* A step of the link is one of the library, or none, but for the status buffer.
LEMMA SpiStepIsNext ==
  ASSUME SpiTypes, [SpiNext]_spiControlVars
  PROVE  [Next]_vars \/ HandlerStores
<1> USE OneGateway
<1>1. CASE SpiResponds
  <2>1. CASE UNCHANGED vars
    BY <2>1
  <2>2. CASE Refuse(g0, rx.resource) /\ rx # Nop
    <3>1. rx.resource \in Resources
      BY <2>2 DEF SpiTypes, HostCommands
    <3>2. CASE SpiNext
      BY <2>2, <3>1, <3>2 DEF Next, SpiNext
    <3>3. CASE UNCHANGED spiControlVars
      BY <3>3 DEF spiControlVars
    <3>4. QED BY <3>2, <3>3
  <2>3. QED BY <1>1, <2>1, <2>2 DEF SpiResponds
<1>2. CASE SpiCalls /\ ~Halted
  <2>1. rx.resource \in Resources
    BY <1>2 DEF SpiTypes, HostCommands, SpiCalls
  <2>2. QED BY <1>2, <2>1 DEF SpiCalls, Next
<1>3. CASE SpiCallsSpecial /\ ~Halted
  BY <1>3 DEF SpiCallsSpecial, Next
<1>4. CASE (Library \/ ServicerExecutes) /\ ~Halted
  BY <1>4 DEF Library, ServicerExecutes, Next, Servicer
<1>5. QED
  BY <1>1, <1>2, <1>3, <1>4
     DEF SpiNext, HostCalls, Host, HostSends, HostFetches, Transfer, SpiTask, SpiStarts,
         SpiReturns, SpiPrepares, PortChanges, GpioCallback, Handler, HandlerStarts,
         HandlerWakes, HandlerReads, spiControlVars

LEMMA StatusStored ==
  ASSUME LibraryInv, sample \in PortValues, HandlerStores
  PROVE  LibraryInv'
<1>1. /\ statusBuffer' = [statusBuffer EXCEPT ![g0] = sample]
      /\ UNCHANGED <<gw, servicerTable, resourceTable, toRegister, gatewayQueue, up, down,
                     client, queue, held, result, call, lastStatus, statusLen>>
  BY DEF HandlerStores, bootVars, channelVars, servicerVars
<1>2. TypeInv'
  <2>1. statusBuffer' \in [Gateways -> Nat]
    BY <1>1, SpiAssumption DEF LibraryInv, ControlInv, TypeInv, GatewayTypeOK
  <2>2. GatewayTypeOK'
    BY <1>1, <2>1 DEF LibraryInv, ControlInv, TypeInv, GatewayTypeOK
  <2>3. TablesTypeOK' /\ Targeted' /\ QueuesTypeOK'
    BY <1>1 DEF LibraryInv, ControlInv, TypeInv, TablesTypeOK, Targeted, QueuesTypeOK, Lone
  <2>4. QED BY <2>2, <2>3 DEF TypeInv
<1>3. TileInv' /\ TableInv'
  BY <1>1 DEF LibraryInv, ControlInv, TileInv, TableInv
<1>4. RegInv'
  BY <1>1 DEF LibraryInv, ControlInv, RegInv, Announced, InTable, Booted
<1>5. AnswerInv' /\ TransitInv' /\ ServedInv'
  BY <1>1 DEF LibraryInv, ControlInv, RouteInv, AnswerInv, TransitInv, ServedInv, Answers,
              Own, Entry, Command
<1>6. PlaceInv'
  BY <1>1 DEF LibraryInv, ControlInv, RouteInv, PlaceInv, At, QueuedFor, HeldFor, Answers
<1>7. FoundInv' /\ ResultInv'
  BY <1>1 DEF LibraryInv, FoundInv, ResultInv, InTable, Booted, Complete
<1>8. QED BY <1>2, <1>3, <1>4, <1>5, <1>6, <1>7 DEF LibraryInv, ControlInv, RouteInv

\* Nothing of a command is left once the gateway does not wait for it, and a
\* command that a servicer still executes is nowhere else.
LEMMA NotExecuted ==
  LibraryInv /\ gw[g0] # "wait" => ~Executed
<1> SUFFICES ASSUME LibraryInv, gw[g0] # "wait" PROVE ~Executed
  OBVIOUS
<1>1. Answers(g0) = {}
  BY OneGateway DEF LibraryInv, ControlInv, RouteInv, AnswerInv
<1>2. \A s \in Servicers : held[s] = {}
  <2> SUFFICES ASSUME NEW s \in Servicers, NEW c \in held[s] PROVE FALSE
    OBVIOUS
  <2>1. c.gateway \in Gateways /\ gw[c.gateway] = "wait"
    BY ServedFacts DEF LibraryInv, ControlInv, RouteInv
  <2>2. QED BY <2>1, OneGateway
<1>3. QED BY <1>1, <1>2 DEF Executed

LEMMA InExecution ==
  ASSUME LibraryInv, NEW s \in Servicers, held[s] # {}, result[s] = "none"
  PROVE  gw[g0] = "wait" /\ ~Executed
<1>1. PICK c \in held[s] : TRUE
  OBVIOUS
<1>2. TypeInv /\ RouteInv
  BY DEF LibraryInv, ControlInv
<1>3. c.gateway = g0 /\ gw[g0] = "wait" /\ s = Own(g0)
  BY <1>1, <1>2, ServedFacts, OneGateway DEF RouteInv
<1>4. At(g0, "held")
  BY <1>1, <1>3 DEF At, HeldFor
<1>5. Answers(g0) = {}
  BY <1>2, <1>4, OnlyThere, OneGateway DEF Kinds, At
<1>6. \A t \in Servicers : held[t] # {} => t = s
  <2> SUFFICES ASSUME NEW t \in Servicers, NEW d \in held[t] PROVE t = s
    OBVIOUS
  <2>1. d.gateway \in Gateways /\ t = Own(d.gateway)
    BY <1>2, ServedFacts DEF RouteInv
  <2>2. QED BY <1>3, <2>1, OneGateway
<1>7. QED BY <1>3, <1>5, <1>6 DEF Executed


\* What a step of the library's tasks means for the command in hand
LEMMA LibraryMoves ==
  ASSUME LibraryInv, LibraryInv', ~Halted, Library
  PROVE  /\ call' = call
         /\ gw[g0] # "wait" => lastStatus' = lastStatus
         /\ gw[g0] = "ready" => gw'[g0] = "ready"
         /\ gw[g0] = "send" => gw'[g0] \in {"send", "wait"} /\ ~Executed'
         /\ gw[g0] = "wait" => \/ gw'[g0] = "wait" /\ (Executed' <=> Executed)
                               \/ gw'[g0] = "ready" /\ Executed
         /\ gw[g0] \notin {"send", "wait"} => gw'[g0] \notin {"send", "wait"}
<1> USE OneGateway
<1>0. TypeInv /\ RouteInv /\ ResultInv /\ ControlInv
  BY DEF LibraryInv, ControlInv
<1>1. ASSUME NEW s \in Servicers, Register(s, g0)
      PROVE  UNCHANGED <<gw, call, lastStatus, held, result>> /\ Answers(g0)' = Answers(g0)
  BY <1>0, <1>1 DEF Register, servicerVars, Answers, Registration, TypeInv, QueuesTypeOK
<1>2. ASSUME NEW s \in Servicers, Receive(s)
      PROVE  /\ UNCHANGED <<gw, call, lastStatus, result>> /\ Answers(g0)' = Answers(g0)
             /\ result[s] = "none"
             /\ \A t \in Servicers : t # s => held'[t] = held[t]
  BY <1>0, <1>2 DEF Receive, channelVars, Answers, ResultInv, TypeInv, QueuesTypeOK
<1>3. ASSUME NEW s \in Servicers, Reply(s)
      PROVE  /\ UNCHANGED <<gw, call, lastStatus>> /\ gw[g0] = "wait"
             /\ Executed /\ Answers(g0)' # {}
  <2>1. PICK c \in held[s] : TRUE
    BY <1>3 DEF Reply
  <2>2. result[s] # "none" /\ held[s] # {}
    BY <1>3 DEF Reply
  <2>3. \A d \in held[s] : d.gateway = g0 /\ gw[g0] = "wait"
    BY <1>0, ServedFacts DEF RouteInv
  <2>4. \/ up' = [up EXCEPT ![g0] = {Answer(s, result[s])}]
        \/ gatewayQueue' = [gatewayQueue EXCEPT ![g0] = {Answer(s, result[s])}]
    BY <1>3, <2>3 DEF Reply
  <2>5. Answer(s, result[s]) \in gatewayQueue'[g0] \cup up'[g0]
    BY <1>0, <2>4 DEF TypeInv, QueuesTypeOK
  <2>6. Answers(g0)' # {}
    BY <2>5 DEF Answers, Answer
  <2>7. QED BY <1>3, <2>1, <2>2, <2>3, <2>6 DEF Executed, Reply
<1>4. CASE TakeAnswer(g0)
  <2>1. gw[g0] = "wait" /\ gw'[g0] = "ready" /\ call' = call
    BY <1>0, <1>4 DEF TakeAnswer, TypeInv, GatewayTypeOK
  <2>2. Answers(g0) # {}
    BY <1>0, <1>4, TakenAnswer
  <2>3. QED BY <2>1, <2>2 DEF Executed
<1>5. ASSUME TakeRegistration(g0)
      PROVE  UNCHANGED <<gw, call, lastStatus, held, result>> /\ gw[g0] = "register"
  BY <1>5 DEF TakeRegistration, servicerVars
<1>6. ASSUME AllocateStatus(g0) \/ ClearStatus(g0) \/ RegistrationFails(g0)
      PROVE  /\ UNCHANGED <<call, lastStatus>>
             /\ gw[g0] \in {"register", "clear"} /\ gw'[g0] \in {"clear", "ready", "halted"}
  BY <1>0, <1>6 DEF AllocateStatus, ClearStatus, RegistrationFails, TypeInv, GatewayTypeOK
<1>7. ASSUME SendOnTile(g0) \/ SendOffTile(g0)
      PROVE  /\ UNCHANGED <<call, lastStatus, held, result>>
             /\ gw[g0] = "send" /\ gw'[g0] = "wait" /\ Answers(g0)' = Answers(g0)
  BY <1>0, <1>7 DEF SendOnTile, SendOffTile, TypeInv, GatewayTypeOK, channelVars,
                    servicerVars, Answers
<1>8. ASSUME ClientForward(g0) \/ ClientReceive(g0)
      PROVE  UNCHANGED <<gw, call, lastStatus, held, result>> /\ Answers(g0)' = Answers(g0)
  BY <1>8 DEF ClientForward, ClientReceive, channelVars, Answers
<1>9. gw[g0] # "wait" => ~Executed
  BY NotExecuted
<1>10. gw'[g0] # "wait" => ~Executed'
  <2>1. (LibraryInv /\ gw[g0] # "wait" => ~Executed)'
    BY NotExecuted, PTL
  <2>2. QED BY <2>1
<1>11. ASSUME UNCHANGED <<gw, call, lastStatus, held, result>>,
              Answers(g0)' = Answers(g0) \/ gw[g0] = "register"
       PROVE  /\ UNCHANGED <<gw, call, lastStatus>>
              /\ Executed' <=> Executed
  <2>1. CASE Answers(g0)' = Answers(g0)
    BY <1>11, <2>1 DEF Executed
  <2>2. CASE gw[g0] = "register"
    BY <1>9, <1>10, <1>11, <2>2
  <2>3. QED BY <1>11, <2>1, <2>2
<1>12. ASSUME NEW s \in Servicers, Receive(s)
       PROVE  UNCHANGED <<gw, call, lastStatus>> /\ (Executed' <=> Executed)
  BY <1>2, <1>12 DEF Executed
<1>13. ASSUME NEW s \in Servicers, Reply(s)
       PROVE  UNCHANGED <<gw, call, lastStatus>> /\ (Executed' <=> Executed)
  BY <1>3, <1>13 DEF Executed
<1>14. ASSUME SendOnTile(g0) \/ SendOffTile(g0)
       PROVE  /\ UNCHANGED <<call, lastStatus>> /\ gw[g0] = "send" /\ gw'[g0] = "wait"
              /\ ~Executed'
  BY <1>7, <1>9, <1>14 DEF Executed
<1>15. ASSUME UNCHANGED <<gw, call, lastStatus>>, Executed' <=> Executed
       PROVE  /\ call' = call /\ lastStatus' = lastStatus /\ gw'[g0] = gw[g0]
              /\ gw[g0] = "send" => ~Executed'
  BY <1>9, <1>15
<1>16. QED
  BY <1>1, <1>4, <1>5, <1>6, <1>8, <1>11, <1>12, <1>13, <1>14, <1>15
     DEF Library, Gateway, Sends


SpiInv == SpiTypes /\ LibraryInv /\ LinkInv

LEMMA SpiInitially == SpiInit => SpiInv
<1> SUFFICES ASSUME SpiInit PROVE SpiInv
  OBVIOUS
<1>1. gw[g0] = "register"
  BY OneGateway DEF SpiInit, Init
<1>2. LibraryInv
  BY LibraryStarts DEF SpiInit
<1>3. SpiTypes
  BY ControlAssumption DEF SpiInit, SpiTypes, HostCommands
<1>4. LinkInv
  BY <1>1 DEF SpiInit, LinkInv, HostDone
<1>5. QED BY <1>2, <1>3, <1>4 DEF SpiInv

LEMMA SpiTypesKept ==
  ASSUME SpiTypes, [SpiNext]_spiControlVars
  PROVE  SpiTypes'
<1> USE DEF SpiTypes
<1>1. CASE HostCalls
  BY <1>1 DEF HostCalls, spiVars
<1>2. CASE Host
  BY <1>2 DEF Host, HostSends, HostFetches, Transfer
<1>3. CASE SpiTask
  BY <1>3 DEF SpiTask, SpiStarts, SpiResponds, SpiCalls, SpiCallsSpecial, SpiReturns,
              SpiPrepares, hostVars
<1>4. CASE UNCHANGED <<spiVars, hostVars>>
  BY <1>4 DEF spiVars, hostVars
<1>5. QED
  BY <1>1, <1>2, <1>3, <1>4
     DEF SpiNext, PortChanges, GpioCallback, Handler, HandlerStarts, HandlerWakes,
         HandlerReads, HandlerStores, Library, ServicerExecutes, spiControlVars

\* The host's transfers, which find the SPI task idle
LEMMA LinkHost ==
  ASSUME SpiInv, HostCalls \/ Host
  PROVE  LinkInv'
<1> USE DEF SpiInv, LinkInv
<1>1. CASE HostCalls
  BY <1>1 DEF HostCalls, vars, spiVars, HostDone
<1>2. CASE HostSends
  <2>1. UNCHANGED <<gw, hostCommand, hostResult, runs>> /\ gw[g0] = "ready"
    BY <1>2 DEF HostSends, Transfer, vars
  <2>2. /\ spiPc' = "handle" /\ ~prepared' /\ rx' = hostCommand /\ hostPc' = "fetch"
        /\ runs = 0
    BY <1>2 DEF HostSends, Transfer
  <2>3. QED BY <2>1, <2>2 DEF FetchInv, HostDone
<1>3. CASE HostFetches
  <2>1. /\ gw' = gw /\ lastStatus' = lastStatus /\ runs' = runs /\ gw[g0] = "ready"
        /\ hostCommand' = hostCommand
    BY <1>3 DEF HostFetches, Transfer, vars
  <2>2. /\ spiPc' = "handle" /\ ~prepared' /\ rx' = Nop /\ hostPc' = "idle"
        /\ hostResult' = tx
    BY <1>3 DEF HostFetches, Transfer
  <2>3. RunsRight /\ AnswerRight(tx)
    BY <1>3 DEF HostFetches, Transfer, FetchInv
  <2>4. RunsRight' /\ AnswerRight(hostResult)'
    BY <2>1, <2>2, <2>3 DEF RunsRight, AnswerRight, ReadResponse, StatusResponse
  <2>5. QED BY <2>1, <2>2, <2>4
<1>4. QED BY <1>1, <1>2, <1>3 DEF Host

\* The SPI task, from one transfer to the next
LEMMA LinkTask ==
  ASSUME SpiInv, SpiTask
  PROVE  LinkInv'
<1> USE DEF SpiInv, LinkInv
<1>0. rx = hostCommand => rx # Nop
  BY NopIsNone DEF SpiTypes
<1>1. CASE SpiStarts
  BY <1>1 DEF SpiStarts, vars, hostVars, FetchInv, HostDone, RunsRight, AnswerRight
<1>2. CASE SpiPrepares
  BY <1>2 DEF SpiPrepares, vars, hostVars, FetchInv, HostDone, RunsRight, AnswerRight
<1>3. CASE SpiReturns
  <2>1. /\ hostPc = "fetch" /\ call[g0] = hostCommand.resource /\ runs = 1
        /\ OwnedBySome(hostCommand.resource) /\ rx = hostCommand
    BY <1>3 DEF SpiReturns, FetchInv
  <2>2. /\ UNCHANGED <<gw, lastStatus, rx, hostPc, hostCommand, hostResult, runs>>
        /\ spiPc' = "prepare" /\ ~prepared' /\ gw[g0] = "ready"
    BY <1>3 DEF SpiReturns, vars, hostVars
  <2>3. AnswerRight(tx)'
    BY <1>3, <2>1, <2>2 DEF SpiReturns, OneResponseByte, AnswerRight, ReadResponse, StatusResponse
  <2>4. RunsRight'
    BY <2>1, <2>2 DEF RunsRight
  <2>5. QED BY <2>1, <2>2, <2>3, <2>4 DEF FetchInv, HostDone
<1>4. ASSUME spiPc = "handle", rx # Nop
      PROVE  /\ hostPc = "fetch" /\ rx = hostCommand /\ runs = 0 /\ gw[g0] = "ready"
             /\ rx.resource \in Resources
             /\ Found(g0, rx.resource) <=> rx.resource = "special" \/ OwnedBySome(rx.resource)
             /\ ~prepared
  <2>1. /\ hostPc = "fetch" /\ rx = hostCommand /\ runs = 0 /\ gw[g0] = "ready"
        /\ rx.resource \in Resources /\ ~prepared
    BY <1>4 DEF FetchInv, SpiTypes, HostCommands
  <2>2. QED BY <2>1, FoundIsOwned, OneGateway
<1>5. CASE SpiCalls
  <2>1. /\ spiPc' = "transfer" /\ gw' = [gw EXCEPT ![g0] = "send"]
        /\ call' = [call EXCEPT ![g0] = rx.resource]
        /\ UNCHANGED <<gatewayQueue, up, held, result, lastStatus, prepared, rx, hostPc,
                       hostCommand, hostResult, runs>>
    BY <1>5 DEF SpiCalls, Begin, channelVars, servicerVars, hostVars
  <2>2. gw'[g0] = "send" /\ call'[g0] = rx.resource
    BY <2>1, OneGateway DEF LibraryInv, ControlInv, TypeInv, GatewayTypeOK
  <2>3. /\ hostPc = "fetch" /\ rx = hostCommand /\ runs = 0 /\ gw[g0] = "ready"
        /\ OwnedBySome(rx.resource) /\ ~prepared
    BY <1>4, <1>5 DEF SpiCalls, Begin
  <2>4. ~Executed'
    BY <2>1, <2>3, NotExecuted DEF Executed, Answers
  <2>5. QED BY <2>1, <2>2, <2>3, <2>4 DEF FetchInv, HostDone
<1>6. CASE SpiCallsSpecial
  <2>1. /\ spiPc' = "prepare" /\ UNCHANGED <<gw, prepared, rx, hostPc, hostCommand, hostResult, runs>>
    BY <1>6 DEF SpiCallsSpecial, Special, hostVars
  <2>2. /\ hostPc = "fetch" /\ rx = hostCommand /\ runs = 0 /\ gw[g0] = "ready" /\ ~prepared
    BY <1>4, <1>6 DEF SpiCallsSpecial
  <2>3. ~OwnedBySome(hostCommand.resource)
    BY <1>6, <2>2, ControlAssumption DEF SpiCallsSpecial, OwnedBySome
  <2>4. QED BY <2>1, <2>2, <2>3 DEF FetchInv, HostDone, RunsRight, AnswerRight
<1>7. CASE SpiResponds
  <2>1. /\ spiPc = "handle" /\ spiPc' = "prepare"
        /\ UNCHANGED <<gw, lastStatus, prepared, rx, hostPc, hostCommand, hostResult, runs>>
    BY <1>7 DEF SpiResponds, Refuse, hostVars, vars
  <2>2. CASE rx = Nop
    <3>1. hostPc # "fetch"
      BY <1>0, <2>2 DEF FetchInv
    <3>2. QED BY <2>1, <3>1 DEF HostDone, RunsRight, AnswerRight
  <2>3. CASE rx # Nop
    <3>1. /\ hostPc = "fetch" /\ rx = hostCommand /\ runs = 0 /\ gw[g0] = "ready" /\ ~prepared
      BY <1>4, <2>1, <2>3
    <3>2. ~OwnedBySome(hostCommand.resource)
      BY <1>4, <1>7, <2>1, <2>3, <3>1 DEF SpiResponds
    <3>3. QED BY <2>1, <3>1, <3>2 DEF FetchInv, HostDone, RunsRight, AnswerRight
  <2>4. QED BY <2>2, <2>3
<1>8. QED BY <1>1, <1>2, <1>3, <1>5, <1>6, <1>7 DEF SpiTask

\* The library's tasks, with the command in hand or none
LEMMA LinkLibrary ==
  ASSUME SpiInv, LibraryInv', ~Halted, Library
  PROVE  LinkInv'
<1> USE DEF SpiInv, LinkInv
<1>1. /\ UNCHANGED <<spiPc, prepared, rx, tx, hostPc, hostCommand, hostResult, runs>>
      /\ call' = call
  BY LibraryMoves DEF Library, spiVars, hostVars
<1>2. CASE spiPc = "transfer"
  <2>1. hostPc = "fetch" /\ FetchInv
    BY <1>2
  <2>2. gw'[g0] \in {"ready", "send", "wait"}
    BY <1>2, LibraryMoves
  <2>3. gw'[g0] = "ready" \/ Executed' <=> gw[g0] = "ready" \/ Executed
    BY <1>2, LibraryMoves, NotExecuted
  <2>4. FetchInv'
    BY <1>1, <1>2, <2>1, <2>3 DEF FetchInv
  <2>5. QED BY <1>1, <1>2, <2>1, <2>2, <2>4 DEF HostDone
<1>3. CASE spiPc # "transfer"
  <2>1. lastStatus' = lastStatus /\ gw'[g0] \notin {"send", "wait"}
    BY <1>3, LibraryMoves
  <2>2. spiPc # "boot" => gw'[g0] = "ready"
    BY <1>3, LibraryMoves
  <2>3. RunsRight' <=> RunsRight
    BY <1>1 DEF RunsRight
  <2>4. hostPc = "fetch" => FetchInv'
    BY <1>1, <1>3, <2>1, <2>3 DEF FetchInv, AnswerRight, ReadResponse, StatusResponse
  <2>5. HostDone => AnswerRight(hostResult)'
    BY <1>1, <2>1 DEF AnswerRight, ReadResponse, StatusResponse
  <2>6. QED BY <1>1, <1>3, <2>1, <2>2, <2>3, <2>4, <2>5 DEF HostDone
<1>4. QED BY <1>2, <1>3

LEMMA LinkExecutes ==
  ASSUME SpiInv, ServicerExecutes
  PROVE  LinkInv'
<1> USE DEF SpiInv, LinkInv
<1>1. PICK s \in Servicers : Execute(s)
  BY DEF ServicerExecutes
<1>2. gw[g0] = "wait" /\ ~Executed
  BY <1>1, InExecution DEF Execute
<1>3. spiPc = "transfer" /\ hostPc = "fetch" /\ runs = 0
  BY <1>2 DEF FetchInv
<1>4. /\ runs' = 1 /\ UNCHANGED <<spiPc, prepared, rx, tx, hostPc, hostCommand, hostResult>>
      /\ UNCHANGED <<gw, call, held>>
  BY <1>1, <1>3 DEF ServicerExecutes, spiVars, hostVars, Execute
<1>5. Executed'
  <2>1. held'[s] # {} /\ result'[s] # "none"
    BY <1>1 DEF Execute, LibraryInv, ControlInv, TypeInv, QueuesTypeOK, ServicerStatuses
  <2>2. QED BY <2>1 DEF Executed
<1>6. QED BY <1>2, <1>3, <1>4, <1>5 DEF FetchInv, HostDone


\* The input port and its task, which touch the status buffer alone
LEMMA LinkUntouched ==
  ASSUME LinkInv,
         UNCHANGED <<gw, call, lastStatus, gatewayQueue, up, held, result>>,
         UNCHANGED <<spiVars, hostVars, runs>>
  PROVE  LinkInv'
<1>1. UNCHANGED <<spiPc, prepared, rx, tx, hostPc, hostCommand, hostResult>>
  BY DEF spiVars, hostVars
<1>2. Executed' <=> Executed
  BY DEF Executed, Answers
<1>3. (RunsRight' <=> RunsRight) /\ (HostDone' <=> HostDone)
  BY <1>1 DEF RunsRight, HostDone
<1>4. /\ AnswerRight(tx)' <=> AnswerRight(tx)
      /\ AnswerRight(hostResult)' <=> AnswerRight(hostResult)
  BY <1>1 DEF AnswerRight, ReadResponse, StatusResponse
<1>5. FetchInv' <=> FetchInv
  BY <1>1, <1>2, <1>3, <1>4 DEF FetchInv
<1>6. QED BY <1>1, <1>3, <1>4, <1>5 DEF LinkInv

LEMMA PortKept ==
  ASSUME ~EarlyChanges, SpiTypes, LibraryInv, LinkInv, PortInv, [SpiNext]_spiControlVars
  PROVE  PortInv'
<1> USE OneGateway DEF PortInv
<1>1. CASE PortChanges
  BY <1>1 DEF PortChanges, StatusFollowsPort, vars
<1>2. CASE GpioCallback
  BY <1>2 DEF GpioCallback, StatusFollowsPort, vars
<1>3. CASE HandlerStarts \/ HandlerWakes \/ HandlerReads
  <2>1. CASE HandlerStarts
    BY <2>1 DEF HandlerStarts, StatusFollowsPort, vars
  <2>2. CASE HandlerWakes
    BY <2>2 DEF HandlerWakes, StatusFollowsPort, vars
  <2>3. CASE HandlerReads
    BY <2>3 DEF HandlerReads, StatusFollowsPort, vars
  <2>4. QED BY <1>3, <2>1, <2>2, <2>3
<1>4. CASE HandlerStores
  <2>1. statusBuffer'[g0] = sample
    BY <1>4 DEF HandlerStores, LibraryInv, ControlInv, TypeInv, GatewayTypeOK
  <2>2. QED BY <1>4, <2>1 DEF HandlerStores, StatusFollowsPort
<1>5. ASSUME UNCHANGED gpioVars, statusBuffer' = statusBuffer,
             gw'[g0] \in {"register", "clear", "halted"} =>
               gw[g0] \in {"register", "clear", "halted"}
      PROVE  PortInv'
  BY <1>5 DEF gpioVars, handlerVars, StatusFollowsPort
<1>6. CASE Host \/ HostCalls
  BY <1>5, <1>6 DEF Host, HostCalls, HostSends, HostFetches, Transfer, vars, statusVars
<1>7. CASE SpiTask
  <2>1. UNCHANGED gpioVars /\ statusBuffer' = statusBuffer
    BY <1>7 DEF SpiTask, SpiStarts, SpiResponds, SpiCalls, SpiCallsSpecial, SpiReturns,
                SpiPrepares, Refuse, Begin, Special, statusVars, vars
  <2>2. \/ gw' = gw
        \/ gw' = [gw EXCEPT ![g0] = "send"]
    BY <1>7 DEF SpiTask, SpiStarts, SpiResponds, SpiCalls, SpiCallsSpecial, SpiReturns,
                SpiPrepares, Refuse, Begin, Special, vars
  <2>3. QED BY <1>5, <2>1, <2>2 DEF LibraryInv, ControlInv, TypeInv, GatewayTypeOK
<1>8. CASE ServicerExecutes
  BY <1>5, <1>8 DEF ServicerExecutes, Execute, statusVars
<1>9. CASE Library
  <2>1. UNCHANGED gpioVars
    BY <1>9 DEF Library
  <2>2. CASE ClearStatus(g0)
    BY <2>1, <2>2 DEF ClearStatus, gpioVars, handlerVars, StatusFollowsPort
  <2>3. CASE ~ClearStatus(g0)
    <3>1. statusBuffer' = statusBuffer
      BY <1>9, <2>3 DEF Library, Gateway, Sends, Register, TakeRegistration,
           RegistrationFails, AllocateStatus, SendOnTile, SendOffTile, TakeAnswer,
           ClientReceive, ClientForward, Receive, Reply, statusVars
    <3>2. gw'[g0] \in {"register", "clear", "halted"} =>
            gw[g0] \in {"register", "clear", "halted"}
      BY <1>9, <2>3 DEF Library, Gateway, Sends, Register, TakeRegistration,
           RegistrationFails, AllocateStatus, SendOnTile, SendOffTile, TakeAnswer,
           ClientReceive, ClientForward, Receive, Reply, LibraryInv, ControlInv, TypeInv,
           GatewayTypeOK
    <3>3. QED BY <1>5, <2>1, <3>1, <3>2
  <2>4. QED BY <2>2, <2>3
<1>10. CASE UNCHANGED spiControlVars
  BY <1>5, <1>10 DEF spiControlVars, vars, statusVars
<1>11. QED
  BY <1>1, <1>2, <1>3, <1>4, <1>6, <1>7, <1>8, <1>9, <1>10 DEF SpiNext, Handler

\* The sample is a value of the port, which the status buffer is to hold.
SampleOK == sample \in PortValues /\ port \in PortValues

LEMMA SampleKept ==
  ASSUME SampleOK, [SpiNext]_spiControlVars
  PROVE  SampleOK'
BY DEF SampleOK, SpiNext, HostCalls, Host, HostSends, HostFetches, Transfer, SpiTask,
       SpiStarts, SpiResponds, SpiCalls, SpiCallsSpecial, SpiReturns, SpiPrepares,
       PortChanges, GpioCallback, Handler, HandlerStarts, HandlerWakes, HandlerReads,
       HandlerStores, Library, ServicerExecutes, gpioVars, handlerVars, spiControlVars

LEMMA SpiKept ==
  SpiInv /\ SampleOK /\ [SpiNext]_spiControlVars => SpiInv'
<1> SUFFICES ASSUME SpiInv, SampleOK, [SpiNext]_spiControlVars PROVE SpiInv'
  OBVIOUS
<1>1. SpiTypes'
  BY SpiTypesKept DEF SpiInv
<1>2. LibraryInv'
  BY SpiStepIsNext, LibraryStep, StatusStored DEF SpiInv, SampleOK
<1>3. LinkInv'
  <2>1. CASE PortChanges \/ GpioCallback \/ Handler \/ UNCHANGED spiControlVars
    <3>1. UNCHANGED <<gw, call, lastStatus, gatewayQueue, up, held, result>>
      BY <2>1 DEF PortChanges, GpioCallback, Handler, HandlerStarts, HandlerWakes,
                  HandlerReads, HandlerStores, spiControlVars, vars, channelVars,
                  servicerVars
    <3>2. UNCHANGED <<spiVars, hostVars, runs>>
      BY <2>1 DEF PortChanges, GpioCallback, Handler, HandlerStarts, HandlerWakes,
                  HandlerReads, HandlerStores, spiControlVars
    <3>3. QED BY <3>1, <3>2, LinkUntouched DEF SpiInv
  <2>2. QED BY <1>2, <2>1, LinkHost, LinkTask, LinkLibrary, LinkExecutes DEF SpiNext
<1>4. QED BY <1>1, <1>2, <1>3 DEF SpiInv

LEMMA SpiAlways == SpiSpec => [](SpiInv /\ SampleOK)
<1>1. SpiInit => SampleOK
  BY SpiAssumption DEF SpiInit, SampleOK
<1>2. SampleOK /\ [SpiNext]_spiControlVars => SampleOK'
  BY SampleKept
<1>3. QED BY <1>1, <1>2, SpiInitially, SpiKept, PTL DEF SpiSpec

\* Though nothing tells the host what was ignored and it repeats its transfers,
\* each of its commands is executed once if a servicer registered the resource,
\* and otherwise not at all, for any servicers and resources, on either tile.
THEOREM SpiExecutesOnce == SpiSpec => []ExecutedOnce
<1>1. SpiInv => ExecutedOnce
  BY DEF SpiInv, LinkInv, ExecutedOnce, RunsRight, OwnedBySome
<1>2. QED BY <1>1, SpiAlways, PTL

\* What the host reads over SPI is the response to its own command: the
\* servicer's payload and status, or, for a write or a read of one byte, the
\* response that the transport puts in its place.
THEOREM SpiAnswerIsOwn == SpiSpec => []AnswerIsOwn
<1>1. SpiInv => AnswerIsOwn
  BY DEF SpiInv, LinkInv, AnswerIsOwn, AnswerRight, OwnedBySome
<1>2. QED BY <1>1, SpiAlways, PTL

\* Once a change of the input port was handled and none is on its way, the
\* status buffer shows the port, if the port did not change before the library
\* had cleared the buffer.
THEOREM StatusFollows == ~EarlyChanges => (SpiSpec => []StatusFollowsPort)
<1> SUFFICES ASSUME ~EarlyChanges PROVE SpiSpec => []StatusFollowsPort
  OBVIOUS
<1>1. SpiInit => PortInv
  BY SpiAssumption, OneGateway DEF SpiInit, PortInv, StatusFollowsPort
<1>2. SpiInv /\ PortInv /\ [SpiNext]_spiControlVars => PortInv'
  BY PortKept DEF SpiInv
<1>3. PortInv => StatusFollowsPort
  BY DEF PortInv
<1>4. QED BY <1>1, <1>2, <1>3, SpiAlways, PTL DEF SpiSpec


-----------------------------------------------------------------------------
(***************************************************************************)
(* The I2C and USB transports.  At most the last transfer the device has   *)
(* yet to handle is one the host waits for; all before it are late ones of *)
(* commands the host gave up.  A transfer that relies on the request of    *)
(* the one before is the first in the queue, so that nothing comes between *)
(* them.                                                                   *)
(***************************************************************************)
PendingTransfers == [kind : Transfers, command : HostCommand, got : Received, live : BOOLEAN]

TransportTypes ==
  /\ transport \in {"i2c", "usb"}
  /\ requested \in HostCommand /\ hostCall \in HostCommand
  /\ pending \in Seq(PendingTransfers)
  /\ hostStep \in {"idle", "write", "data", "status", "read"}
  /\ received \in Received /\ ran \in Nat /\ stray \in BOOLEAN

\* The device's request is that of command c.  It keeps no more than the
\* resource of a command that nobody owns.
Fits(c) ==
  requested.resource = c.resource /\ (Known(c.resource) => requested.read = c.read)

WaitedFor(t) ==
  /\ t.got = received
  /\ t.command.resource = hostCall.resource /\ t.command.read = hostCall.read
  /\ hostStep = "write" =>
       /\ t.command = hostCall
       /\ t.kind = IF transport = "i2c" THEN "i2c_write" ELSE "usb_setup_out"
  /\ hostStep = "data" => t.kind = "usb_data"
  /\ hostStep \in {"status", "read"} =>
       t.kind = IF transport = "i2c" THEN "i2c_read" ELSE "usb_setup_in"

PendingInv ==
  /\ \A k \in 1 .. Len(pending) : pending[k].live =>
       /\ k = Len(pending) /\ hostStep # "idle" /\ hostReply = None
       /\ WaitedFor(pending[k])
  /\ \A k \in 1 .. Len(pending) :
       pending[k].kind \in {"usb_data", "i2c_read"} /\ pending[k].got # "less" =>
         k = 1 /\ Fits(pending[k].command)
  /\ hostStep \in {"data", "status"} \/ (hostStep = "read" /\ transport = "i2c") =>
       \A k \in 1 .. Len(pending) : pending[k].live
  /\ hostStep # "idle" /\ hostReply # None => pending = <<>>

\* Where the host's program is with the command
ProgramInv ==
  /\ transport = "usb" => received = "all"
  /\ hostCall.read => ~hostCall.empty /\ received # "header"
  /\ hostStep = "write" /\ transport = "usb" => ~hostCall.read
  /\ hostStep = "write" /\ hostReply = Done =>
       /\ received # "less" => Fits(hostCall)
       /\ transport = "usb" => Known(hostCall.resource)
  /\ hostStep = "write" => hostReply \in {None, Done, Failed}
  /\ hostStep = "data" =>
       /\ transport = "usb" /\ ~hostCall.read /\ ~hostCall.empty
       /\ Known(hostCall.resource) /\ hostReply \in {None, Done}
  /\ hostStep = "status" => ~hostCall.read /\ (transport = "usb" => Known(hostCall.resource))
  /\ hostStep = "read" => hostCall.read /\ (transport = "i2c" => received = "all")

\* What a command has come to: what it returns, and whether it was run
RanAsOwned == ran = IF hostCall.resource \in OwnedResources THEN 1 ELSE 0
NeverSent == transport = "usb" /\ ~hostCall.read /\ hostCall.empty
TooShort == received = "header" /\ ~hostCall.empty /\ Known(hostCall.resource)

RightReply(reply) ==
  /\ NeverSent => ran = 0
  /\ ~NeverSent /\ received # "less" /\ TooShort =>
       ran = 0 /\ reply = StatusIs("DATA_LENGTH_ERROR")
  /\ ~NeverSent /\ received # "less" /\ ~TooShort => reply \in Expected /\ RanAsOwned

\* last_status, from the end of a write until the host has read it
RightStatus ==
  /\ NeverSent \/ received = "less" => ran = 0
  /\ ~NeverSent /\ received # "less" /\ TooShort =>
       ran = 0 /\ last_status = "DATA_LENGTH_ERROR"
  /\ ~NeverSent /\ received # "less" /\ ~TooShort =>
       /\ RanAsOwned
       /\ Known(hostCall.resource) => StatusIs(last_status) \in Expected

Written ==
  /\ ~hostCall.read
  /\ \/ hostStep = "write" /\ hostReply = Done /\ (transport = "i2c" \/ hostCall.empty)
     \/ hostStep = "data" /\ hostReply = Done
     \/ hostStep = "status" /\ hostReply = None

RunInv ==
  /\ RunsOnlyWhatWasAsked
  /\ hostStep \in {"write", "data", "read"} /\ hostReply = None => ran = 0
  /\ hostStep = "write" /\ (transport = "usb" \/ hostCall.read) => ran = 0
  /\ Written => RightStatus
  /\ hostStep \in {"status", "read"} /\ hostReply \notin {None, Failed} => RightReply(hostReply)
  /\ hostStep = "idle" /\ hostReturned \notin {None, Failed} => RightReply(hostReturned)

TransportInv == TransportTypes /\ PendingInv /\ ProgramInv /\ RunInv

LEMMA TransportStarts == TransportInit => TransportInv
<1> SUFFICES ASSUME TransportInit PROVE TransportInv
  OBVIOUS
<1>1. TransportTypes
  <2>1. PICK c : c = [resource |-> "special", read |-> FALSE, empty |-> FALSE]
    OBVIOUS
  <2>2. c \in HostCommand
    BY <2>1 DEF HostCommand
  <2>3. requested = c /\ hostCall = c
    BY <2>1 DEF TransportInit
  <2>4. pending \in Seq(PendingTransfers)
    BY DEF TransportInit
  <2>5. /\ transport \in {"i2c", "usb"} /\ hostStep = "idle"
        /\ received = "all" /\ ran = 0 /\ stray = FALSE
    BY DEF TransportInit
  <2>6. hostStep \in {"idle", "write", "data", "status", "read"} /\ received \in Received
    BY <2>5 DEF Received
  <2>7. QED BY <2>2, <2>3, <2>4, <2>5, <2>6 DEF TransportTypes
<1>2. PendingInv
  BY DEF TransportInit, PendingInv
<1>3. ProgramInv
  BY DEF TransportInit, ProgramInv
<1>4. RunInv
  BY DEF TransportInit, RunInv, RunsOnlyWhatWasAsked, Written
<1>5. QED BY <1>1, <1>2, <1>3, <1>4 DEF TransportInv

LEMMA Replies ==
  /\ None # Failed /\ None # Done /\ Done # Failed
  /\ \A st : StatusIs(st) \notin {None, Failed, Done}
  /\ \A r, st : DataOf(r, st) \notin {None, Failed, Done}
BY DEF None, Failed, Done, StatusIs, DataOf

LEMMA PayloadIsReply == \A payload \in Payloads : payload \notin {None, Failed, Done}
BY Replies DEF Payloads

\* What Expected says of each resource
ExpectedOfEach ==
  /\ hostCall.resource = "unknown" =>
       Expected = {IF transport = "usb" THEN Failed ELSE StatusIs("BAD_RESOURCE")}
  /\ hostCall.resource = "special" =>
       Expected = IF hostCall.read
                  THEN {DataOf("special", st) : st \in {"SUCCESS", "BAD_COMMAND"}}
                  ELSE {StatusIs("BAD_COMMAND")}
  /\ hostCall.resource \in OwnedResources =>
       Expected = {IF hostCall.read THEN DataOf(hostCall.resource, answered)
                   ELSE StatusIs(answered)}

LEMMA ExpectedMeans == ExpectedOfEach
<1> USE DEF ExpectedOfEach
<1>1. "unknown" \notin OwnedResources /\ "special" \notin OwnedResources
  BY TransportAssumption
<1>2. CASE hostCall.resource = "unknown"
  BY <1>1, <1>2, Zenon DEF Expected
<1>3. CASE hostCall.resource = "special"
  <2>1. hostCall.resource # "unknown" /\ hostCall.resource \notin OwnedResources
    BY <1>1, <1>3
  <2>2. CASE hostCall.read
    <3>1. Expected = {DataOf("special", st) : st \in {"SUCCESS", "BAD_COMMAND"}}
      BY <1>3, <2>1, <2>2, Zenon DEF Expected
    <3>2. QED BY <1>3, <2>1, <2>2, <3>1
  <2>3. CASE ~hostCall.read
    <3>1. Expected = {StatusIs("BAD_COMMAND")}
      BY <1>3, <2>1, <2>3, Zenon DEF Expected
    <3>2. QED BY <1>3, <2>1, <2>3, <3>1
  <2>4. QED BY <2>2, <2>3
<1>4. CASE hostCall.resource \in OwnedResources
  <2>1. hostCall.resource # "unknown" /\ hostCall.resource # "special"
    BY <1>1, <1>4
  <2>2. CASE hostCall.read
    <3>1. Expected = {DataOf(hostCall.resource, answered)}
      BY <1>4, <2>1, <2>2, Zenon DEF Expected
    <3>2. QED BY <2>1, <2>2, <3>1
  <2>3. CASE ~hostCall.read
    <3>1. Expected = {StatusIs(answered)}
      BY <1>4, <2>1, <2>3, Zenon DEF Expected
    <3>2. QED BY <2>1, <2>3, <3>1
  <2>4. QED BY <2>2, <2>3
<1>5. QED BY <1>2, <1>3, <1>4

LEMMA ExpectedNext == ExpectedOfEach'
BY ExpectedMeans, PTL

\* A transfer of the host's is the last in the queue.
LEMMA PendingLonger ==
  ASSUME TransportTypes, NEW t \in PendingTransfers, pending' = Append(pending, t)
  PROVE  /\ pending' \in Seq(PendingTransfers) /\ Len(pending') = Len(pending) + 1
         /\ \A k \in 1 .. Len(pending) : pending'[k] = pending[k]
         /\ pending'[Len(pending')] = t
         /\ \A k \in 1 .. Len(pending') : k \in 1 .. Len(pending) \/ k = Len(pending')
         /\ Len(pending) \in Nat
<1>1. /\ pending' \in Seq(PendingTransfers) /\ Len(pending') = Len(pending) + 1
      /\ \A k \in 1 .. Len(pending) : pending'[k] = pending[k]
      /\ pending'[Len(pending')] = t /\ Len(pending) \in Nat
  BY DEF TransportTypes
<1>2. QED BY <1>1

LEMMA PendingShorter ==
  ASSUME TransportTypes, pending # <<>>, pending' = Tail(pending)
  PROVE  /\ pending' \in Seq(PendingTransfers) /\ Len(pending') = Len(pending) - 1
         /\ Head(pending) = pending[1] /\ 1 \in 1 .. Len(pending)
         /\ Head(pending) \in PendingTransfers
         /\ \A k \in 1 .. Len(pending') :
              k + 1 \in 2 .. Len(pending) /\ pending'[k] = pending[k + 1]
<1>1. /\ pending' \in Seq(PendingTransfers) /\ Len(pending') = Len(pending) - 1
      /\ Head(pending) = pending[1] /\ Len(pending) \in Nat \ {0}
      /\ \A k \in 1 .. Len(pending') : pending'[k] = pending[k + 1]
  BY DEF TransportTypes
<1>2. pending[1] \in PendingTransfers
  BY <1>1 DEF TransportTypes
<1>3. QED BY <1>1, <1>2

LEMMA PendingDropped ==
  ASSUME TransportTypes, pending # <<>>,
         pending' = SubSeq(pending, 1, Len(pending) - 1)
  PROVE  /\ pending' \in Seq(PendingTransfers) /\ Len(pending') = Len(pending) - 1
         /\ \A k \in 1 .. Len(pending') :
              k \in 1 .. Len(pending) /\ k # Len(pending) /\ pending'[k] = pending[k]
<1>1. Len(pending) \in Nat \ {0} /\ pending \in Seq(PendingTransfers)
  BY DEF TransportTypes
<1>2. /\ 1 \in Int /\ Len(pending) - 1 \in Int
      /\ \A k \in 1 .. Len(pending) - 1 : pending[k] \in PendingTransfers
  BY <1>1
<1>3. /\ pending' \in Seq(PendingTransfers) /\ Len(pending') = Len(pending) - 1
      /\ \A k \in 1 .. Len(pending') : pending'[k] = pending[k]
  <2>1. /\ SubSeq(pending, 1, Len(pending) - 1) \in Seq(PendingTransfers)
        /\ Len(SubSeq(pending, 1, Len(pending) - 1)) =
             IF 1 <= Len(pending) - 1 THEN Len(pending) - 1 - 1 + 1 ELSE 0
        /\ \A k \in 1 .. Len(pending) - 1 - 1 + 1 :
             SubSeq(pending, 1, Len(pending) - 1)[k] = pending[1 + k - 1]
    BY <1>1, <1>2, SubSeqProperties
  <2>2. PICK n \in Nat : n = Len(pending) - 1
    BY <1>1
  <2>3. /\ pending' \in Seq(PendingTransfers)
        /\ Len(pending') = IF 1 <= n THEN n - 1 + 1 ELSE 0
        /\ \A k \in 1 .. n - 1 + 1 : pending'[k] = pending[1 + k - 1]
    BY <2>1, <2>2
  <2>4. Len(pending') = n /\ n - 1 + 1 = n
    BY <2>2, <2>3
  <2>5. \A k \in 1 .. n : k \in 1 .. n - 1 + 1 /\ 1 + k - 1 = k
    BY <2>2
  <2>6. QED BY <2>2, <2>3, <2>4, <2>5
<1>4. QED BY <1>1, <1>3

LEMMA PendingGivenUp ==
  ASSUME TransportTypes,
         pending' = [k \in DOMAIN pending |-> [pending[k] EXCEPT !.live = FALSE]]
  PROVE  /\ pending' \in Seq(PendingTransfers) /\ Len(pending') = Len(pending)
         /\ \A k \in 1 .. Len(pending) :
              /\ ~pending'[k].live /\ pending'[k].kind = pending[k].kind
              /\ pending'[k].got = pending[k].got
              /\ pending'[k].command = pending[k].command
<1>1. pending \in Seq(PendingTransfers) /\ Len(pending) \in Nat
      /\ DOMAIN pending = 1 .. Len(pending)
  BY DEF TransportTypes
<1>2. \A k \in 1 .. Len(pending) :
        /\ pending[k] \in PendingTransfers
        /\ pending'[k] = [pending[k] EXCEPT !.live = FALSE]
  BY <1>1
<1>3. \A k \in 1 .. Len(pending) :
        /\ pending'[k] \in PendingTransfers
        /\ ~pending'[k].live /\ pending'[k].kind = pending[k].kind
        /\ pending'[k].got = pending[k].got /\ pending'[k].command = pending[k].command
  <2>1. \A t \in PendingTransfers :
          LET u == [t EXCEPT !.live = FALSE] IN
          /\ u \in PendingTransfers
          /\ ~u.live /\ u.kind = t.kind /\ u.got = t.got /\ u.command = t.command
    BY DEF PendingTransfers
  <2>2. QED BY <1>2, <2>1
<1>4. pending' \in Seq(PendingTransfers) /\ Len(pending') = Len(pending)
  <2>1. pending' \in [1 .. Len(pending) -> PendingTransfers]
    BY <1>1, <1>3
  <2>2. QED BY <1>1, <2>1
<1>5. QED BY <1>3, <1>4

-----------------------------------------------------------------------------
(***************************************************************************)
(* The steps of the host                                                   *)
(***************************************************************************)
\* A live transfer joins an empty queue, or a queue of late ones if it does not
\* rely on the request of the one before.
LEMMA TransferStarts ==
  ASSUME TransportInv, NEW t \in PendingTransfers, pending' = Append(pending, t), t.live,
         hostReply' = None, UNCHANGED requested,
         \A k \in 1 .. Len(pending) : ~pending[k].live,
         hostStep' # "idle", WaitedFor(t)',
         t.kind \in {"usb_data", "i2c_read"} =>
           pending = <<>> /\ (t.got # "less" => Fits(t.command)),
         hostStep' \in {"data", "status"} \/ (hostStep' = "read" /\ transport' = "i2c") =>
           pending = <<>>
  PROVE  PendingInv' /\ pending' \in Seq(PendingTransfers)
<1>1. /\ pending' \in Seq(PendingTransfers) /\ Len(pending') = Len(pending) + 1
      /\ \A k \in 1 .. Len(pending) : pending'[k] = pending[k]
      /\ pending'[Len(pending')] = t
      /\ \A k \in 1 .. Len(pending') : k \in 1 .. Len(pending) \/ k = Len(pending')
      /\ Len(pending) \in Nat
  BY PendingLonger DEF TransportInv
<1>2. \A c : Fits(c)' <=> Fits(c)
  BY DEF Fits
<1>3. ASSUME NEW k \in 1 .. Len(pending'), pending'[k].live
      PROVE  k = Len(pending') /\ WaitedFor(pending[k])'
  BY <1>1, <1>3
<1>4. ASSUME NEW k \in 1 .. Len(pending'),
             pending'[k].kind \in {"usb_data", "i2c_read"}, pending'[k].got # "less"
      PROVE  k = 1 /\ Fits(pending[k].command)'
  <2>1. CASE k \in 1 .. Len(pending)
    BY <1>1, <1>2, <1>4, <2>1 DEF TransportInv, PendingInv
  <2>2. CASE k = Len(pending')
    <3>1. pending'[k] = t /\ pending = <<>>
      BY <1>1, <1>4, <2>2
    <3>2. Len(pending) = 0 /\ k = 1
      BY <1>1, <2>2, <3>1
    <3>3. QED BY <1>2, <1>4, <3>1, <3>2
  <2>3. QED BY <1>1, <2>1, <2>2
<1>5. ASSUME hostStep' \in {"data", "status"} \/ (hostStep' = "read" /\ transport' = "i2c"),
             NEW k \in 1 .. Len(pending')
      PROVE  pending'[k].live
  <2>1. Len(pending) = 0
    BY <1>5
  <2>2. k = Len(pending')
    BY <1>1, <2>1
  <2>3. QED BY <1>1, <2>2
<1>6. QED BY <1>1, <1>3, <1>4, <1>5 DEF PendingInv

LEMMA StartsKept == ASSUME TransportInv, HostStarts PROVE TransportInv'
<1>1. PICK c \in HostCommand, got \in Received :
        /\ c.read => ~c.empty
        /\ got # "all" => transport = "i2c"
        /\ c.read => got # "header"
        /\ hostCall' = c
        /\ StartTransfer(CASE transport = "i2c" -> "i2c_write"
                           [] transport = "usb" /\ c.read -> "usb_setup_in"
                           [] OTHER -> "usb_setup_out", c, got)
        /\ hostStep' = IF transport = "usb" /\ c.read THEN "read" ELSE "write"
  BY DEF HostStarts
<1>2. /\ hostStep = "idle" /\ hostReturned' = None /\ ran' = 0 /\ stray' = FALSE
      /\ answered' = "none" /\ UNCHANGED <<transport, requested, last_status>>
  BY DEF HostStarts, deviceVars
<1>3. PICK kind : kind = CASE transport = "i2c" -> "i2c_write"
                           [] transport = "usb" /\ c.read -> "usb_setup_in"
                           [] OTHER -> "usb_setup_out"
  OBVIOUS
<1>4. transport \in {"i2c", "usb"}
  BY DEF TransportInv, TransportTypes
<1>5. /\ transport = "i2c" => kind = "i2c_write"
      /\ transport = "usb" /\ c.read => kind = "usb_setup_in"
      /\ transport = "usb" /\ ~c.read => kind = "usb_setup_out"
  <2>1. CASE transport = "i2c"
    BY <1>3, <2>1
  <2>2. CASE transport = "usb" /\ c.read
    BY <1>3, <2>2
  <2>3. CASE transport = "usb" /\ ~c.read
    BY <1>3, <2>3
  <2>4. QED BY <1>4, <2>1, <2>2, <2>3
<1>6. PICK t : t = [kind |-> kind, command |-> c, got |-> got, live |-> TRUE]
  OBVIOUS
<1>7. /\ t \in PendingTransfers /\ t.kind = kind /\ t.command = c /\ t.got = got /\ t.live
  BY <1>1, <1>4, <1>5, <1>6 DEF PendingTransfers, Transfers
<1>8. pending' = Append(pending, t) /\ hostReply' = None /\ received' = got
  BY <1>1, <1>3, <1>6 DEF StartTransfer
<1>9. PendingInv' /\ pending' \in Seq(PendingTransfers)
  <2>1. \A k \in 1 .. Len(pending) : ~pending[k].live
    BY <1>2 DEF TransportInv, PendingInv
  <2>2. WaitedFor(t)'
    BY <1>1, <1>2, <1>4, <1>5, <1>7, <1>8 DEF WaitedFor
  <2>3. QED BY <1>1, <1>2, <1>4, <1>5, <1>7, <1>8, <2>1, <2>2, TransferStarts
<1>10. TransportTypes'
  BY <1>1, <1>2, <1>8, <1>9 DEF TransportInv, TransportTypes
<1>11. ProgramInv'
  BY <1>1, <1>2, <1>4, <1>8, Replies DEF ProgramInv
<1>12. RunInv'
  BY <1>1, <1>2, <1>8, Replies DEF RunInv, RunsOnlyWhatWasAsked, Written
<1>13. QED BY <1>9, <1>10, <1>11, <1>12 DEF TransportInv

\* The reply to the transfer before has come, and nothing is pending any more.
LEMMA GoesOn ==
  ASSUME TransportInv, hostStep # "idle", hostReply = Done
  PROVE  /\ pending = <<>> /\ \A k \in 1 .. Len(pending) : ~pending[k].live
         /\ hostStep = "write" /\ received # "less" => Fits(hostCall)
<1>1. pending = <<>>
  BY Replies DEF TransportInv, PendingInv
<1>2. QED BY <1>1 DEF TransportInv, ProgramInv

LEMMA ReadsI2cKept == ASSUME TransportInv, HostReadsI2c PROVE TransportInv'
<1>1. /\ transport = "i2c" /\ hostStep = "write" /\ hostReply = Done
      /\ hostCall.read => received = "all"
      /\ hostStep' = IF hostCall.read THEN "read" ELSE "status"
      /\ UNCHANGED <<transport, requested, last_status, hostCall, hostReturned, answered,
                     ran, stray>>
  BY DEF HostReadsI2c, deviceVars, historyVars
<1>2. PICK t : t = [kind |-> "i2c_read", command |-> hostCall, got |-> received,
                    live |-> TRUE]
  OBVIOUS
<1>3. /\ t \in PendingTransfers /\ t.kind = "i2c_read" /\ t.command = hostCall
      /\ t.got = received /\ t.live
  BY <1>2 DEF PendingTransfers, Transfers, TransportInv, TransportTypes
<1>4. pending' = Append(pending, t) /\ hostReply' = None /\ received' = received
  BY <1>2 DEF HostReadsI2c, StartTransfer
<1>5. PendingInv' /\ pending' \in Seq(PendingTransfers)
  <2>1. WaitedFor(t)'
    BY <1>1, <1>3, <1>4 DEF WaitedFor
  <2>2. QED BY <1>1, <1>3, <1>4, <2>1, GoesOn, TransferStarts
<1>6. TransportTypes'
  BY <1>1, <1>4, <1>5 DEF TransportInv, TransportTypes
<1>7. ProgramInv'
  BY <1>1, <1>4, Replies DEF TransportInv, ProgramInv, Fits
<1>8. RightStatus' <=> RightStatus
  BY <1>1, <1>4 DEF RightStatus, NeverSent, TooShort, RanAsOwned, Expected
<1>9. RunInv'
  BY <1>1, <1>4, <1>8, Replies DEF TransportInv, RunInv, RunsOnlyWhatWasAsked, Written
<1>10. QED BY <1>5, <1>6, <1>7, <1>9 DEF TransportInv

LEMMA SendsDataKept == ASSUME TransportInv, HostSendsData PROVE TransportInv'
<1>1. /\ transport = "usb" /\ hostStep = "write" /\ hostReply = Done /\ ~hostCall.empty
      /\ hostStep' = "data"
      /\ UNCHANGED <<transport, requested, last_status, hostCall, hostReturned, answered,
                     ran, stray>>
  BY DEF HostSendsData, deviceVars, historyVars
<1>2. PICK t : t = [kind |-> "usb_data", command |-> hostCall, got |-> received,
                    live |-> TRUE]
  OBVIOUS
<1>3. /\ t \in PendingTransfers /\ t.kind = "usb_data" /\ t.command = hostCall
      /\ t.got = received /\ t.live
  BY <1>2 DEF PendingTransfers, Transfers, TransportInv, TransportTypes
<1>4. pending' = Append(pending, t) /\ hostReply' = None /\ received' = received
  BY <1>2 DEF HostSendsData, StartTransfer
<1>5. PendingInv' /\ pending' \in Seq(PendingTransfers)
  <2>1. WaitedFor(t)'
    BY <1>1, <1>3, <1>4 DEF WaitedFor
  <2>2. QED BY <1>1, <1>3, <1>4, <2>1, GoesOn, TransferStarts
<1>6. TransportTypes'
  BY <1>1, <1>4, <1>5 DEF TransportInv, TransportTypes
<1>7. ProgramInv'
  BY <1>1, <1>4, Replies DEF TransportInv, ProgramInv, Fits
<1>8. RunInv'
  BY <1>1, <1>4, Replies DEF TransportInv, RunInv, RunsOnlyWhatWasAsked, Written
<1>9. QED BY <1>5, <1>6, <1>7, <1>8 DEF TransportInv

LEMMA ReadsStatusKept == ASSUME TransportInv, HostReadsStatus PROVE TransportInv'
<1>1. /\ transport = "usb" /\ hostReply = Done
      /\ (hostStep = "write" => hostCall.empty) /\ hostStep \in {"write", "data"}
      /\ hostStep' = "status"
      /\ UNCHANGED <<transport, requested, last_status, hostCall, hostReturned, answered,
                     ran, stray>>
  BY DEF HostReadsStatus, deviceVars, historyVars
<1>2. PICK c : c = [hostCall EXCEPT !.empty = FALSE]
  OBVIOUS
<1>3. c \in HostCommand /\ c.resource = hostCall.resource /\ c.read = hostCall.read
  BY <1>2 DEF TransportInv, TransportTypes, HostCommand
<1>4. PICK t : t = [kind |-> "usb_setup_in", command |-> c, got |-> received, live |-> TRUE]
  OBVIOUS
<1>5. /\ t \in PendingTransfers /\ t.kind = "usb_setup_in" /\ t.command = c
      /\ t.got = received /\ t.live
  BY <1>3, <1>4 DEF PendingTransfers, Transfers, TransportInv, TransportTypes
<1>6. pending' = Append(pending, t) /\ hostReply' = None /\ received' = received
  BY <1>2, <1>4 DEF HostReadsStatus, StartTransfer
<1>7. PendingInv' /\ pending' \in Seq(PendingTransfers)
  <2>1. WaitedFor(t)'
    BY <1>1, <1>3, <1>5, <1>6 DEF WaitedFor
  <2>2. QED BY <1>1, <1>3, <1>5, <1>6, <2>1, GoesOn, TransferStarts
<1>8. TransportTypes'
  BY <1>1, <1>6, <1>7 DEF TransportInv, TransportTypes
<1>9. ProgramInv'
  BY <1>1, <1>6, Replies DEF TransportInv, ProgramInv, Fits
<1>10. RightStatus' <=> RightStatus
  BY <1>1, <1>6 DEF RightStatus, NeverSent, TooShort, RanAsOwned, Expected
<1>11. RunInv'
  BY <1>1, <1>6, <1>10, Replies
     DEF TransportInv, ProgramInv, RunInv, RunsOnlyWhatWasAsked, Written
<1>12. QED BY <1>7, <1>8, <1>9, <1>11 DEF TransportInv

LEMMA ReturnsKept == ASSUME TransportInv, HostReturns PROVE TransportInv'
<1>1. /\ hostReply # None /\ (hostStep \in {"status", "read"} \/ hostReply = Failed)
      /\ hostStep' = "idle" /\ hostReturned' = hostReply
      /\ UNCHANGED <<transport, requested, last_status, pending, hostCall, hostReply,
                     received, answered, ran, stray>>
  BY DEF HostReturns, deviceVars, historyVars
<1>2. TransportTypes'
  BY <1>1 DEF TransportInv, TransportTypes
<1>3. PendingInv'
  <2>1. \A k \in 1 .. Len(pending) : ~pending[k].live
    BY <1>1 DEF TransportInv, PendingInv
  <2>2. \A c : Fits(c)' <=> Fits(c)
    BY <1>1 DEF Fits
  <2>3. QED BY <1>1, <2>1, <2>2 DEF TransportInv, PendingInv
<1>4. ProgramInv'
  BY <1>1 DEF TransportInv, ProgramInv
<1>5. RightReply(hostReply)' <=> RightReply(hostReply)
  BY <1>1 DEF RightReply, NeverSent, TooShort, RanAsOwned, Expected
<1>6. hostReply # Failed => RightReply(hostReply)
  BY <1>1 DEF TransportInv, RunInv
<1>7. hostReply # Failed => RightReply(hostReturned)'
  BY <1>1, <1>5, <1>6
<1>8. RunInv'
  BY <1>1, <1>7 DEF TransportInv, RunInv, RunsOnlyWhatWasAsked, Written
<1>9. QED BY <1>2, <1>3, <1>4, <1>8 DEF TransportInv

LEMMA GivesUpKept == ASSUME TransportInv, HostGivesUp PROVE TransportInv'
<1>1. /\ hostStep # "idle" /\ hostStep' = "idle" /\ hostReturned' = Failed
      /\ hostReply' = None
      /\ UNCHANGED <<transport, requested, last_status, hostCall, received, answered, ran,
                     stray>>
  BY DEF HostGivesUp, deviceVars, historyVars
<1>2. \A c : Fits(c)' <=> Fits(c)
  BY <1>1 DEF Fits
<1>3. pending' \in Seq(PendingTransfers) /\ PendingInv'
  <2>1. CASE pending' = [k \in DOMAIN pending |-> [pending[k] EXCEPT !.live = FALSE]]
    <3>1. /\ pending' \in Seq(PendingTransfers) /\ Len(pending') = Len(pending)
          /\ \A k \in 1 .. Len(pending) :
               /\ ~pending'[k].live /\ pending'[k].kind = pending[k].kind
               /\ pending'[k].got = pending[k].got
               /\ pending'[k].command = pending[k].command
      BY <2>1, PendingGivenUp DEF TransportInv
    <3>2. QED BY <1>1, <1>2, <3>1 DEF TransportInv, PendingInv
  <2>2. CASE pending # <<>> /\ pending' = SubSeq(pending, 1, Len(pending) - 1)
    <3>1. /\ pending' \in Seq(PendingTransfers) /\ Len(pending') = Len(pending) - 1
          /\ \A k \in 1 .. Len(pending') :
               k \in 1 .. Len(pending) /\ k # Len(pending) /\ pending'[k] = pending[k]
      BY <2>2, PendingDropped DEF TransportInv
    <3>2. QED BY <1>1, <1>2, <3>1 DEF TransportInv, PendingInv
  <2>3. QED BY <2>1, <2>2 DEF HostGivesUp
<1>4. TransportTypes'
  BY <1>1, <1>3 DEF TransportInv, TransportTypes
<1>5. ProgramInv'
  BY <1>1 DEF TransportInv, ProgramInv
<1>6. RunInv'
  BY <1>1 DEF TransportInv, RunInv, RunsOnlyWhatWasAsked, Written
<1>7. QED BY <1>3, <1>4, <1>5, <1>6 DEF TransportInv

-----------------------------------------------------------------------------
(***************************************************************************)
(* The steps of the device                                                 *)
(***************************************************************************)
RequestFits(req, t) ==
  req.resource \in OwnedResources /\ t.got # "less" =>
    req.resource = t.command.resource /\ req.read = t.command.read

LEMMA CommandRuns ==
  ASSUME ran \in Nat, ~stray, NEW req, NEW t \in PendingTransfers, RequestFits(req, t),
         NEW st, DoCommand(req, t, st)
  PROVE  /\ ran' \in {ran, ran + 1} /\ stray' = FALSE
         /\ ~t.live => UNCHANGED <<ran, answered>>
         /\ req.resource = "special" =>
              /\ UNCHANGED <<ran, answered>>
              /\ st \in (IF req.read THEN {"SUCCESS", "BAD_COMMAND"} ELSE {"BAD_COMMAND"})
         /\ req.resource \in OwnedResources /\ t.live => ran' = ran + 1 /\ answered' = st
<1>1. CASE req.resource = "special"
  <2>1. req.resource \notin OwnedResources
    BY <1>1, TransportAssumption
  <2>2. /\ st \in (IF req.read THEN {"SUCCESS", "BAD_COMMAND"} ELSE {"BAD_COMMAND"})
        /\ UNCHANGED <<answered, ran, stray>>
    BY <2>1 DEF DoCommand, NotRun, historyVars
  <2>3. QED BY <2>1, <2>2
<1>2. CASE req.resource # "special"
  <2>1. /\ req.resource \in OwnedResources
        /\ IF t.live THEN ran' = ran + 1 /\ answered' = st ELSE UNCHANGED <<ran, answered>>
        /\ stray' = (stray \/ (/\ t.got # "less"
                               /\ \/ req.resource # t.command.resource
                                  \/ req.read # t.command.read))
    BY <1>2 DEF DoCommand
  <2>2. stray' = FALSE
    BY <2>1 DEF RequestFits
  <2>3. QED BY <1>2, <2>1, <2>2
<1>3. QED BY <1>1, <1>2

LEMMA WriteRuns ==
  ASSUME ran \in Nat, ~stray, NEW req, NEW t \in PendingTransfers, RequestFits(req, t),
         WritePayload(req, t)
  PROVE  /\ ran' \in {ran, ran + 1} /\ stray' = FALSE
         /\ ~t.live => UNCHANGED <<ran, answered>>
         /\ ~Known(req.resource) =>
              UNCHANGED <<ran, answered>> /\ last_status' = "BAD_RESOURCE"
         /\ req.read => UNCHANGED <<ran, answered>>
         /\ Known(req.resource) /\ ~req.read =>
              IF t.got = "header" /\ ~req.empty
              THEN UNCHANGED <<ran, answered>> /\ last_status' = "DATA_LENGTH_ERROR"
              ELSE /\ req.resource = "special" =>
                        UNCHANGED <<ran, answered>> /\ last_status' = "BAD_COMMAND"
                   /\ req.resource \in OwnedResources /\ t.live =>
                        ran' = ran + 1 /\ answered' = last_status'

<1>1. NotRun => UNCHANGED <<ran, answered>> /\ stray' = FALSE
  BY DEF NotRun, historyVars
<1>2. CASE ~Known(req.resource)
  BY <1>1, <1>2 DEF WritePayload
<1>3. CASE Known(req.resource) /\ req.read
  BY <1>1, <1>3 DEF WritePayload
<1>4. CASE Known(req.resource) /\ ~req.read /\ t.got = "header" /\ ~req.empty
  BY <1>1, <1>4 DEF WritePayload
<1>5. CASE Known(req.resource) /\ ~req.read /\ ~(t.got = "header" /\ ~req.empty)
  <2>1. PICK st \in AllStatuses : DoCommand(req, t, st) /\ last_status' = st
    BY <1>5 DEF WritePayload
  <2>2. /\ ran' \in {ran, ran + 1} /\ stray' = FALSE
        /\ ~t.live => UNCHANGED <<ran, answered>>
        /\ req.resource = "special" =>
             /\ UNCHANGED <<ran, answered>>
             /\ st \in (IF req.read THEN {"SUCCESS", "BAD_COMMAND"} ELSE {"BAD_COMMAND"})
        /\ req.resource \in OwnedResources /\ t.live => ran' = ran + 1 /\ answered' = st
    BY <2>1, CommandRuns
  <2>3. QED BY <1>5, <2>1, <2>2
<1>6. QED BY <1>2, <1>3, <1>4, <1>5

LEMMA ReadRuns ==
  ASSUME ran \in Nat, ~stray, NEW req, NEW t \in PendingTransfers, RequestFits(req, t),
         NEW payload, ReadPayload(req, t, payload)
  PROVE  /\ ran' \in {ran, ran + 1} /\ stray' = FALSE
         /\ ~t.live => UNCHANGED <<ran, answered>>
         /\ ~Known(req.resource) =>
              UNCHANGED <<ran, answered>> /\ payload = StatusIs("BAD_RESOURCE")
         /\ Known(req.resource) /\ ~req.read =>
              UNCHANGED <<ran, answered>> /\ payload = StatusIs(last_status)
         /\ req.read /\ req.resource = "special" =>
              /\ UNCHANGED <<ran, answered>>
              /\ payload \in {DataOf("special", st) : st \in {"SUCCESS", "BAD_COMMAND"}}
         /\ req.read /\ req.resource \in OwnedResources /\ t.live =>
              ran' = ran + 1 /\ payload = DataOf(req.resource, answered')
<1>1. NotRun => UNCHANGED <<ran, answered>> /\ stray' = FALSE
  BY DEF NotRun, historyVars
<1>2. CASE ~Known(req.resource)
  BY <1>1, <1>2 DEF ReadPayload, Known
<1>3. CASE Known(req.resource) /\ ~req.read
  BY <1>1, <1>3 DEF ReadPayload, StatusOfWrite
<1>4. CASE Known(req.resource) /\ req.read
  <2>1. PICK st \in AllStatuses : DoCommand(req, t, st) /\ payload = DataOf(req.resource, st)
    BY <1>4 DEF ReadPayload, StatusOfWrite
  <2>2. /\ ran' \in {ran, ran + 1} /\ stray' = FALSE
        /\ ~t.live => UNCHANGED <<ran, answered>>
        /\ req.resource = "special" =>
             /\ UNCHANGED <<ran, answered>>
             /\ st \in (IF req.read THEN {"SUCCESS", "BAD_COMMAND"} ELSE {"BAD_COMMAND"})
        /\ req.resource \in OwnedResources /\ t.live => ran' = ran + 1 /\ answered' = st
    BY <2>1, CommandRuns
  <2>3. QED BY <1>4, <2>1, <2>2
<1>5. QED BY <1>2, <1>3, <1>4

\* What handling the head of the queue does to the queue and to the reply
LEMMA Handling ==
  ASSUME TransportInv, NEW kind, NEW reply, DeviceHandles(kind, reply)
  PROVE  /\ pending' \in Seq(PendingTransfers)
         /\ Head(pending) \in PendingTransfers /\ Head(pending).kind = kind
         /\ UNCHANGED <<transport, hostStep, hostCall, hostReturned, received>>
         /\ kind \in {"usb_data", "i2c_read"} /\ Head(pending).got # "less" =>
              Fits(Head(pending).command)
         /\ Head(pending).live =>
              /\ hostReply' = reply /\ pending' = <<>> /\ WaitedFor(Head(pending))
              /\ hostStep # "idle" /\ hostReply = None
         /\ ~Head(pending).live =>
              /\ hostReply' = hostReply
              /\ hostStep # "idle" => hostReply = None
              /\ hostStep \notin {"data", "status"}
              /\ hostStep = "read" => transport = "usb"
<1>1. /\ pending # <<>> /\ Head(pending).kind = kind /\ pending' = Tail(pending)
      /\ hostReply' = IF Head(pending).live THEN reply ELSE hostReply
      /\ UNCHANGED <<transport, hostStep, hostCall, hostReturned, received>>
  BY DEF DeviceHandles
<1>2. /\ pending' \in Seq(PendingTransfers) /\ Len(pending') = Len(pending) - 1
      /\ Head(pending) = pending[1] /\ 1 \in 1 .. Len(pending)
      /\ Head(pending) \in PendingTransfers
  BY <1>1, PendingShorter DEF TransportInv
<1>3. Head(pending).live => pending' = <<>>
  <2> SUFFICES ASSUME Head(pending).live PROVE pending' = <<>>
    OBVIOUS
  <2>1. Len(pending) = 1
    BY <1>2 DEF TransportInv, PendingInv
  <2>2. Len(pending') = 0
    BY <1>2, <2>1
  <2>3. QED BY <1>2, <2>2
<1>4. Head(pending).live =>
        WaitedFor(Head(pending)) /\ hostStep # "idle" /\ hostReply = None
  BY <1>2 DEF TransportInv, PendingInv
<1>5. ~Head(pending).live =>
        /\ hostStep \notin {"data", "status"}
        /\ hostStep = "read" => transport = "usb"
  BY <1>2 DEF TransportInv, PendingInv, TransportTypes
<1>6. hostStep # "idle" => hostReply = None
  BY <1>1 DEF TransportInv, PendingInv
<1>7. kind \in {"usb_data", "i2c_read"} /\ Head(pending).got # "less" =>
        Fits(Head(pending).command)
  <2>1. pending[1].kind \in {"usb_data", "i2c_read"} /\ pending[1].got # "less" =>
          Fits(pending[1].command)
    BY <1>2 DEF TransportInv, PendingInv
  <2>2. QED BY <1>1, <1>2, <2>1
<1>8. QED BY <1>1, <1>2, <1>3, <1>4, <1>5, <1>6, <1>7

\* What is left of the queue relies on no request.
LEMMA HandledPending ==
  ASSUME TransportInv, NEW kind, NEW reply, DeviceHandles(kind, reply)
  PROVE  PendingInv'
<1>1. /\ pending # <<>> /\ pending' = Tail(pending)
      /\ hostReply' = IF Head(pending).live THEN reply ELSE hostReply
      /\ UNCHANGED <<transport, hostStep, hostCall, hostReturned, received>>
  BY DEF DeviceHandles
<1>2. /\ Len(pending') = Len(pending) - 1
      /\ \A k \in 1 .. Len(pending') :
           k + 1 \in 2 .. Len(pending) /\ pending'[k] = pending[k + 1]
  BY <1>1, PendingShorter DEF TransportInv
<1>3. CASE Head(pending).live
  <2>1. pending' = <<>>
    BY <1>3, Handling
  <2>2. Len(pending') = 0
    BY <2>1
  <2>3. QED BY <2>1, <2>2 DEF PendingInv
<1>4. CASE ~Head(pending).live
  <2>1. hostReply' = hostReply /\ (hostStep # "idle" => hostReply = None)
    BY <1>1, <1>4, Handling
  <2>2. ASSUME NEW k \in 1 .. Len(pending')
        PROVE  /\ k + 1 \in 1 .. Len(pending) /\ pending'[k] = pending[k + 1]
               /\ k + 1 # 1 /\ (k + 1 = Len(pending) => k = Len(pending'))
    BY <1>2
  <2>3. \A t : WaitedFor(t)' <=> WaitedFor(t)
    BY <1>1 DEF WaitedFor
  <2>4. ASSUME NEW k \in 1 .. Len(pending'), pending'[k].live
        PROVE  /\ k = Len(pending') /\ hostStep' # "idle" /\ hostReply' = None
               /\ WaitedFor(pending[k])'
    <3>1. PICK t : t = pending[k + 1]
      OBVIOUS
    <3>2. pending'[k] = t /\ k = Len(pending') /\ hostStep # "idle" /\ WaitedFor(t)
      BY <2>2, <2>4, <3>1 DEF TransportInv, PendingInv
    <3>3. QED BY <1>1, <2>1, <2>3, <3>2
  <2>5. \A k \in 1 .. Len(pending') :
          ~(pending'[k].kind \in {"usb_data", "i2c_read"} /\ pending'[k].got # "less")
    BY <2>2 DEF TransportInv, PendingInv
  <2>6. hostStep \in {"data", "status"} \/ (hostStep = "read" /\ transport = "i2c") =>
          \A k \in 1 .. Len(pending') : pending'[k].live
    BY <2>2 DEF TransportInv, PendingInv
  <2>7. QED BY <1>1, <2>1, <2>2, <2>4, <2>5, <2>6, Replies DEF PendingInv
<1>5. QED BY <1>3, <1>4

\* A late transfer changes the device alone.
LEMMA LateHandled ==
  ASSUME TransportInv, NEW kind, NEW reply, DeviceHandles(kind, reply), ~Head(pending).live,
         UNCHANGED <<ran, answered>>, stray' = FALSE, requested' \in HostCommand
  PROVE  TransportInv'
<1>1. /\ pending' \in Seq(PendingTransfers)
      /\ UNCHANGED <<transport, hostStep, hostCall, hostReturned, received>>
      /\ hostReply' = hostReply
      /\ hostStep # "idle" => hostReply = None
      /\ hostStep \notin {"data", "status"}
      /\ hostStep = "read" => transport = "usb"
  BY Handling
<1>2. TransportTypes'
  BY <1>1 DEF TransportInv, TransportTypes
<1>3. PendingInv'
  BY HandledPending
<1>4. ProgramInv'
  BY <1>1, Replies DEF TransportInv, ProgramInv
<1>5. RightReply(hostReturned)' <=> RightReply(hostReturned)
  BY <1>1 DEF RightReply, NeverSent, TooShort, RanAsOwned, Expected
<1>6. RunInv'
  BY <1>1, <1>5, Replies DEF TransportInv, RunInv, RunsOnlyWhatWasAsked, Written
<1>7. QED BY <1>2, <1>3, <1>4, <1>6 DEF TransportInv

\* What the transfer that the host waits for has to bring
LEMMA LiveHandled ==
  ASSUME TransportInv, NEW kind, NEW reply, DeviceHandles(kind, reply), Head(pending).live,
         reply # None, requested' \in HostCommand,
         ran' \in {0, 1}, stray' = FALSE,
         hostStep = "write" =>
           /\ reply \in {Done, Failed}
           /\ reply = Done => /\ received # "less" => Fits(hostCall)'
                              /\ transport = "usb" => Known(hostCall.resource)
           /\ transport = "usb" \/ hostCall.read => ran' = 0
           /\ reply = Done /\ ~hostCall.read /\ (transport = "i2c" \/ hostCall.empty) =>
                RightStatus',
         hostStep = "data" => reply = Done /\ RightStatus',
         hostStep \in {"status", "read"} /\ reply # Failed =>
           reply # Done /\ RightReply(reply)'
  PROVE  TransportInv'
<1>1. /\ pending' \in Seq(PendingTransfers)
      /\ UNCHANGED <<transport, hostStep, hostCall, hostReturned, received>>
      /\ hostReply' = reply /\ pending' = <<>> /\ hostStep # "idle"
  BY Handling
<1>2. TransportTypes'
  <2>1. ran' \in Nat /\ stray' \in BOOLEAN
    <3>1. {0, 1} \subseteq Nat
      OBVIOUS
    <3>2. QED BY <3>1, Zenon
  <2>2. /\ transport' \in {"i2c", "usb"} /\ hostCall' \in HostCommand
        /\ hostStep' \in {"idle", "write", "data", "status", "read"}
        /\ received' \in Received
    BY <1>1 DEF TransportInv, TransportTypes
  <2>3. QED BY <1>1, <2>1, <2>2 DEF TransportTypes
<1>3. PendingInv'
  BY HandledPending
<1>4. Fits(hostCall)' => (\A c : c = hostCall => Fits(c)')
  BY <1>1 DEF Fits
<1>5. ProgramInv'
  BY <1>1, <1>4 DEF TransportInv, ProgramInv
<1>6. hostStep \in {"status", "read"} /\ reply # Failed => RightReply(hostReply)'
  BY <1>1
<1>7. RunInv'
  BY <1>1, <1>6, Replies DEF TransportInv, RunInv, RunsOnlyWhatWasAsked, Written
<1>8. QED BY <1>2, <1>3, <1>5, <1>7 DEF TransportInv

\* The end of a write that was not cut short within its header
LEMMA WriteEnds ==
  ASSUME TransportInv, NEW req, NEW t \in PendingTransfers, t.live, t.got = received,
         RequestFits(req, t), WritePayload(req, t), UNCHANGED <<transport, hostCall, received>>,
         ~hostCall.read, received # "less", ran = 0, ~NeverSent,
         req.resource = hostCall.resource,
         Known(hostCall.resource) =>
           ~req.read /\ (received = "header" => req.empty = hostCall.empty)
  PROVE  RightStatus' /\ ran' \in {0, 1} /\ stray' = FALSE
<1>1. ran \in Nat /\ ~stray
  BY DEF TransportInv, TransportTypes, RunInv, RunsOnlyWhatWasAsked
<1>2. /\ ran' \in {ran, ran + 1} /\ stray' = FALSE
      /\ ~Known(req.resource) =>
           UNCHANGED <<ran, answered>> /\ last_status' = "BAD_RESOURCE"
      /\ Known(req.resource) /\ ~req.read =>
           IF t.got = "header" /\ ~req.empty
           THEN UNCHANGED <<ran, answered>> /\ last_status' = "DATA_LENGTH_ERROR"
           ELSE /\ req.resource = "special" =>
                     UNCHANGED <<ran, answered>> /\ last_status' = "BAD_COMMAND"
                /\ req.resource \in OwnedResources /\ t.live =>
                     ran' = ran + 1 /\ answered' = last_status'
  BY <1>1, WriteRuns
<1>3. hostCall.resource \in OwnedResources \cup {"special", "unknown"}
  BY DEF TransportInv, TransportTypes, HostCommand
<1>4. "unknown" \notin OwnedResources /\ "special" \notin OwnedResources
  BY TransportAssumption
<1>5. NeverSent' <=> NeverSent
  BY DEF NeverSent
<1>6. TooShort' <=> TooShort
  BY DEF TooShort
<1>7. CASE TooShort
  <2>1. ran' = 0 /\ last_status' = "DATA_LENGTH_ERROR"
    BY <1>2, <1>7 DEF TooShort
  <2>2. QED BY <1>2, <1>5, <1>6, <1>7, <2>1 DEF RightStatus
<1>8. CASE ~TooShort
  <2>1. CASE hostCall.resource = "unknown"
    <3>1. ~Known(hostCall.resource) /\ ran' = 0
      BY <1>2, <1>4, <2>1 DEF Known
    <3>2. QED BY <1>2, <1>4, <1>5, <1>6, <1>8, <2>1, <3>1 DEF RightStatus, RanAsOwned
  <2>2. CASE hostCall.resource = "special"
    <3>1. ran' = 0 /\ last_status' = "BAD_COMMAND"
      BY <1>2, <1>8, <2>2 DEF Known, TooShort
    <3>2. (StatusIs(last_status) \in Expected)'
      BY <2>2, <3>1, ExpectedNext DEF ExpectedOfEach
    <3>3. QED BY <1>2, <1>4, <1>5, <1>6, <1>8, <2>2, <3>1, <3>2 DEF RightStatus, RanAsOwned
  <2>3. CASE hostCall.resource \in OwnedResources
    <3>1. ran' = 1 /\ answered' = last_status'
      BY <1>2, <1>8, <2>3 DEF Known, TooShort
    <3>2. (StatusIs(last_status) \in Expected)'
      BY <2>3, <3>1, ExpectedNext DEF ExpectedOfEach
    <3>3. QED BY <1>2, <1>5, <1>6, <1>8, <2>3, <3>1, <3>2 DEF RightStatus, RanAsOwned
  <2>4. QED BY <1>3, <2>1, <2>2, <2>3
<1>9. QED BY <1>7, <1>8

\* The transfer that fetches the answer to a read, or the status of a write
LEMMA ReadReplies ==
  ASSUME TransportInv, NEW req, NEW t \in PendingTransfers, t.live,
         RequestFits(req, t), NEW payload, ReadPayload(req, t, payload),
         UNCHANGED <<transport, hostCall, received>>,
         hostStep \in {"status", "read"}, hostReply = None, received # "less",
         req.resource = hostCall.resource,
         Known(hostCall.resource) => req.read = hostCall.read,
         transport = "usb" => Known(hostCall.resource)
  PROVE  RightReply(payload)' /\ ran' \in {0, 1} /\ stray' = FALSE
<1>1. ran \in Nat /\ ~stray
  BY DEF TransportInv, TransportTypes, RunInv, RunsOnlyWhatWasAsked
<1>2. /\ ran' \in {ran, ran + 1} /\ stray' = FALSE
      /\ ~Known(req.resource) =>
           UNCHANGED <<ran, answered>> /\ payload = StatusIs("BAD_RESOURCE")
      /\ Known(req.resource) /\ ~req.read =>
           UNCHANGED <<ran, answered>> /\ payload = StatusIs(last_status)
      /\ req.read /\ req.resource = "special" =>
           /\ UNCHANGED <<ran, answered>>
           /\ payload \in {DataOf("special", st) : st \in {"SUCCESS", "BAD_COMMAND"}}
      /\ req.read /\ req.resource \in OwnedResources /\ t.live =>
           ran' = ran + 1 /\ payload = DataOf(req.resource, answered')
  BY <1>1, ReadRuns
<1>3. hostCall.resource \in OwnedResources \cup {"special", "unknown"}
  BY DEF TransportInv, TransportTypes, HostCommand
<1>4. "unknown" \notin OwnedResources /\ "special" \notin OwnedResources
  BY TransportAssumption
<1>5. (NeverSent' <=> NeverSent) /\ (TooShort' <=> TooShort)
  BY DEF NeverSent, TooShort
<1>6. transport \in {"i2c", "usb"}
  BY DEF TransportInv, TransportTypes
<1>7. CASE hostStep = "status"
  <2>1. RightStatus /\ ~hostCall.read
    BY <1>7 DEF TransportInv, RunInv, ProgramInv, Written
  <2>2. UNCHANGED <<ran, answered>>
    BY <1>2, <2>1 DEF Known
  <2>3. Expected' = Expected /\ (RanAsOwned' <=> RanAsOwned)
    BY <2>2 DEF Expected, RanAsOwned
  <2>4. ran \in {0, 1}
    BY <1>1 DEF TransportInv, RunInv, RunsOnlyWhatWasAsked
  <2>5. CASE Known(hostCall.resource)
    <3>1. payload = StatusIs(last_status)
      BY <1>2, <2>1, <2>5
    <3>2. QED
      BY <1>2, <1>5, <2>1, <2>2, <2>3, <2>4, <2>5, <3>1 DEF RightReply, RightStatus
  <2>6. CASE ~Known(hostCall.resource)
    <3>1. /\ payload = StatusIs("BAD_RESOURCE") /\ hostCall.resource = "unknown"
          /\ transport = "i2c"
      BY <1>2, <1>3, <1>6, <2>6 DEF Known
    <3>2. payload \in Expected
      BY <3>1, ExpectedMeans DEF ExpectedOfEach
    <3>3. ~TooShort /\ ~NeverSent
      BY <2>6, <3>1 DEF TooShort, NeverSent
    <3>4. QED
      BY <1>2, <1>5, <2>1, <2>2, <2>3, <2>4, <3>2, <3>3 DEF RightReply, RightStatus
  <2>7. QED BY <2>5, <2>6
<1>8. CASE hostStep = "read"
  <2>1. hostCall.read /\ ran = 0 /\ ~NeverSent /\ ~TooShort
    BY <1>8 DEF TransportInv, RunInv, ProgramInv, NeverSent, TooShort
  <2>2. CASE hostCall.resource = "unknown"
    <3>1. ~Known(hostCall.resource) /\ transport = "i2c"
      BY <1>4, <1>6, <2>2 DEF Known
    <3>2. ran' = 0 /\ payload = StatusIs("BAD_RESOURCE")
      BY <1>2, <2>1, <3>1
    <3>3. Expected' = {StatusIs("BAD_RESOURCE")}
      BY <2>2, <3>1, ExpectedNext DEF ExpectedOfEach
    <3>4. RanAsOwned'
      BY <1>4, <2>2, <3>2 DEF RanAsOwned
    <3>5. QED BY <1>2, <1>5, <2>1, <3>2, <3>3, <3>4 DEF RightReply
  <2>3. CASE hostCall.resource = "special"
    <3>1. /\ ran' = 0
          /\ payload \in {DataOf("special", st) : st \in {"SUCCESS", "BAD_COMMAND"}}
      BY <1>2, <2>1, <2>3 DEF Known
    <3>2. Expected' = {DataOf("special", st) : st \in {"SUCCESS", "BAD_COMMAND"}}
      BY <2>1, <2>3, ExpectedNext DEF ExpectedOfEach
    <3>3. RanAsOwned'
      BY <1>4, <2>3, <3>1 DEF RanAsOwned
    <3>4. QED BY <1>2, <1>5, <2>1, <3>1, <3>2, <3>3 DEF RightReply
  <2>4. CASE hostCall.resource \in OwnedResources
    <3>1. req.read
      BY <2>1, <2>4 DEF Known
    <3>2. ran' = 1 /\ payload = DataOf(hostCall.resource, answered')
      <4>1. ran' = ran + 1 /\ payload = DataOf(req.resource, answered')
        BY <1>2, <2>4, <3>1
      <4>2. QED BY <2>1, <4>1
    <3>3. Expected' = {DataOf(hostCall.resource, answered')}
      BY <2>1, <2>4, ExpectedNext DEF ExpectedOfEach
    <3>4. RanAsOwned'
      BY <2>4, <3>2 DEF RanAsOwned
    <3>5. QED BY <1>2, <1>5, <2>1, <3>2, <3>3, <3>4 DEF RightReply
  <2>5. QED BY <1>3, <2>2, <2>3, <2>4
<1>9. QED BY <1>7, <1>8

\* Which transfer of the host's the head of the queue is
LEMMA StepOf ==
  ASSUME TransportInv, NEW kind, NEW reply, DeviceHandles(kind, reply), Head(pending).live
  PROVE  /\ kind = "i2c_write" => hostStep = "write" /\ transport = "i2c"
         /\ kind = "usb_setup_out" => hostStep = "write" /\ transport = "usb"
         /\ kind = "usb_data" => hostStep = "data"
         /\ kind = "i2c_read" => hostStep \in {"status", "read"} /\ transport = "i2c"
         /\ kind = "usb_setup_in" => hostStep \in {"status", "read"} /\ transport = "usb"
<1>1. hostStep \in {"write", "data", "status", "read"} /\ transport \in {"i2c", "usb"}
  BY Handling DEF TransportInv, TransportTypes
<1>2. WaitedFor(Head(pending)) /\ Head(pending).kind = kind
  BY Handling
<1>3. QED BY <1>1, <1>2 DEF WaitedFor

\* The request that a transfer makes is its command, if somebody owns the resource.
LEMMA RequestedIs ==
  ASSUME requested \in HostCommand, NEW c \in HostCommand
  PROVE  /\ Requested(c) \in HostCommand /\ Requested(c).resource = c.resource
         /\ Known(c.resource) => Requested(c) = c
         /\ \A t : t.command = c => RequestFits(Requested(c), t)
<1>1. CASE Known(c.resource)
  BY <1>1 DEF Requested, RequestFits
<1>2. CASE ~Known(c.resource)
  <2>1. Requested(c) = [requested EXCEPT !.resource = c.resource]
    BY <1>2 DEF Requested
  <2>2. Requested(c) \in HostCommand /\ Requested(c).resource = c.resource
    BY <2>1 DEF HostCommand
  <2>3. Requested(c).resource \notin OwnedResources
    BY <1>2, <2>2 DEF Known
  <2>4. QED BY <1>2, <2>2, <2>3 DEF RequestFits
<1>3. QED BY <1>1, <1>2

LEMMA I2cWrittenKept == ASSUME TransportInv, I2cWritten PROVE TransportInv'
<1>1. PICK t : t = Head(pending)
  OBVIOUS
<1>2. PICK req : req = Requested(t.command)
  OBVIOUS
<1>3. /\ DeviceHandles("i2c_write", Done)
      /\ IF t.got = "less"
         THEN last_status' = "MALFORMED_PACKET" /\ UNCHANGED requested /\ NotRun
         ELSE requested' = req /\ WritePayload(req, t)
  BY <1>1, <1>2 DEF I2cWritten
<1>4. /\ t \in PendingTransfers /\ t.command \in HostCommand
      /\ UNCHANGED <<transport, hostCall, received>>
  BY <1>1, <1>3, Handling DEF PendingTransfers
<1>5. ran \in {0, 1} /\ ran \in Nat /\ ~stray /\ requested \in HostCommand
  BY DEF TransportInv, TransportTypes, RunInv, RunsOnlyWhatWasAsked
<1>6. /\ req \in HostCommand /\ req.resource = t.command.resource
      /\ Known(t.command.resource) => req = t.command
      /\ RequestFits(req, t)
  BY <1>2, <1>4, <1>5, RequestedIs
<1>7. requested' \in HostCommand
  BY <1>3, <1>5, <1>6
<1>8. NotRun => UNCHANGED <<ran, answered, stray>>
  BY DEF NotRun, historyVars
<1>9. WritePayload(req, t) =>
        /\ ran' \in {ran, ran + 1} /\ stray' = FALSE
        /\ ~t.live => UNCHANGED <<ran, answered>>
        /\ req.read => UNCHANGED <<ran, answered>>
        /\ ~Known(req.resource) => UNCHANGED <<ran, answered>>
  BY <1>4, <1>5, <1>6, WriteRuns
<1>10. CASE ~t.live
  <2>1. UNCHANGED <<ran, answered>> /\ stray' = FALSE
    BY <1>3, <1>5, <1>8, <1>9, <1>10
  <2>2. QED BY <1>1, <1>3, <1>7, <1>10, <2>1, LateHandled
<1>11. CASE t.live
  <2>1. /\ hostStep = "write" /\ transport = "i2c" /\ hostReply = None
        /\ t.command = hostCall /\ t.got = received
    BY <1>1, <1>3, <1>11, Handling, StepOf DEF WaitedFor
  <2>2. ran = 0 /\ ~NeverSent
    BY <2>1 DEF TransportInv, RunInv, NeverSent
  <2>3. CASE received = "less"
    <3>1. ran' = 0 /\ stray' = FALSE
      BY <1>3, <1>5, <1>8, <2>1, <2>2, <2>3
    <3>2. RightStatus'
      BY <1>4, <2>3, <3>1 DEF RightStatus
    <3>3. QED BY <1>1, <1>3, <1>7, <1>11, <2>1, <2>3, <3>1, <3>2, Replies, LiveHandled
  <2>4. CASE received # "less"
    <3>1. requested' = req /\ WritePayload(req, t)
      BY <1>3, <2>1, <2>4
    <3>2. Fits(hostCall)'
      BY <1>4, <1>6, <2>1, <3>1 DEF Fits
    <3>3. ran' \in {0, 1} /\ stray' = FALSE
      BY <1>9, <2>2, <3>1
    <3>4. CASE hostCall.read
      <4>1. ran' = 0
        BY <1>6, <1>9, <2>1, <2>2, <3>1, <3>4
      <4>2. QED
        BY <1>1, <1>3, <1>7, <1>11, <2>1, <3>2, <3>3, <3>4, <4>1, Replies, LiveHandled
    <3>5. CASE ~hostCall.read
      <4>1. RightStatus'
        BY <1>4, <1>6, <1>11, <2>1, <2>2, <2>4, <3>1, <3>5, WriteEnds
      <4>2. QED
        BY <1>1, <1>3, <1>7, <1>11, <2>1, <3>2, <3>3, <3>5, <4>1, Replies, LiveHandled
    <3>6. QED BY <3>4, <3>5
  <2>5. QED BY <2>3, <2>4
<1>12. QED BY <1>10, <1>11

\* What an i2c_read and a usb_data rely on
LEMMA StillFits ==
  ASSUME NEW t, t.got # "less" => Fits(t.command)
  PROVE  RequestFits(requested, t)
BY DEF Fits, RequestFits, Known

LEMMA I2cReadKept == ASSUME TransportInv, I2cRead PROVE TransportInv'
<1>1. PICK t : t = Head(pending)
  OBVIOUS
<1>2. PICK payload \in Payloads :
        /\ DeviceHandles("i2c_read", payload)
        /\ ReadPayload(requested, t, payload)
        /\ UNCHANGED requested
  BY <1>1 DEF I2cRead
<1>3. /\ t \in PendingTransfers /\ (t.got # "less" => Fits(t.command))
      /\ UNCHANGED <<transport, hostCall, received>>
  BY <1>1, <1>2, Handling
<1>4. ran \in {0, 1} /\ ran \in Nat /\ ~stray /\ requested' \in HostCommand
  BY <1>2 DEF TransportInv, TransportTypes, RunInv, RunsOnlyWhatWasAsked
<1>5. RequestFits(requested, t)
  BY <1>3, StillFits
<1>6. ran' \in {ran, ran + 1} /\ stray' = FALSE /\ (~t.live => UNCHANGED <<ran, answered>>)
  BY <1>2, <1>3, <1>4, <1>5, ReadRuns
<1>7. CASE ~t.live
  BY <1>1, <1>2, <1>4, <1>6, <1>7, LateHandled
<1>8. CASE t.live
  <2>1. /\ hostStep \in {"status", "read"} /\ transport = "i2c" /\ hostReply = None
        /\ t.command.resource = hostCall.resource /\ t.command.read = hostCall.read
        /\ t.got = received
    BY <1>1, <1>2, <1>8, Handling, StepOf DEF WaitedFor
  <2>2. payload \notin {None, Failed, Done}
    BY PayloadIsReply
  <2>3. CASE received = "less"
    <3>1. ran = 0 /\ ~NeverSent
      BY <2>1, <2>3
         DEF TransportInv, RunInv, ProgramInv, Written, RightStatus, NeverSent
    <3>2. ran' \in {0, 1}
      BY <1>6, <3>1
    <3>3. ~NeverSent' /\ received' = "less"
      BY <1>3, <2>3, <3>1 DEF NeverSent
    <3>4. RightReply(payload)'
      BY <3>3 DEF RightReply
    <3>5. QED BY <1>1, <1>2, <1>4, <1>6, <1>8, <2>1, <2>2, <3>2, <3>4, LiveHandled
  <2>4. CASE received # "less"
    <3>1. /\ requested.resource = hostCall.resource
          /\ Known(hostCall.resource) => requested.read = hostCall.read
      BY <1>3, <2>1, <2>4 DEF Fits
    <3>2. RightReply(payload)' /\ ran' \in {0, 1}
      BY <1>2, <1>3, <1>5, <1>8, <2>1, <2>4, <3>1, ReadReplies
    <3>3. QED BY <1>1, <1>2, <1>4, <1>6, <1>8, <2>1, <2>2, <3>2, LiveHandled
  <2>5. QED BY <2>3, <2>4
<1>9. QED BY <1>7, <1>8

LEMMA UsbRefusesKept == ASSUME TransportInv, UsbRefuses PROVE TransportInv'
<1>1. PICK kind \in {"usb_setup_out", "usb_setup_in"} : DeviceHandles(kind, Failed)
  BY DEF UsbRefuses
<1>2. UNCHANGED <<ran, answered, stray>>
  BY DEF UsbRefuses, historyVars
<1>3. ran \in {0, 1} /\ ~stray /\ requested \in HostCommand
  BY DEF TransportInv, TransportTypes, RunInv, RunsOnlyWhatWasAsked
<1>4. requested' \in HostCommand
  <2>1. Head(pending).command \in HostCommand
    BY <1>1, Handling DEF PendingTransfers
  <2>2. QED BY <1>3, <2>1, RequestedIs DEF UsbRefuses
<1>5. ran' \in {0, 1} /\ stray' = FALSE
  BY <1>2, <1>3 DEF TransportInv, TransportTypes
<1>6. CASE ~Head(pending).live
  BY <1>1, <1>2, <1>4, <1>5, <1>6, LateHandled
<1>7. CASE Head(pending).live
  <2>1. /\ hostStep \in {"write", "status", "read"} /\ transport = "usb"
        /\ hostReply = None
    BY <1>1, <1>7, Handling, StepOf
  <2>2. hostStep = "write" => ran' = 0
    BY <1>2, <2>1 DEF TransportInv, RunInv
  <2>3. QED BY <1>1, <1>4, <1>5, <1>7, <2>1, <2>2, Replies, LiveHandled
<1>8. QED BY <1>6, <1>7

LEMMA UsbSetupOutKept == ASSUME TransportInv, UsbSetupOut PROVE TransportInv'
<1>1. PICK t : t = Head(pending)
  OBVIOUS
<1>2. /\ DeviceHandles("usb_setup_out", Done) /\ Known(t.command.resource)
      /\ requested' = Requested(t.command) /\ UNCHANGED <<ran, answered, stray>>
  BY <1>1 DEF UsbSetupOut, historyVars
<1>3. ran \in {0, 1} /\ ~stray /\ requested \in HostCommand
  BY DEF TransportInv, TransportTypes, RunInv, RunsOnlyWhatWasAsked
<1>4. t.command \in HostCommand /\ UNCHANGED <<transport, hostCall, received>>
  BY <1>1, <1>2, Handling DEF PendingTransfers
<1>5. requested' = t.command /\ requested' \in HostCommand
  BY <1>2, <1>3, <1>4, RequestedIs
<1>6. ran' \in {0, 1} /\ stray' = FALSE
  BY <1>2, <1>3 DEF TransportInv, TransportTypes
<1>7. CASE ~t.live
  BY <1>1, <1>2, <1>5, <1>6, <1>7, LateHandled
<1>8. CASE t.live
  <2>1. hostStep = "write" /\ transport = "usb" /\ hostReply = None /\ t.command = hostCall
    BY <1>1, <1>2, <1>8, Handling, StepOf DEF WaitedFor
  <2>2. ran' = 0
    BY <1>2, <2>1 DEF TransportInv, RunInv
  <2>3. Fits(hostCall)' /\ Known(hostCall.resource)
    BY <1>2, <1>4, <1>5, <2>1 DEF Fits
  <2>4. ~hostCall.read /\ hostCall.empty => RightStatus'
    BY <1>4, <2>1, <2>2 DEF RightStatus, NeverSent
  <2>5. QED
    BY <1>1, <1>2, <1>5, <1>6, <1>8, <2>1, <2>2, <2>3, <2>4, Replies, LiveHandled
<1>9. QED BY <1>7, <1>8

LEMMA UsbSetupInKept == ASSUME TransportInv, UsbSetupIn PROVE TransportInv'
<1>1. PICK t : t = Head(pending)
  OBVIOUS
<1>2. PICK req : req = requested'
  OBVIOUS
<1>3. PICK payload \in Payloads :
        /\ DeviceHandles("usb_setup_in", payload) /\ Known(t.command.resource)
        /\ req = Requested(t.command) /\ ReadPayload(req, t, payload)
  BY <1>1, <1>2 DEF UsbSetupIn
<1>4. /\ t \in PendingTransfers /\ t.command \in HostCommand
      /\ UNCHANGED <<transport, hostCall, received>>
  BY <1>1, <1>3, Handling DEF PendingTransfers
<1>5. ran \in Nat /\ ~stray /\ requested \in HostCommand
  BY DEF TransportInv, TransportTypes, RunInv, RunsOnlyWhatWasAsked
<1>6. req = t.command /\ requested' \in HostCommand /\ RequestFits(req, t)
  BY <1>2, <1>3, <1>4, <1>5, RequestedIs
<1>7. stray' = FALSE /\ (~t.live => UNCHANGED <<ran, answered>>)
  BY <1>3, <1>4, <1>5, <1>6, ReadRuns
<1>8. CASE ~t.live
  BY <1>1, <1>3, <1>6, <1>7, <1>8, LateHandled
<1>9. CASE t.live
  <2>1. /\ hostStep \in {"status", "read"} /\ transport = "usb" /\ hostReply = None
        /\ t.command.resource = hostCall.resource /\ t.command.read = hostCall.read
    BY <1>1, <1>3, <1>9, Handling, StepOf DEF WaitedFor
  <2>2. received # "less"
    BY <2>1 DEF TransportInv, ProgramInv
  <2>3. /\ req.resource = hostCall.resource /\ req.read = hostCall.read
        /\ Known(hostCall.resource)
    BY <1>3, <1>6, <2>1
  <2>4. RightReply(payload)' /\ ran' \in {0, 1}
    BY <1>3, <1>4, <1>6, <1>9, <2>1, <2>2, <2>3, ReadReplies
  <2>5. payload \notin {None, Failed, Done}
    BY PayloadIsReply
  <2>6. QED BY <1>1, <1>3, <1>6, <1>7, <1>9, <2>1, <2>4, <2>5, LiveHandled
<1>10. QED BY <1>8, <1>9

LEMMA UsbDataKept == ASSUME TransportInv, UsbData PROVE TransportInv'
<1>1. PICK t : t = Head(pending)
  OBVIOUS
<1>2. DeviceHandles("usb_data", Done) /\ WritePayload(requested, t) /\ UNCHANGED requested
  BY <1>1 DEF UsbData
<1>3. /\ t \in PendingTransfers /\ (t.got # "less" => Fits(t.command))
      /\ UNCHANGED <<transport, hostCall, received>>
  BY <1>1, <1>2, Handling
<1>4. ran \in Nat /\ ~stray /\ requested' \in HostCommand
  BY <1>2 DEF TransportInv, TransportTypes, RunInv, RunsOnlyWhatWasAsked
<1>5. RequestFits(requested, t)
  BY <1>3, StillFits
<1>6. stray' = FALSE /\ (~t.live => UNCHANGED <<ran, answered>>)
  BY <1>2, <1>3, <1>4, <1>5, WriteRuns
<1>7. CASE ~t.live
  BY <1>1, <1>2, <1>4, <1>6, <1>7, LateHandled
<1>8. CASE t.live
  <2>1. /\ hostStep = "data" /\ hostReply = None /\ t.got = received
        /\ t.command.resource = hostCall.resource /\ t.command.read = hostCall.read
    BY <1>1, <1>2, <1>8, Handling, StepOf DEF WaitedFor
  <2>2. /\ transport = "usb" /\ received = "all" /\ ~hostCall.read /\ ~NeverSent /\ ran = 0
    BY <2>1 DEF TransportInv, ProgramInv, RunInv, NeverSent
  <2>3. /\ requested.resource = hostCall.resource
        /\ Known(hostCall.resource) => ~requested.read
    BY <1>3, <2>1, <2>2 DEF Fits
  <2>4. received # "less" /\ received # "header"
    BY <2>2
  <2>5. RightStatus' /\ ran' \in {0, 1}
    BY <1>2, <1>3, <1>5, <1>8, <2>1, <2>2, <2>3, <2>4, WriteEnds
  <2>6. QED BY <1>1, <1>2, <1>4, <1>6, <1>8, <2>1, <2>5, Replies, LiveHandled
<1>9. QED BY <1>7, <1>8

-----------------------------------------------------------------------------
LEMMA TransportKept == TransportInv /\ [TransportNext]_transportVars => TransportInv'
<1> SUFFICES ASSUME TransportInv, [TransportNext]_transportVars PROVE TransportInv'
  OBVIOUS
<1>1. CASE UNCHANGED transportVars
  <2>1. UNCHANGED <<transport, requested, last_status, pending, hostStep, hostCall,
                    hostReply, hostReturned, received, answered, ran, stray>>
    BY <1>1 DEF transportVars, deviceVars, hostSideVars, historyVars
  <2>2. TransportTypes'
    BY <2>1 DEF TransportInv, TransportTypes
  <2>3. PendingInv'
    BY <2>1 DEF TransportInv, PendingInv, WaitedFor, Fits
  <2>4. ProgramInv'
    BY <2>1 DEF TransportInv, ProgramInv, Fits
  <2>5. /\ RightReply(hostReply)' <=> RightReply(hostReply)
        /\ RightReply(hostReturned)' <=> RightReply(hostReturned)
        /\ RightStatus' <=> RightStatus
    BY <2>1 DEF RightReply, RightStatus, NeverSent, TooShort, RanAsOwned, Expected
  <2>6. RunInv'
    BY <2>1, <2>5 DEF TransportInv, RunInv, RunsOnlyWhatWasAsked, Written
  <2>7. QED BY <2>2, <2>3, <2>4, <2>6 DEF TransportInv
<1>2. CASE HostStarts \/ HostProgram \/ HostGivesUp
  BY <1>2, StartsKept, ReadsI2cKept, SendsDataKept, ReadsStatusKept, ReturnsKept, GivesUpKept
     DEF HostProgram
<1>3. CASE Device
  BY <1>3, I2cWrittenKept, I2cReadKept, UsbRefusesKept, UsbSetupOutKept, UsbSetupInKept,
     UsbDataKept
     DEF Device
<1>4. QED BY <1>1, <1>2, <1>3 DEF TransportNext

LEMMA TransportAlways == TransportSpec => []TransportInv
<1>1. QED BY TransportStarts, TransportKept, PTL DEF TransportSpec

\* Nothing runs for the host but the command it gave, and not more than once,
\* over I2C or USB, for any number of late transfers of commands the host gave
\* up that the device handles before.
THEOREM TransportsRunWhatWasAsked == TransportSpec => []RunsOnlyWhatWasAsked
<1>1. TransportInv => RunsOnlyWhatWasAsked
  BY DEF TransportInv, RunInv
<1>2. QED BY <1>1, TransportAlways, PTL

LEMMA RightReturn == TransportInv => ReturnsOwnAnswer
<1> SUFFICES ASSUME TransportInv, hostStep = "idle", hostReturned \notin {None, Failed}
             PROVE  CASE transport = "usb" /\ ~hostCall.read /\ hostCall.empty -> ran = 0
                      [] received = "less" -> TRUE
                      [] received = "header" /\ ~hostCall.empty /\ Known(hostCall.resource) ->
                           ran = 0 /\ hostReturned = StatusIs("DATA_LENGTH_ERROR")
                      [] OTHER ->
                           /\ hostReturned \in Expected
                           /\ ran = IF hostCall.resource \in OwnedResources THEN 1 ELSE 0
  BY DEF ReturnsOwnAnswer
<1>1. RightReply(hostReturned) /\ (transport = "usb" => received = "all")
  BY DEF TransportInv, RunInv, ProgramInv
<1>2. received \in {"all", "header", "less"}
  BY DEF TransportInv, TransportTypes, Received
<1>3. CASE NeverSent
  <2>1. ran = 0 /\ received # "less" /\ received # "header"
    BY <1>1, <1>3 DEF RightReply, NeverSent
  <2>2. QED BY <1>3, <2>1 DEF NeverSent
<1>4. CASE ~NeverSent /\ received = "less"
  <2>1. received # "header"
    BY <1>4
  <2>2. QED BY <1>4, <2>1 DEF NeverSent
<1>5. CASE ~NeverSent /\ received # "less" /\ TooShort
  <2>1. ran = 0 /\ hostReturned = StatusIs("DATA_LENGTH_ERROR")
    BY <1>1, <1>5 DEF RightReply
  <2>2. QED BY <1>5, <2>1 DEF NeverSent, TooShort
<1>6. CASE ~NeverSent /\ received # "less" /\ ~TooShort
  <2>1. hostReturned \in Expected /\ ran = IF hostCall.resource \in OwnedResources THEN 1 ELSE 0
    BY <1>1, <1>6 DEF RightReply, RanAsOwned
  <2>2. QED BY <1>6, <2>1 DEF NeverSent, TooShort
<1>7. QED BY <1>3, <1>4, <1>5, <1>6

\* A command the host did not give up, over I2C or USB, returns the answer to
\* itself and was run exactly if a servicer owns its resource, with the
\* exceptions that ReturnsOwnAnswer names.
THEOREM TransportsReturnOwnAnswer == TransportSpec => []ReturnsOwnAnswer
<1>1. QED BY RightReturn, TransportAlways, PTL
=============================================================================
