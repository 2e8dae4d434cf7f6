------------------------------ MODULE SpiControl ------------------------------
(***************************************************************************)
(* The device control instance of the firmware: the SPI transport          *)
(* (device_control_spi.c) with the host at the other end of the wire       *)
(* (device_access_spi_rpi.c), and the task that keeps the status of an     *)
(* input port in the status buffer (gpio_servicer.c).                      *)
(*                                                                         *)
(* A transfer on the wire goes both ways.  One that finds the transport's  *)
(* buffers prepared carries a request in and the previous response out;    *)
(* any other goes to default buffers, which tell the host that it was      *)
(* ignored, and leaves no trace: the host repeats it.                      *)
(***************************************************************************)
EXTENDS DeviceControl

CONSTANTS
  PortValues,       \* what the input port can show
  EarlyChanges      \* the port may change before the instance is ready

ASSUME SpiAssumption ==
  /\ Gateways = {"spi"} /\ "gpio" \in OnTile /\ "none" \notin Resources
  /\ 0 \in PortValues /\ PortValues \subseteq Nat /\ EarlyChanges \in BOOLEAN

VARIABLES
  spiPc,            \* the SPI task
  prepared,         \* the transport's buffers are prepared for a transfer
  rx, tx,           \* spi_xfer_rx_buf, spi_xfer_tx_buf
  hostPc,           \* control_write_command, control_read_command
  hostCommand, hostResult,
  runs,             \* how often a servicer executed the host's command
  port, interrupt,  \* the input port, and its interrupt
  notified,         \* the notification of gpio_handler_task
  handlerPc, sample \* gpio_handler_task, its gpio_val

spiVars == <<spiPc, prepared, rx, tx>>
hostVars == <<hostPc, hostCommand, hostResult>>
handlerVars == <<interrupt, notified, handlerPc, sample>>
gpioVars == <<port, handlerVars>>
spiControlVars == <<vars, spiVars, hostVars, runs, gpioVars>>

g0 == "spi"
\* oneByte: a read with a payload length of 1, the status without any data
HostCommands ==
  {c \in [resource : Resources, read : BOOLEAN, oneByte : BOOLEAN] :
     c.oneByte => c.read}
Nop == [resource |-> "none", read |-> FALSE, oneByte |-> FALSE]

\* A response without payload begins with 1 and holds ret; the answer to a read
\* begins with the servicer's status.
StatusResponse(ret) == [kind |-> "status", resource |-> "none", status |-> ret]
ReadResponse(r, st) == [kind |-> "read", resource |-> r, status |-> st]
Responses ==
  [kind : {"zeros", "status", "read"}, resource : Resources \cup {"none"},
   status : ServicerStatuses \cup {"BAD_COMMAND", "MALFORMED_PACKET", "none"}]
Zeros == [kind |-> "zeros", resource |-> "none", status |-> "none"]

SpiTypeOK ==
  /\ spiPc \in {"boot", "idle", "handle", "transfer", "prepare"}
  /\ prepared \in BOOLEAN
  /\ rx \in HostCommands \cup {Nop} /\ tx \in Responses
  /\ hostPc \in {"idle", "send", "fetch"}
  /\ hostCommand \in HostCommands /\ hostResult \in Responses
  /\ runs \in 0 .. 2
  /\ port \in PortValues /\ interrupt \in BOOLEAN /\ notified \in BOOLEAN
  /\ handlerPc \in {"off", "fresh", "read", "store", "wait"} /\ sample \in PortValues

SpiInit ==
  /\ Init
  /\ spiPc = "boot" /\ prepared = FALSE /\ rx = Nop /\ tx = Zeros
  /\ hostPc = "idle" /\ hostResult = Zeros
  /\ hostCommand = [resource |-> "special", read |-> FALSE, oneByte |-> FALSE]
  /\ runs = 0
  /\ port \in PortValues /\ interrupt = FALSE /\ notified = FALSE
  /\ handlerPc = "off" /\ sample = 0

-----------------------------------------------------------------------------
(***************************************************************************)
(* The host                                                                *)
(***************************************************************************)
HostCalls ==
  /\ hostPc = "idle"
  /\ \E c \in HostCommands : hostCommand' = c
  /\ hostPc' = "send" /\ hostResult' = Zeros /\ runs' = 0
  /\ UNCHANGED <<vars, spiVars, gpioVars>>

\* A transfer with the transport's buffers; an ignored one changes nothing.
Transfer(request) ==
  /\ prepared
  /\ prepared' = FALSE
  /\ rx' = request
  /\ spiPc' = "handle"
  /\ UNCHANGED <<vars, tx, runs, gpioVars>>

HostSendsAgain ==
  /\ hostPc = "send" /\ Transfer(hostCommand)
  /\ hostPc' \in {"send", "fetch"}
  /\ UNCHANGED <<hostCommand, hostResult>>

HostSends ==
  /\ hostPc = "send" /\ Transfer(hostCommand)
  /\ hostPc' = "fetch"
  /\ UNCHANGED <<hostCommand, hostResult>>

HostFetches ==
  /\ hostPc = "fetch" /\ Transfer(Nop)
  /\ hostPc' = "idle" /\ hostResult' = tx
  /\ UNCHANGED hostCommand

-----------------------------------------------------------------------------
(***************************************************************************)
(* The SPI task: device_control_spi_start_cb, device_control_spi_xfer_done_cb *)
(***************************************************************************)
SpiStarts ==
  /\ spiPc = "boot" /\ gw[g0] = "ready"
  /\ spiPc' = "idle" /\ prepared' = TRUE
  /\ UNCHANGED <<vars, rx, tx, hostVars, runs, gpioVars>>

\* A packet of zeros, or one that is too short, and a resource of nobody's
\* (device_control_request) get a response at once.
SpiResponds ==
  /\ spiPc = "handle"
  /\ \/ rx = Nop /\ \E ret \in {"SUCCESS", "MALFORMED_PACKET"} : tx' = StatusResponse(ret)
                 /\ UNCHANGED vars
     \/ /\ rx # Nop /\ ~Found(g0, rx.resource)
        /\ Refuse(g0, rx.resource) /\ UNCHANGED lastStatus
        /\ tx' = StatusResponse("BAD_COMMAND")
  /\ spiPc' = "prepare"
  /\ UNCHANGED <<prepared, rx, hostVars, runs, gpioVars>>

SpiCallsAhead ==
  /\ spiPc = "handle" /\ rx # Nop
  /\ Begin(g0, rx.resource)
  /\ spiPc' = "transfer" /\ prepared' = TRUE
  /\ UNCHANGED <<rx, tx, hostVars, runs, gpioVars>>

SpiCalls ==
  /\ spiPc = "handle" /\ rx # Nop
  /\ Begin(g0, rx.resource)
  /\ spiPc' = "transfer"
  /\ UNCHANGED <<prepared, rx, tx, hostVars, runs, gpioVars>>

\* num_response_bytes is 1 when it is not set, and also when a read sets it to 1.
OneResponseByte == rx.read => rx.oneByte

\* The library's own resource is not written, and read with a length of 1; a
\* longer read leaves the buffer as the last transfer found it.
SpiCallsSpecial ==
  /\ spiPc = "handle" /\ rx # Nop /\ rx.resource = "special"
  /\ Special(g0)
  /\ lastStatus'[g0] = "SUCCESS" => rx.oneByte
  /\ tx' = IF OneResponseByte THEN StatusResponse("SUCCESS") ELSE tx
  /\ spiPc' = "prepare"
  /\ UNCHANGED <<prepared, rx, hostVars, runs, gpioVars>>

\* The servicer's answer to a read stays in the buffer; a response of one byte is
\* overwritten with the status of the request, not the servicer's.
SpiReturns ==
  /\ spiPc = "transfer" /\ gw[g0] = "ready"
  /\ tx' = IF OneResponseByte THEN StatusResponse("SUCCESS")
           ELSE ReadResponse(call[g0], lastStatus[g0])
  /\ spiPc' = "prepare"
  /\ UNCHANGED <<vars, prepared, rx, hostVars, runs, gpioVars>>

SpiPreparesAfterSuccess ==
  /\ spiPc = "prepare"
  /\ spiPc' = "idle" /\ prepared' = (tx.status = "SUCCESS")
  /\ UNCHANGED <<vars, rx, tx, hostVars, runs, gpioVars>>

SpiPrepares ==
  /\ spiPc = "prepare"
  /\ spiPc' = "idle" /\ prepared' = TRUE
  /\ UNCHANGED <<vars, rx, tx, hostVars, runs, gpioVars>>

-----------------------------------------------------------------------------
(***************************************************************************)
(* The input port and gpio_handler_task                                    *)
(***************************************************************************)
PortChanges ==
  /\ EarlyChanges \/ gw[g0] = "ready"
  /\ \E v \in PortValues \ {port} : port' = v
  /\ interrupt' = (handlerPc # "off")
  /\ UNCHANGED <<vars, spiVars, hostVars, runs, notified, handlerPc, sample>>

\* gpio_callback
GpioCallback ==
  /\ interrupt
  /\ interrupt' = FALSE /\ notified' = TRUE
  /\ UNCHANGED <<vars, spiVars, hostVars, runs, port, handlerPc, sample>>

\* Created by the servicer's task once it has registered
HandlerStarts ==
  /\ handlerPc = "off" /\ toRegister["gpio"] = {}
  /\ handlerPc' = "fresh"
  /\ UNCHANGED <<vars, spiVars, hostVars, runs, port, interrupt, notified, sample>>

HandlerWakes ==
  /\ handlerPc \in {"fresh", "wait"} /\ notified
  /\ notified' = FALSE /\ handlerPc' = "read"
  /\ UNCHANGED <<vars, spiVars, hostVars, runs, port, interrupt, sample>>

HandlerReads ==
  /\ handlerPc = "read"
  /\ sample' = port /\ handlerPc' = "store"
  /\ UNCHANGED <<vars, spiVars, hostVars, runs, port, interrupt, notified>>

\* device_control_set_resource_status
HandlerStoresAndClears ==
  /\ handlerPc = "store" /\ statusLen[g0]
  /\ statusBuffer' = [statusBuffer EXCEPT ![g0] = sample]
  /\ handlerPc' = "wait" /\ notified' = FALSE
  /\ UNCHANGED <<gw, bootVars, channelVars, servicerVars, call, lastStatus, statusLen,
                 spiVars, hostVars, runs, port, interrupt, sample>>

HandlerStores ==
  /\ handlerPc = "store" /\ statusLen[g0]
  /\ statusBuffer' = [statusBuffer EXCEPT ![g0] = sample]
  /\ handlerPc' = "wait"
  /\ UNCHANGED <<gw, bootVars, channelVars, servicerVars, call, lastStatus, statusLen,
                 spiVars, hostVars, runs, port, interrupt, notified, sample>>

-----------------------------------------------------------------------------
\* The library's tasks, the transport's being modelled above
Library ==
  /\ \/ Gateway(g0) \/ Sends(g0) \/ ClientReceive(g0) \/ RegistrationFails(g0)
     \/ \E s \in Servicers : Receive(s) \/ Reply(s) \/ Register(s, g0)
  /\ UNCHANGED <<spiVars, hostVars, runs, gpioVars>>

ServicerExecutes ==
  /\ \E s \in Servicers : Execute(s)
  /\ runs' = (IF runs < 2 THEN runs + 1 ELSE 2)
  /\ UNCHANGED <<spiVars, hostVars, gpioVars>>

SpiTask ==
  SpiStarts \/ SpiResponds \/ SpiCalls \/ SpiCallsSpecial \/ SpiReturns \/ SpiPrepares
Host == HostSends \/ HostFetches
Handler == HandlerStarts \/ HandlerWakes \/ HandlerReads \/ HandlerStores

SpiNext ==
  /\ ~Halted
  /\ HostCalls \/ Host \/ SpiTask \/ PortChanges \/ GpioCallback \/ Handler
       \/ Library \/ ServicerExecutes

\* The host repeats an ignored transfer until it is accepted.
SpiFairness ==
  /\ WF_spiControlVars(~Halted /\ Host)
  /\ WF_spiControlVars(~Halted /\ SpiTask)
  /\ WF_spiControlVars(~Halted /\ (Gateway(g0) \/ Sends(g0))
                         /\ UNCHANGED <<spiVars, hostVars, runs, gpioVars>>)
  /\ WF_spiControlVars(~Halted /\ ClientReceive(g0)
                         /\ UNCHANGED <<spiVars, hostVars, runs, gpioVars>>)
  /\ WF_spiControlVars(~Halted /\ ServicerExecutes)
  /\ \A s \in Servicers :
       WF_spiControlVars(~Halted /\ (Receive(s) \/ Reply(s) \/ Register(s, g0))
                           /\ UNCHANGED <<spiVars, hostVars, runs, gpioVars>>)

SpiSpec == SpiInit /\ [][SpiNext]_spiControlVars
SpiFairSpec == SpiSpec /\ SpiFairness

-----------------------------------------------------------------------------
HostDone == hostPc = "idle" /\ hostResult # Zeros

\* Though the host repeats what is ignored, and nothing tells it apart from
\* what is not, each command is executed once, and none that nobody owns.
ExecutedOnce ==
  HostDone =>
    runs = IF \E s \in Servicers : hostCommand.resource \in Owned[s] THEN 1 ELSE 0

\* What the host reads is the answer to its own command and not the response to
\* the transfer before: for a read the payload with the status that the servicer
\* gave it, and for a write or a read of one byte, whatever that status was, the
\* response that the transport puts in its place (device_control_spi.c:82-89).
AnswerIsOwn ==
  HostDone /\ (\E s \in Servicers : hostCommand.resource \in Owned[s]) =>
    hostResult = IF hostCommand.read /\ ~hostCommand.oneByte
                 THEN ReadResponse(hostCommand.resource, lastStatus[g0])
                 ELSE StatusResponse("SUCCESS")

\* Every call of the host returns, however often it has to repeat.
HostCallsReturn == hostPc # "idle" ~> hostPc = "idle" \/ Halted

\* Once a change was handled and none is on its way, the status buffer shows
\* the port: a change while the task reads notifies it again.
StatusFollowsPort ==
  handlerPc = "wait" /\ ~interrupt /\ ~notified => statusBuffer[g0] = port

\* The status buffer is there when the task writes to it.
StatusBufferThere == handlerPc = "store" => statusLen[g0]
=============================================================================
