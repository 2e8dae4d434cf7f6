--------------------------- MODULE ControlTransports ---------------------------
(***************************************************************************)
(* The device control library over its other two transports, I2C and USB,  *)
(* with the host program at the far end: device_control_request and        *)
(* device_control_payload_transfer (device_control.c), the callbacks       *)
(* (device_control_i2c.c, device_control_usb.c) and the host's read and    *)
(* write commands (device_access_i2c_rpi.c, device_access_usb.c).          *)
(*                                                                         *)
(* A command takes several transfers, and the device keeps the request of  *)
(* the last one in between.  The host may give up on a transfer at any     *)
(* time, and the device then still handles it, before the next.  do_command *)
(* is one step here; DeviceControl shows how it goes about it.             *)
(***************************************************************************)
EXTENDS Naturals, Sequences

CONSTANTS
  OwnedResources,   \* the resources some servicer registered
  ServicerAnswers,  \* the statuses a servicer may answer
  MaxPending        \* bound: transfers the device has yet to handle

ASSUME TransportAssumption ==
  /\ {"special", "unknown"} \cap OwnedResources = {}
  /\ "SUCCESS" \in ServicerAnswers /\ MaxPending \in Nat \ {0}

VARIABLES
  transport,        \* "i2c" or "usb"
  requested,        \* requested_resid, requested_cmd and its length
  last_status,      \* last_status
  pending,          \* the transfers the device has yet to handle
  hostStep,         \* the host's program: which transfer it waits for
  hostCall,         \* the command the host was called with
  hostReply,        \* what the transfer it waits for brought
  hostReturned,     \* what the last command returned
  received,         \* how much of its write reached the device
  answered,         \* what the servicer answered to it
  ran,              \* how often it ran
  stray             \* a transfer whose header was whole ran another's command

deviceVars == <<requested, last_status>>
historyVars == <<answered, ran, stray>>
hostSideVars == <<hostStep, hostCall, hostReply, hostReturned, received>>
transportVars == <<transport, deviceVars, pending, hostSideVars, historyVars>>

HostCommand ==
  [resource : OwnedResources \cup {"special", "unknown"},
   read : BOOLEAN, empty : BOOLEAN]
Transfers == {"i2c_write", "i2c_read", "usb_setup_out", "usb_data", "usb_setup_in"}
Received == {"all", "header", "less"}
None == [kind |-> "none"]
Failed == [kind |-> "failed"]
Done == [kind |-> "done"]
StatusIs(st) == [kind |-> "status", status |-> st]
DataOf(r, st) == [kind |-> "data", resource |-> r, status |-> st]

TransportTypeOK ==
  /\ transport \in {"i2c", "usb"}
  /\ requested \in HostCommand /\ hostCall \in HostCommand
  /\ \A k \in DOMAIN pending :
       pending[k] \in [kind : Transfers, command : HostCommand,
                       got : Received, live : BOOLEAN]
  /\ hostStep \in {"idle", "write", "data", "status", "read"}
  /\ received \in Received /\ ran \in Nat /\ stray \in BOOLEAN

TransportInit ==
  /\ transport \in {"i2c", "usb"}
  /\ requested = [resource |-> "special", read |-> FALSE, empty |-> FALSE]
  /\ last_status = "SUCCESS" /\ pending = <<>>
  /\ hostStep = "idle" /\ hostCall = requested
  /\ hostReply = None /\ hostReturned = None /\ received = "all"
  /\ answered = "none" /\ ran = 0 /\ stray = FALSE

-----------------------------------------------------------------------------
(***************************************************************************)
(* The device                                                              *)
(***************************************************************************)
Known(r) == r \in OwnedResources \cup {"special"}

RequestedKeepingRead(c) ==
  IF Known(c.resource) THEN [c EXCEPT !.read = requested.read] ELSE requested

\* device_control_request: a resource of nobody's leaves the command alone.
Requested(c) ==
  IF Known(c.resource) THEN c ELSE [requested EXCEPT !.resource = c.resource]

NotRun == UNCHANGED historyVars

\* do_command for transfer t: the library's own resource can be read only.
DoCommand(req, t, st) ==
  \/ /\ req.resource = "special"
     /\ st \in (IF req.read THEN {"SUCCESS", "BAD_COMMAND"} ELSE {"BAD_COMMAND"})
     /\ NotRun
  \/ /\ req.resource \in OwnedResources /\ st \in ServicerAnswers
     /\ IF t.live THEN ran' = ran + 1 /\ answered' = st ELSE UNCHANGED <<ran, answered>>
     /\ stray' = (stray \/ (/\ t.got # "less"
                             /\ \/ req.resource # t.command.resource
                                \/ req.read # t.command.read))

AllStatuses == ServicerAnswers \cup {"BAD_COMMAND"}

\* device_control_payload_transfer, CONTROL_HOST_TO_DEVICE
WritePayload(req, t) ==
  \/ ~Known(req.resource) /\ last_status' = "BAD_RESOURCE" /\ NotRun
  \/ Known(req.resource) /\ req.read /\ last_status' = "SUCCESS" /\ NotRun
  \/ /\ Known(req.resource) /\ ~req.read
     /\ IF t.got = "header" /\ ~req.empty
        THEN last_status' = "DATA_LENGTH_ERROR" /\ NotRun
        ELSE \E st \in AllStatuses : DoCommand(req, t, st) /\ last_status' = st

StatusByRunningAgain(req, t, payload) ==
  /\ ~req.read
  /\ \E st \in AllStatuses : DoCommand(req, t, st) /\ payload = StatusIs(st)

\* The status of a write that the host asks for runs nothing.
StatusOfWrite(req, t, payload) ==
  /\ ~req.read /\ payload = StatusIs(last_status)
  /\ NotRun

\* device_control_payload_transfer, CONTROL_DEVICE_TO_HOST
ReadPayload(req, t, payload) ==
  \/ /\ ~Known(req.resource) /\ last_status' = "BAD_RESOURCE"
     /\ payload = StatusIs("BAD_RESOURCE") /\ NotRun
  \/ /\ Known(req.resource) /\ UNCHANGED last_status
     /\ \/ StatusOfWrite(req, t, payload)
        \/ req.read /\ \E st \in AllStatuses :
             DoCommand(req, t, st) /\ payload = DataOf(req.resource, st)

Payloads ==
  {StatusIs(st) : st \in AllStatuses
     \cup {"BAD_RESOURCE", "DATA_LENGTH_ERROR", "MALFORMED_PACKET"}}
    \cup {DataOf(r, st) : r \in OwnedResources \cup {"special"}, st \in AllStatuses}

\* The next transfer is handled, and the host told if it still waits for it.
DeviceHandles(kind, reply) ==
  /\ pending # <<>> /\ Head(pending).kind = kind
  /\ pending' = Tail(pending)
  /\ hostReply' = IF Head(pending).live THEN reply ELSE hostReply
  /\ UNCHANGED <<transport, hostStep, hostCall, hostReturned, received>>

\* device_control_i2c_rx_cb
I2cWritten ==
  LET t == Head(pending)
      req == Requested(t.command)
  IN /\ DeviceHandles("i2c_write", Done)
     /\ IF t.got = "less"
        THEN last_status' = "MALFORMED_PACKET" /\ UNCHANGED requested /\ NotRun
        ELSE requested' = req /\ WritePayload(req, t)

\* device_control_i2c_tx_start_cb
I2cRead == \E payload \in Payloads :
  /\ DeviceHandles("i2c_read", payload)
  /\ ReadPayload(requested, Head(pending), payload)
  /\ UNCHANGED requested

\* device_control_usb_xfer, CONTROL_STAGE_SETUP: a bad request is stalled.
UsbRefuses ==
  /\ \E kind \in {"usb_setup_out", "usb_setup_in"} : DeviceHandles(kind, Failed)
  /\ ~Known(Head(pending).command.resource)
  /\ requested' = Requested(Head(pending).command)
  /\ UNCHANGED <<last_status, historyVars>>

UsbSetupOut ==
  /\ DeviceHandles("usb_setup_out", Done)
  /\ Known(Head(pending).command.resource)
  /\ requested' = Requested(Head(pending).command)
  /\ UNCHANGED <<last_status, historyVars>>

UsbSetupIn == \E payload \in Payloads :
  /\ DeviceHandles("usb_setup_in", payload)
  /\ Known(Head(pending).command.resource)
  /\ requested' = Requested(Head(pending).command)
  /\ ReadPayload(requested', Head(pending), payload)

\* CONTROL_STAGE_DATA
UsbData ==
  /\ DeviceHandles("usb_data", Done)
  /\ WritePayload(requested, Head(pending))
  /\ UNCHANGED requested

Device == I2cWritten \/ I2cRead \/ UsbRefuses \/ UsbSetupOut \/ UsbSetupIn \/ UsbData

-----------------------------------------------------------------------------
(***************************************************************************)
(* The host                                                                *)
(***************************************************************************)
StartTransfer(kind, command, got) ==
  /\ Len(pending) < MaxPending
  /\ pending' = Append(pending, [kind |-> kind, command |-> command,
                                 got |-> got, live |-> TRUE])
  /\ hostReply' = None /\ received' = got

\* control_write_command and control_read_command: the first transfer of a
\* command.  An I2C write may be cut short on its way.
HostStarts ==
  /\ hostStep = "idle"
  /\ \E c \in HostCommand, got \in Received :
       /\ c.read => ~c.empty
       /\ got # "all" => transport = "i2c"
       /\ c.read => got # "header"
       /\ hostCall' = c
       /\ StartTransfer(CASE transport = "i2c" -> "i2c_write"
                          [] transport = "usb" /\ c.read -> "usb_setup_in"
                          [] OTHER -> "usb_setup_out", c, got)
       /\ hostStep' = IF transport = "usb" /\ c.read THEN "read" ELSE "write"
  /\ hostReturned' = None /\ ran' = 0 /\ stray' = FALSE /\ answered' = "none"
  /\ UNCHANGED <<transport, deviceVars>>

\* Over I2C the header is followed by the read, unless it was cut short, or the
\* write by its status.
HostReadsI2c ==
  /\ transport = "i2c" /\ hostStep = "write" /\ hostReply = Done
  /\ hostCall.read => received = "all"
  /\ StartTransfer("i2c_read", hostCall, received)
  /\ hostStep' = IF hostCall.read THEN "read" ELSE "status"
  /\ UNCHANGED <<transport, deviceVars, hostCall, hostReturned, historyVars>>

\* Over USB a write has a data stage unless it is empty.
HostSendsData ==
  /\ transport = "usb" /\ hostStep = "write" /\ hostReply = Done /\ ~hostCall.empty
  /\ StartTransfer("usb_data", hostCall, received)
  /\ hostStep' = "data"
  /\ UNCHANGED <<transport, deviceVars, hostCall, hostReturned, historyVars>>

\* Then the status is read, with a setup of its own for a write of one byte.
HostReadsStatus ==
  /\ transport = "usb" /\ hostReply = Done
  /\ (hostStep = "write" => hostCall.empty) /\ hostStep \in {"write", "data"}
  /\ StartTransfer("usb_setup_in", [hostCall EXCEPT !.empty = FALSE], received)
  /\ hostStep' = "status"
  /\ UNCHANGED <<transport, deviceVars, hostCall, hostReturned, historyVars>>

HostReturns ==
  /\ hostReply # None
  /\ hostStep \in {"status", "read"} \/ hostReply = Failed
  /\ hostStep' = "idle" /\ hostReturned' = hostReply
  /\ UNCHANGED <<transport, deviceVars, pending, hostCall, hostReply, received, historyVars>>

\* A timeout or an error on the bus: CONTROL_ERROR.  The device handles what
\* has reached it all the same; the last transfer may not have.
HostGivesUp ==
  /\ hostStep # "idle"
  /\ hostStep' = "idle" /\ hostReturned' = Failed /\ hostReply' = None
  /\ \/ pending' = [k \in DOMAIN pending |-> [pending[k] EXCEPT !.live = FALSE]]
     \/ /\ pending # <<>> /\ pending[Len(pending)].live
        /\ pending' = SubSeq(pending, 1, Len(pending) - 1)
  /\ UNCHANGED <<transport, deviceVars, hostCall, received, historyVars>>

HostProgram == HostReadsI2c \/ HostSendsData \/ HostReadsStatus \/ HostReturns
TransportNext == HostStarts \/ HostProgram \/ HostGivesUp \/ Device
TransportSpec == TransportInit /\ [][TransportNext]_transportVars

-----------------------------------------------------------------------------
\* What a command that was not cut short should return
Expected ==
  CASE hostCall.resource = "unknown" ->
         {IF transport = "usb" THEN Failed ELSE StatusIs("BAD_RESOURCE")}
    [] hostCall.resource = "special" /\ hostCall.read ->
         {DataOf("special", st) : st \in {"SUCCESS", "BAD_COMMAND"}}
    [] hostCall.resource = "special" /\ ~hostCall.read -> {StatusIs("BAD_COMMAND")}
    [] hostCall.resource \in OwnedResources /\ hostCall.read ->
         {DataOf(hostCall.resource, answered)}
    [] OTHER -> {StatusIs(answered)}

\* Nothing runs for the host but the command it gave, and not more than once,
\* though the device keeps that command between the transfers and late
\* transfers of commands it gave up on are handled before.  An I2C write cut
\* short within its header is the exception: the read of its status finds the
\* command of the one before, and runs it if it was a read.
RunsOnlyWhatWasAsked ==
  ran <= 1 /\ ~stray

\* A command that the host did not give up returns the answer to itself, and was
\* run exactly if a servicer owns it.  The exceptions: an I2C write cut short,
\* which is not run, and a write without payload over USB, which is never run
\* (it has no data stage) and returns the status of a command before.
ReturnsOwnAnswer ==
  hostStep = "idle" /\ hostReturned \notin {None, Failed} =>
    CASE transport = "usb" /\ ~hostCall.read /\ hostCall.empty -> ran = 0
      [] received = "less" -> TRUE
      [] received = "header" /\ ~hostCall.empty /\ Known(hostCall.resource) ->
           ran = 0 /\ hostReturned = StatusIs("DATA_LENGTH_ERROR")
      [] OTHER -> /\ hostReturned \in Expected
                  /\ ran = IF hostCall.resource \in OwnedResources THEN 1 ELSE 0
=============================================================================
