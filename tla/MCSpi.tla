-------------------------------- MODULE MCSpi --------------------------------
(***************************************************************************)
(* Two servicers of the firmware: one on the tile of the transport and one *)
(* on the other; nobody owns the resource "other".  The SPI link and the   *)
(* two other transports are parts of one run: each state belongs to the    *)
(* part that Init chose, and the other part rests.                         *)
(***************************************************************************)
EXTENDS SpiControl, ControlTransports, TLC

MCOwned == "gpio" :> {"in"} @@ "led" :> {"ring"}
MCArrayIndex == [s \in Servicers |-> "spi" :> 0]

VARIABLE part

LinkInit ==
  /\ part \in {"spi", "transports"}
  /\ SpiInit /\ TransportInit
  /\ part = "spi" => transport = "usb"
  /\ part = "transports" => port = 0

LinkNext ==
  /\ UNCHANGED part
  /\ \/ part = "spi" /\ SpiNext /\ UNCHANGED transportVars
     \/ part = "transports" /\ TransportNext /\ UNCHANGED spiControlVars

LinkSpec ==
  /\ LinkInit /\ [][LinkNext]_<<spiControlVars, transportVars, part>>
  /\ part = "spi" => SpiFairness
=============================================================================
