------------------------------ MODULE MCControl ------------------------------
(***************************************************************************)
(* Two instances and a servicer on each tile, one of which owns two        *)
(* resources; nobody owns the resource "other".  The servicers go through  *)
(* the instances in opposite orders.                                       *)
(***************************************************************************)
EXTENDS DeviceControl, TLC

MCOwned == "gpio" :> {"in", "out"} @@ "led" :> {"ring"}
MCArrayIndex == "gpio" :> ("first" :> 0 @@ "second" :> 1)
                @@ "led" :> ("first" :> 1 @@ "second" :> 0)
=============================================================================
