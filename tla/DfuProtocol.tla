----------------------------- MODULE DfuProtocol -----------------------------
(***************************************************************************)
(* What the firmware update interface promises: the state diagrams that    *)
(* dfu_state_machine.c draws above every request, as a machine with a      *)
(* mailbox for one request and no tasks, notifications or flash.           *)
(***************************************************************************)
VARIABLES
  state, status,
  unfinished,       \* a block or a manifestation waits for GETSTATUS
  pending           \* the request in the mailbox, "none" if it is empty

vars == <<state, status, unfinished, pending>>

RequestKinds == {"BLOCK", "END", "UPLOAD", "GETSTATUS", "CLRSTATUS", "ABORT",
                 "SETALTERNATE", "DETACH"}

Init == state = "IDLE" /\ status = "OK" /\ unfinished = FALSE /\ pending = "none"

Submit(r) ==
  /\ pending = "none"
  /\ pending' = r
  /\ UNCHANGED <<state, status, unfinished>>

Moves(newState, newUnfinished) ==
  /\ state' = newState /\ unfinished' = newUnfinished
  /\ UNCHANGED status

Fails(why) == state' = "ERROR" /\ status' = why /\ unfinished' = FALSE
Resets == state' = "IDLE" /\ status' = "OK" /\ unfinished' = FALSE

\* DNLOAD with data, DNLOAD with length zero
Block ==
  IF state \in {"IDLE", "DNLOAD_IDLE"} THEN Moves("DNLOAD_SYNC", TRUE)
  ELSE Fails("errSTALLEDPKT")

End ==
  IF state = "DNLOAD_IDLE" THEN Moves("MANIFEST_SYNC", TRUE)
  ELSE Fails("errSTALLEDPKT")

Upload ==
  IF state \in {"IDLE", "UPLOAD_IDLE"}
  THEN \E s \in {"IDLE", "UPLOAD_IDLE"} : Moves(s, FALSE)
  ELSE Fails("errSTALLEDPKT")

\* The work between two states ending in SYNC, which the flash may fail
GetStatus ==
  \/ unfinished /\ Moves(state, FALSE)
  \/ unfinished /\ state = "DNLOAD_SYNC"
       /\ \E why \in {"errWRITE", "errADDRESS"} : Fails(why)
  \/ ~unfinished /\ state = "DNLOAD_SYNC" /\ Moves("DNLOAD_IDLE", FALSE)
  \/ ~unfinished /\ state = "MANIFEST_SYNC" /\ Moves("IDLE", FALSE)
  \/ state \in {"IDLE", "UPLOAD_IDLE", "DNLOAD_IDLE", "ERROR"}
       /\ UNCHANGED <<state, status, unfinished>>

ClrStatus == IF state = "ERROR" THEN Resets ELSE Fails("errSTALLEDPKT")

Abort ==
  CASE state = "IDLE" -> UNCHANGED <<state, status, unfinished>>
    [] state \in {"UPLOAD_IDLE", "DNLOAD_IDLE"} -> Resets
    [] OTHER -> Fails("errSTALLEDPKT")

Serve ==
  /\ pending' = "none"
  /\ \/ pending = "BLOCK" /\ Block
     \/ pending = "END" /\ End
     \/ pending = "UPLOAD" /\ Upload
     \/ pending = "GETSTATUS" /\ GetStatus
     \/ pending = "CLRSTATUS" /\ ClrStatus
     \/ pending = "ABORT" /\ Abort
     \/ pending \in {"SETALTERNATE", "DETACH"} /\ Resets

Next == (\E r \in RequestKinds : Submit(r)) \/ Serve

Spec == Init /\ [][Next]_vars /\ WF_vars(Serve)

-----------------------------------------------------------------------------
(***************************************************************************)
(* A step that no diagram has and the code takes: ABORT refused in         *)
(* dfuIDLE.  With it, the protocol as it is built.                         *)
(***************************************************************************)
AbortRefused ==
  /\ pending = "ABORT" /\ state = "IDLE"
  /\ pending' = "none"
  /\ Fails("errSTALLEDPKT")

NextAsBuilt == Next \/ AbortRefused
ServeAsBuilt == Serve \/ AbortRefused

SpecAsBuilt == Init /\ [][NextAsBuilt]_vars /\ WF_vars(ServeAsBuilt)
=============================================================================
