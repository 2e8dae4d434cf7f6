------------------------------ MODULE DfuCommon ------------------------------
(***************************************************************************)
(* The flash side of a firmware update: dfu_common.c, which the device     *)
(* control DFU task and the USB DFU callbacks both call.  Its three static *)
(* variables remember, across calls, which window of the flash the current *)
(* download is written to and how much of it has been used.                *)
(*                                                                         *)
(* Addresses and lengths are in sectors: the only length ever passed to    *)
(* dfu_common_write_to_flash is one sector.  The content of a sector is    *)
(* abstracted to the alternate setting under which it was last programmed, *)
(* or "holed" when a fragment was missing from the data.                   *)
(***************************************************************************)
EXTENDS Integers

CONSTANTS
  UpgradeAddr,      \* first sector of the upgrade image
  DataAddr,         \* first sector of the data partition
  FlashSize,        \* sectors of the flash
  ReadableFrags     \* fragments an upload can read, per alternate setting

(***************************************************************************)
(* What rtos_dfu_image and rtos_qspi_flash report about the board's flash. *)
(* The factory image starts at sector 0, and 0 is also the value that      *)
(* dfu_common.c uses for "no window open", so no partition starts there.   *)
(***************************************************************************)
ASSUME LayoutAssumption ==
  /\ UpgradeAddr \in Nat \ {0}
  /\ DataAddr \in Nat
  /\ FlashSize \in Nat
  /\ UpgradeAddr <= DataAddr
  /\ DataAddr <= FlashSize

VARIABLES
  dnBaseAddr,       \* dn_base_addr: start of the open window, 0 when none is
  bytesAvail,       \* bytes_avail: size of the open window
  totalLen,         \* total_len: sectors written through the open window
  flash             \* sector -> what it holds

flashVars == <<dnBaseAddr, bytesAvail, totalLen, flash>>
windowVars == <<dnBaseAddr, bytesAvail, totalLen>>

Sectors == 0 .. FlashSize - 1
FactorySectors == 0 .. UpgradeAddr - 1
Writable == {"upgrade", "data"}
AltSettings == Writable \cup {"factory", "other"}
SectorContent == {"untouched", "erased", "holed"} \cup Writable

\* The sectors dfu_common.h promises for each alternate setting.
Partition(alt) ==
  CASE alt = "upgrade" -> UpgradeAddr .. DataAddr - 1
    [] alt = "data"    -> DataAddr .. FlashSize - 1
    [] OTHER           -> {}

FlashTypeOK ==
  /\ dnBaseAddr \in Nat
  /\ bytesAvail \in Nat
  /\ totalLen \in Nat
  /\ flash \in [Sectors -> SectorContent]

WindowInit == dnBaseAddr = 0 /\ bytesAvail = 0 /\ totalLen = 0

FlashInit ==
  /\ WindowInit
  /\ flash = [s \in Sectors |-> "untouched"]

-----------------------------------------------------------------------------
(* The window a write goes to: an open one is kept whatever the alternate  *)
(* setting is now, a closed one is opened for it.                          *)
(* An operator that stands right before the one it resembles, here and in  *)
(* the other modules, is a plausible slip in that operator, which one of   *)
(* the properties rules out.                                               *)

WindowIsOpen == dnBaseAddr # 0

WindowBase(alt) ==
  IF WindowIsOpen THEN dnBaseAddr
  ELSE IF alt = "upgrade" THEN UpgradeAddr ELSE DataAddr

WindowSize(alt) ==
  IF WindowIsOpen THEN bytesAvail
  ELSE IF alt = "upgrade" THEN DataAddr - UpgradeAddr ELSE FlashSize - DataAddr

WindowUsed == IF WindowIsOpen THEN totalLen ELSE 0

\* (bytes_avail - total_len) >= length.  The operands are unsigned, and the
\* difference never wraps because totalLen never exceeds bytesAvail.
HasRoomOrIsFull(alt) == WindowSize(alt) - WindowUsed >= 0
HasRoom(alt) == WindowSize(alt) - WindowUsed >= 1

\* cur_addr
TargetBeforeOpening(alt, block) == dnBaseAddr + block
WriteTarget(alt, block) == WindowBase(alt) + block

WriteStatus(alt) ==
  IF alt \notin Writable THEN "errWRITE"
  ELSE IF HasRoom(alt) THEN "OK" ELSE "errADDRESS"

\* dfu_common_write_to_flash: opens the window, then programs one sector of it
WriteToFlash(alt, block, content) ==
  IF alt \notin Writable
  THEN UNCHANGED flashVars
  ELSE /\ dnBaseAddr' = WindowBase(alt)
       /\ bytesAvail' = WindowSize(alt)
       /\ IF HasRoom(alt)
          THEN /\ totalLen' = WindowUsed + 1
               /\ flash' = [flash EXCEPT ![WriteTarget(alt, block)] = content]
          ELSE /\ totalLen' = WindowUsed
               /\ UNCHANGED flash

\* dfu_common_make_manifest: closes the window
MakeManifest ==
  /\ dnBaseAddr' = 0
  /\ UNCHANGED <<bytesAvail, totalLen, flash>>

\* dfu_common_read_from_flash: a block past the end of the partition reads 0
ReadsFullBlock(alt, block) == block < ReadableFrags[alt]

\* A reset keeps the flash and forgets the window.  A reset that comes between
\* the erase and the write of a sector leaves that sector erased.
FlashReset(interrupted) ==
  /\ dnBaseAddr' = 0 /\ bytesAvail' = 0 /\ totalLen' = 0
  /\ flash' = [s \in Sectors |-> IF s \in interrupted THEN "erased" ELSE flash[s]]
=============================================================================
