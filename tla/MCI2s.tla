------------------------------- MODULE MCI2s -------------------------------
(* The I2S driver on small buffers; the lanes and sizes are in the .cfg.   *)
EXTENDS I2s
=============================================================================
