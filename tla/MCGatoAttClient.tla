--------------------------- MODULE MCGatoAttClient ---------------------------
(* Small instances of GatoAttClient for TLC: its constants are all given   *)
(* in the configurations.                                                  *)
EXTENDS GatoAttClient
=============================================================================
