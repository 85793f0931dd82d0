------------------------- MODULE MCAcquisitionQueue -------------------------
(***************************************************************************)
(* Small instances of AcquisitionQueue for TLC.                            *)
(***************************************************************************)
EXTENDS AcquisitionQueue

CONSTANTS i1, i2, i3

=============================================================================
