------------------------------ MODULE MCVolume ------------------------------
(* Instances of Volume for TLC, with small bitmaps. *)
EXTENDS VolumeProps

ManySizes == 0 .. 220
=============================================================================
