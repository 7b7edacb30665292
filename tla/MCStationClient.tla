-------------------------- MODULE MCStationClient --------------------------
(***************************************************************************)
(* Instances of StationClient for TLC.                                     *)
(***************************************************************************)
EXTENDS StationInvariant
=============================================================================
