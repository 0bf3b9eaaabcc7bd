------------------------------ MODULE MCGeoIndex ------------------------------
(* The instance of the live driver index for TLC. *)
EXTENDS GeoIndexProperties
=============================================================================
