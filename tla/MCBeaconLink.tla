---------------------------- MODULE MCBeaconLink ----------------------------
(* Instances of BeaconLink for TLC. *)
EXTENDS BeaconLink
============================================================================
