-------------------------- MODULE MCHciAdvertising --------------------------
(* Instances of HciAdvertising for TLC. *)
EXTENDS HciAdvertising

\* What parse_command_line accepts, but for bt4 together with bt5.
OneTransport == {{"btl"}, {"bt4"}, {"bt5"}}

\* bt4 and bt5 at once: accepted, with a warning.
BothExtended == {{"bt4", "bt5"}}
============================================================================
