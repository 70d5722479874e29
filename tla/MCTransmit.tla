----------------------------- MODULE MCTransmit -----------------------------
(* Instances of Transmit for TLC. *)
EXTENDS Transmit

Packs(o) == o.packs /\ o.beacon /\ o.bt # {}

\* Every accepted command line but two kinds: the packs for the beacon and bt5
\* at once, and gps beside single messages for the beacon and Bluetooth at once.
OneCounter == {o \in Options : /\ ~Packs(o)
                               /\ o.packs \/ ~o.beacon \/ o.bt = {} \/ ~o.gps}

\* The packs for both.
SharedCounter == {o \in Options : Packs(o)}

OneGps == {[beacon |-> FALSE, bt |-> {"bt5"}, packs |-> TRUE, gps |-> TRUE]}
=============================================================================
