------------------------------ MODULE MCProbe ------------------------------
(***************************************************************************)
(* An MSI-X card with a user BAR and engines in both directions, next to   *)
(* either an MSI card with all BARs and one C2H engine or a legacy card    *)
(* with nothing but the config BAR.                                        *)
(***************************************************************************)
EXTENDS Probe

CONSTANTS d1, d2

Msix   == [irq |-> "msix",   bars |-> 2, config |-> 1, engines |-> {0, 1, 4}]
Msi    == [irq |-> "msi",    bars |-> 3, config |-> 1, engines |-> {4}]
Legacy == [irq |-> "legacy", bars |-> 1, config |-> 0, engines |-> {}]

MCCards == [d \in Devices |-> IF d = d1 THEN {Msix} ELSE {Msi, Legacy}]
=============================================================================
