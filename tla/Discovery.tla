----------------------------- MODULE Discovery -----------------------------
(***************************************************************************)
(* What a program learns of its machine without waiting for a device: the  *)
(* device tree, the PCI bus and the wall clock.  Each is used on its own,  *)
(* so a behaviour is about one of them.                                    *)
(***************************************************************************)
EXTENDS Fdt, Pci, Clock

vars == <<fdtVars, pciVars, clockVars>>

Init ==
  \/ FdtStart /\ PciUnused /\ ClockUnused
  \/ FdtUnused /\ PciStart /\ ClockUnused
  \/ FdtUnused /\ PciUnused /\ ClockStart

Next ==
  \/ FdtNext /\ UNCHANGED <<pciVars, clockVars>>
  \/ PciNext /\ UNCHANGED <<fdtVars, clockVars>>
  \/ ClockNext /\ UNCHANGED <<fdtVars, pciVars>>

DiscoverySpec == Init /\ [][Next]_vars
=============================================================================
