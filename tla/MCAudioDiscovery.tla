-------------------------- MODULE MCAudioDiscovery --------------------------
(* Two parts that share no state, checked side by side: the sound driver   *)
(* with its speaker, and what a program learns of its machine.  A          *)
(* behaviour is about one of them.                                         *)
EXTENDS Audio, MCDiscovery

DiscoveryUnused == FdtUnused /\ PciUnused /\ ClockUnused

VARIABLE about

parts == <<about, audioVars, vars>>

PartsInit ==
  \/ about = "audio" /\ AudioInit /\ DiscoveryUnused
  \/ about = "discovery" /\ AudioInit /\ Init

PartsNext ==
  /\ UNCHANGED about
  /\ \/ about = "audio" /\ AudioNext /\ UNCHANGED vars
     \/ about = "discovery" /\ Next /\ UNCHANGED audioVars

PartsSpec == PartsInit /\ [][PartsNext]_parts
=============================================================================
