-------------------------------- MODULE Pci --------------------------------
(***************************************************************************)
(* PCI enumeration (pci.c): finding the n-th function with an identifier   *)
(* behind any bridges, reading the BARs, walking the capability list and   *)
(* setting up MSI.                                                         *)
(*                                                                         *)
(* External: the machine.  A machine maps the place of a function in the   *)
(* ECAM window, counted in functions, to the function there: its           *)
(* identifier, the multi-function bit, and for a bridge the secondary bus  *)
(* (0 when it has none).  A function's BARs are words: "zero", "io",       *)
(* "m32", or "m64", whose upper half follows in the next word and may look *)
(* like anything.  Capabilities lie in slots; 0 ends the list.             *)
(***************************************************************************)
EXTENDS Integers, Sequences, FiniteSetsExt, Functions

CONSTANTS
  Machines,     \* the machines scanned
  Ids,          \* vendor and device, as one word
  NBuses,       \* buses (256)
  NDevs,        \* devices on a bus (32)
  NFuncs,       \* functions of a device (8)
  NBars,        \* BAR words of a function (6)
  Uppers,       \* what the upper word of an "m64" may look like
  NSlots,       \* capability slots: (256 - 64) / 4
  MaxHops,      \* the hop budget (48)
  CapIds        \* capability identifiers; "msi" is one

PerBus == NDevs * NFuncs
Bus(a) == a \div PerBus
FunctionZero(a) == a - (a % NFuncs)

\* Functions lie within the window; only a multi-function device has more than
\* function 0; a bridge leads to a higher bus, and only one leads there.
MachineOK(m) ==
  /\ \A a \in DOMAIN m :
       /\ a \in Nat /\ Bus(a) < NBuses
       /\ FunctionZero(a) \in DOMAIN m
       /\ a # FunctionZero(a) => m[FunctionZero(a)].multi
       /\ m[a].sec \in Nat /\ m[a].sec < NBuses
       /\ m[a].sec # 0 => m[a].sec > Bus(a)
  /\ \A a, c \in DOMAIN m : m[a].sec = m[c].sec /\ m[a].sec # 0 => a = c

ASSUME PciAssumption ==
  /\ NBuses \in Nat \ {0} /\ NDevs \in Nat \ {0} /\ NFuncs \in Nat \ {0}
  /\ NBars \in Nat /\ NSlots \in Nat /\ MaxHops \in Nat \ {0} /\ NSlots <= MaxHops
  /\ \A m \in Machines : MachineOK(m)

VARIABLES
  pci_pc,       \* idle, find, done; bars; caps, msi
  machine, vendor_device,
  found,        \* what pci_find_device_nth returned for n = 0, 1, ...
  words, bar,   \* the BAR words, and func->bar
  caps,         \* the capability list: first, and id and next of each slot
  msi           \* the MSI registers

pciVars == <<pci_pc, machine, vendor_device, found, words, bar, caps, msi>>

-----------------------------------------------------------------------------
(***************************************************************************)
(* The scan.                                                               *)
(***************************************************************************)

\* A gap ends the device.
LookedAtToGap(a) ==
  /\ \A c \in FunctionZero(a)..a : c \in DOMAIN machine
  /\ a = FunctionZero(a) \/ machine[FunctionZero(a)].multi

\* Whether the scan looks at a place and finds a function there: nothing of a
\* device without function 0, only function 0 of a single-function device, and
\* gaps are passed over.
LookedAt(a) ==
  /\ a \in DOMAIN machine /\ FunctionZero(a) \in DOMAIN machine
  /\ a = FunctionZero(a) \/ machine[FunctionZero(a)].multi

\* scan_bus: the functions with the identifier, in the order in which the scan
\* of a's bus meets them from place a on; a bridge before what is behind it.
ScanFrom[a \in 0..NBuses * PerBus - 1] ==
  LET sec    == machine[a].sec
      match  == IF machine[a].id = vendor_device THEN <<a>> ELSE <<>>
      behind == IF sec # 0 /\ sec # Bus(a) THEN ScanFrom[sec * PerBus] ELSE <<>>
      rest   == IF (a + 1) % PerBus = 0 THEN <<>> ELSE ScanFrom[a + 1]
  IN IF LookedAt(a) THEN (match \o behind) \o rest ELSE rest

\* pci_find_device_nth: as a sequence, empty when there is none.
FindDeviceNth(n) ==
  IF n < Len(ScanFrom[0]) THEN <<ScanFrom[0][n + 1]>> ELSE <<>>

\* A driver asks for n = 0, 1, ... until there is no more.
FindNext ==
  /\ pci_pc = "find"
  /\ LET f == FindDeviceNth(Len(found))
     IN /\ found' = found \o f
        /\ pci_pc' = IF f = <<>> THEN "done" ELSE "find"
  /\ UNCHANGED <<machine, vendor_device, words, bar, caps, msi>>

-----------------------------------------------------------------------------
(***************************************************************************)
(* BARs.                                                                   *)
(***************************************************************************)

\* The word after an "m64" is passed over, and so is not looked at itself.
PassedOver[i \in 1..NBars] == i > 1 /\ words[i - 1] = "m64" /\ ~PassedOver[i - 1]

\* A BAR; an "m64" takes its upper half from the next word.
BarAt(i) ==
  CASE words[i] = "zero" -> <<>>
    [] words[i] = "m64" -> <<words[i], IF i < NBars THEN words[i + 1] ELSE "zero">>
    [] OTHER -> <<words[i]>>

\* pci_setup_bars.
SetupBars == [i \in 1..NBars |-> IF PassedOver[i] THEN <<>> ELSE BarAt(i)]

ReadBars ==
  /\ pci_pc = "bars" /\ bar = <<>>
  /\ bar' = SetupBars
  /\ UNCHANGED <<pci_pc, machine, vendor_device, found, words, caps, msi>>

\* External: a function's BARs, each at its first word.  An "m64" takes the next
\* word too, and is not the last.
Layouts ==
  {l \in UNION {[D -> {"zero", "io", "m32", "m64"}] : D \in SUBSET (1..NBars)} :
     \A i \in 1..NBars :
       /\ i \notin DOMAIN l <=> i - 1 \in DOMAIN l /\ l[i - 1] = "m64"
       /\ i = NBars /\ i \in DOMAIN l => l[i] # "m64"}

\* The words of the BARs, and what pci_setup_bars should make of them.
WordsOf(l, u) == [i \in 1..NBars |-> IF i \in DOMAIN l THEN l[i] ELSE u[i]]
BarsOf(l, u) ==
  [i \in 1..NBars |->
     IF i \notin DOMAIN l THEN <<>>
     ELSE IF l[i] = "zero" THEN <<>>
     ELSE IF l[i] = "m64" THEN <<"m64", u[i + 1]>>
     ELSE <<l[i]>>]

-----------------------------------------------------------------------------
(***************************************************************************)
(* Capabilities.                                                           *)
(***************************************************************************)

\* The slot the walk is at after a number of hops; 0 when it is over, also at a
\* slot that leads to itself.
SlotAt[h \in 0..MaxHops] ==
  IF h = 0 THEN caps.first
  ELSE IF SlotAt[h - 1] = 0 THEN 0
  ELSE IF caps.next[SlotAt[h - 1]] = SlotAt[h - 1] THEN 0
  ELSE caps.next[SlotAt[h - 1]]

\* The hops, within the budget, that lead to a capability with the identifier.
HopsWithin(id) == {h \in 0..MaxHops - 1 : SlotAt[h] # 0 /\ caps.id[SlotAt[h]] = id}

\* pci_find_capability: the first of them, if the status says there is a list.
FindCapability(id) ==
  IF caps.list /\ HopsWithin(id) # {} THEN SlotAt[Min(HopsWithin(id))] ELSE 0

\* pci_msi_configure: the address, the data where the device has it, and the
\* enable bit last; registers are numbered by their offset from the capability.
MsiConfigure ==
  /\ pci_pc = "caps"
  /\ \E addr64 \in BOOLEAN :
       msi' = IF FindCapability("msi") = 0 THEN <<"none">>
              ELSE <<"on", addr64,
                     [r \in {4, 8, 12} |->
                        CASE r = 4 -> "low"
                          [] r = 8 -> IF addr64 THEN "high" ELSE "data"
                          [] OTHER -> IF addr64 THEN "data" ELSE "mask"]>>
  /\ pci_pc' = "msi"
  /\ UNCHANGED <<machine, vendor_device, found, words, bar, caps>>

-----------------------------------------------------------------------------

PciStart ==
  /\ bar = <<>> /\ found = <<>> /\ msi = <<>>
  /\ \/ /\ pci_pc = "find" /\ machine \in Machines /\ vendor_device \in Ids
        /\ words = <<>> /\ caps = <<>>
     \/ /\ pci_pc = "bars" /\ machine = <<>> /\ vendor_device = 0 /\ caps = <<>>
        /\ \E l \in Layouts, u \in [1..NBars -> Uppers] : words = WordsOf(l, u)
     \/ /\ pci_pc = "caps" /\ machine = <<>> /\ vendor_device = 0 /\ words = <<>>
        /\ caps \in [list : BOOLEAN, first : 0..NSlots, id : [1..NSlots -> CapIds],
                     next : [1..NSlots -> 0..NSlots]]

PciUnused ==
  /\ pci_pc = "idle" /\ machine = <<>> /\ vendor_device = 0 /\ found = <<>>
  /\ words = <<>> /\ bar = <<>> /\ caps = <<>> /\ msi = <<>>

PciNext == FindNext \/ ReadBars \/ MsiConfigure

-----------------------------------------------------------------------------

\* The buses a configuration cycle can reach: the least set with bus 0 and with
\* every bus behind a function on one of its buses.
BusesClosed(bs) ==
  0 \in bs /\ \A a \in DOMAIN machine : Bus(a) \in bs => machine[a].sec \in bs
ReachableBuses ==
  {b \in 0..NBuses-1 : \A bs \in SUBSET (0..NBuses-1) : BusesClosed(bs) => b \in bs}

\* Asking for n = 0, 1, ... gives every function with the identifier on every
\* reachable bus exactly once, with gaps in multi-function devices and behind
\* nested bridges ("or the Nth match, or recurse through PCI-to-PCI bridges",
\* pci.h:3-4).
FunctionsFound ==
  pci_pc = "done" =>
    /\ Range(found) = {a \in DOMAIN machine : Bus(a) \in ReachableBuses
                                              /\ machine[a].id = vendor_device}
    /\ IsInjective(found)

\* Each BAR pci_setup_bars reads is the declared one, and none is made up,
\* whatever the upper half of a 64-bit BAR looks like: "64-bit BARs occupy two
\* slots" (pci.h:17-18).  Both halves end up in the first of them.
BarsAsDeclared ==
  pci_pc = "bars" /\ bar # <<>> =>
    \E l \in Layouts, u \in [1..NBars -> Uppers] : words = WordsOf(l, u) /\ bar = BarsOf(l, u)

\* "the high half lives in bar[i+1]" (pci.h:18).  It does not: it ends up in bar[i].
HighHalfNext ==
  pci_pc = "bars" /\ bar # <<>> =>
    \A i \in 1..NBars-1 :
      words[i] = "m64" /\ ~PassedOver[i] => bar[i + 1] = <<words[i + 1]>>

\* The slots the list leads to.
SlotsClosed(ss) == caps.first \in ss /\ \A s \in ss : s # 0 => caps.next[s] \in ss
ListedSlots ==
  {s \in 1..NSlots : caps.list /\ \A ss \in SUBSET (0..NSlots) : SlotsClosed(ss) => s \in ss}

\* A capability is found if and only if the list leads to one with its
\* identifier, and MSI is set up exactly then: the hop budget "to defend against
\* malformed cyclic lists" (pci.c:137) cuts no list short.  An MSI that is set up
\* has the data where the device reads it.
CapabilitiesFound ==
  /\ pci_pc \in {"caps", "msi"} =>
       \A id \in CapIds :
         LET s == FindCapability(id)
         IN IF s = 0 THEN \A t \in ListedSlots : caps.id[t] # id
                     ELSE s \in ListedSlots /\ caps.id[s] = id
  /\ pci_pc = "msi" /\ "msi" \in CapIds =>
       /\ msi[1] = "on" <=> \E t \in ListedSlots : caps.id[t] = "msi"
       /\ msi[1] = "on" => msi[3][IF msi[2] THEN 12 ELSE 8] = "data" /\ msi[3][4] = "low"

\* What pci.c reports of a machine is what the machine has.
FoundOnBus == FunctionsFound /\ BarsAsDeclared /\ CapabilitiesFound
=============================================================================
