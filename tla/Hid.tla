-------------------------------- MODULE Hid --------------------------------
(***************************************************************************)
(* The I2C keyboard (hid.c, i2c.c): the device queues a report of all keys *)
(* that are down whenever that changes; hid_kb_poll fetches one report over*)
(* the bus and calls back for every difference to the report before.  The  *)
(* virtio keyboard is module Virtio.                                       *)
(***************************************************************************)
EXTENDS Integers, Sequences, FiniteSets

CONSTANTS Keys,           \* usages, modifiers included
          PollsAttached,  \* the program goes on polling a keyboard whose interrupt
                          \* it has attached
          MaxReports,     \* key changes
          MaxFaults       \* transfers that fail

ASSUME HidAssumption ==
  PollsAttached \in BOOLEAN /\ MaxReports \in Nat /\ MaxFaults \in Nat

VARIABLES
  initialised,          \* kb->initialised, backend I2C
  attached,             \* hid_kb_irq_attach: polls come from the handler
  prev,                 \* prev_keys and prev_mod
  poll, report,         \* the program's hid_kb_poll: none, fetched (report), told
  down, reports,        \* the device: keys down, reports not yet fetched
  heard,                \* keys that are down according to the callbacks
  changes, faults,
  behind                \* the newest report fetched went astray

device == <<down, reports, changes>>
pollVars == <<poll, report>>
hidVars == <<initialised, attached, prev, pollVars, device, heard, faults, behind>>

HidInit ==
  /\ initialised = FALSE /\ attached = FALSE /\ prev = {}
  /\ poll = "none" /\ report = {}
  /\ down = {} /\ reports = <<>> /\ heard = {}
  /\ changes = 0 /\ faults = 0 /\ behind = FALSE

-----------------------------------------------------------------------------
\* hid_kb_init, and hid_kb_init_fdt where it finds the I2C controller, once;
\* without one, polls do nothing.
KbInit ==
  /\ ~initialised
  /\ initialised' = TRUE /\ prev' = {}
  /\ UNCHANGED <<attached, pollVars, device, heard, faults, behind>>

\* hid_kb_irq_attach, when the tree names a source.
IrqAttach ==
  /\ initialised /\ ~attached
  /\ attached' = TRUE
  /\ UNCHANGED <<initialised, prev, pollVars, device, heard, faults, behind>>

\* The device (external): a key goes down or up.  A report holds six keys, more
\* are not modelled; the line is up while reports wait.
KeyChange(k) ==
  /\ changes < MaxReports
  /\ changes' = changes + 1
  /\ down' = IF k \in down THEN down \ {k} ELSE down \cup {k}
  /\ reports' = Append(reports, down')
  /\ UNCHANGED <<initialised, attached, prev, pollVars, heard, faults, behind>>

\* Variant: prev_keys is left as it was when only releases were reported.
KeptReleaseForgotten(new) == IF new \subseteq prev THEN prev ELSE new

\* The callbacks of hid_poll_i2c: modifiers, releases, presses; and what it keeps
\* for the next poll.
Told(new) == (heard \ (prev \ new)) \cup (new \ prev)
Kept(new) == new

\* Keys whose press a report calls back for.
Presses(new) == new \ prev

\* i2c_write_then_read: it ends with STOP wherever it fails.  No answer, a NACK
\* or 1000 reads without IF in the write phase leave the report with the
\* device; once bytes are being read it may be gone.
TransferFails ==
  /\ faults < MaxFaults /\ faults' = faults + 1
  /\ \/ UNCHANGED <<reports, behind>>
     \/ reports # <<>> /\ reports' = Tail(reports) /\ behind' = TRUE

\* hid_kb_poll, and how it ends: nothing to report, a fault, or a report.  The
\* program's poll is a transfer, the callbacks, and prev_keys last; an interrupt
\* can come between the three.
PollEmpty == reports = <<>> /\ UNCHANGED <<prev, pollVars, heard, reports, faults, behind>>
PollFault == TransferFails /\ UNCHANGED <<prev, pollVars, heard>>

PollFetch ==
  /\ reports # <<>>
  /\ report' = Head(reports) /\ reports' = Tail(reports) /\ behind' = FALSE
  /\ poll' = "fetched"
  /\ UNCHANGED <<prev, heard, faults>>

PollTell ==
  /\ poll = "fetched" /\ poll' = "told"
  /\ heard' = Told(report)
  /\ UNCHANGED <<prev, report, reports, faults, behind>>

PollKeep ==
  /\ poll = "told" /\ poll' = "none"
  /\ prev' = Kept(report) /\ report' = {}
  /\ UNCHANGED <<heard, reports, faults, behind>>

\* hid_irq_trampoline, called as long as the line is up: a whole hid_kb_poll.
IrqReport ==
  /\ reports # <<>> /\ reports' = Tail(reports) /\ behind' = FALSE
  /\ heard' = Told(Head(reports)) /\ prev' = Kept(Head(reports))
  /\ UNCHANGED <<pollVars, faults>>

IrqPoll ==
  /\ attached /\ reports # <<>>
  /\ PollFault \/ IrqReport
  /\ UNCHANGED <<initialised, attached, down, changes>>

-----------------------------------------------------------------------------
\* The press and release callbacks of hid_kb_poll, "once per key state transition
\* since the previous poll" (hid.h:68-69), add up to the report read last, and once
\* the device has nothing more to report, to the keys that are down, also after
\* transfers that failed and lost reports: the next report makes up for them.
KeysAddUp ==
  /\ poll # "told" => heard = prev
  /\ initialised /\ poll = "none" /\ reports = <<>> /\ ~behind => heard = down
=============================================================================
