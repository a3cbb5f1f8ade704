-------------------------------- MODULE Disk --------------------------------
(***************************************************************************)
(* The block layer between FatFs and the NVMe driver (fatfs_disk.c): mount *)
(* and unmount of the one volume, and FatFs's reads, writes and syncs,     *)
(* each of which is one call of the driver.                                *)
(*                                                                         *)
(* External: FatFs.  A mount reads at least one sector before it accepts a *)
(* volume; a registered volume that is not mounted is first initialised.   *)
(***************************************************************************)
EXTENDS Nvme

VARIABLES
  fs_disk,   \* fs_disk[0] # NULL
  volume,    \* FatFs's side: unregistered, registered, mounting, mounted
  want,      \* the blocks FatFs's last call asked for
  res        \* its DRESULT until the next call, "busy" during the call

diskVars == <<fs_disk, volume, want, res>>
vars == <<nvmeVars, diskVars>>

DiskInit ==
  /\ NvmeOff
  /\ fs_disk = FALSE /\ volume = "unregistered" /\ want = 0 /\ res = "none"

Forget == want' = 0 /\ res' = "none"
Busy == res = "busy"
InFatFs == volume \in {"mounting", "mounted"}

-----------------------------------------------------------------------------

\* fs_mount, up to f_mount: a disk that is not present is refused, and so is a
\* drive out of range, with nothing changed.
FsMount ==
  /\ pc = "idle" /\ volume # "mounting" /\ ~Busy
  /\ fs_disk' = TRUE
  /\ volume' = "mounting"
  /\ Forget
  /\ UNCHANGED <<nvmeVars>>

\* f_mount returns: the volume is accepted, which takes a sector that was read,
\* or fs_mount drops the disk.
FsMountReturn ==
  /\ pc = "idle" /\ volume = "mounting" /\ ~Busy
  /\ \/ res = "RES_OK" /\ volume' = "mounted" /\ UNCHANGED fs_disk
     \/ res # "none" /\ volume' = "registered" /\ fs_disk' = FALSE
  /\ Forget
  /\ UNCHANGED <<nvmeVars>>

FsUnmount ==
  /\ pc = "idle" /\ volume \in {"registered", "mounted"} /\ ~Busy
  /\ volume' = "unregistered"
  /\ fs_disk' = FALSE
  /\ Forget
  /\ UNCHANGED <<nvmeVars>>

\* FatFs is asked for a file of a volume whose mount failed: disk_initialize
\* says STA_NOINIT, and FatFs reads nothing.
DiskInitialize ==
  /\ pc = "idle" /\ volume = "registered" /\ ~fs_disk
  /\ res' = "STA_NOINIT"
  /\ UNCHANGED <<nvmeVars, fs_disk, volume, want>>

\* disk_read, disk_write of some blocks; disk_ioctl(CTRL_SYNC) is the flush, the
\* other ioctls answer with constants.
DiskCall ==
  /\ InFatFs /\ ~Busy
  /\ fs_disk
  /\ NvmeCall
  /\ want' = call'.nlb
  /\ res' = "busy"
  /\ UNCHANGED <<fs_disk, volume>>

DiskResultPartial(count) == IF count > 0 THEN "RES_OK" ELSE "RES_ERROR"

\* What disk_read and disk_write make of the driver's count.
DiskResult(count) == IF count = want THEN "RES_OK" ELSE "RES_ERROR"

-----------------------------------------------------------------------------

\* The driver returns from the call in progress to FatFs, or to a firmware that
\* reads its blocks without it.
Returns == pc = "poll" /\ pc' = "idle"

DriverStep ==
  /\ Driver \/ PollTimeout
  /\ res' = IF Returns /\ Busy THEN DiskResult(ret') ELSE res
  /\ UNCHANGED <<fs_disk, volume, want>>

DirectCall ==
  /\ NvmeCall
  /\ volume # "mounting"
  /\ Forget
  /\ UNCHANGED <<fs_disk, volume>>

ControllerStep == Controller /\ UNCHANGED diskVars

DiskNext ==
  \/ FsMount \/ FsMountReturn \/ FsUnmount \/ DiskInitialize
  \/ DiskCall \/ DirectCall
  \/ DriverStep \/ ControllerStep

\* The driver's code runs on; the controller answers every command it finds.  A
\* poll need not give up.
DriverRuns == Driver /\ DriverStep

DiskSpec == DiskInit /\ [][DiskNext]_vars
DiskFairSpec == DiskSpec /\ WF_vars(DriverRuns) /\ WF_vars(ControllerStep)

-----------------------------------------------------------------------------

\* What the driver and the block layer say of a transfer is what happened to
\* it.  "Returns the number of blocks transferred" (nvme.h:83-85): every block
\* that nvme_read, nvme_write (or nvme_flush) counts as done has been moved by
\* the controller.  FatFs is told RES_OK only when all the sectors it asked for
\* were moved and RES_ERROR only when some were not, over any number of batches
\* and over every wrap of both queues, until a poll has given up; and while it
\* has a volume mounted, its drive number resolves to a disk.
SectorsAsReported ==
  /\ abandoned = 0 =>
       /\ DoneIsTransferred
       /\ res = "RES_OK" => 0..want - 1 \subseteq moved
       /\ res = "RES_ERROR" => ~(0..want - 1 \subseteq moved)
  /\ InFatFs => fs_disk
=============================================================================
