---------------------------- MODULE PoolEnsure -----------------------------
(***************************************************************************)
(* pool.ensure, which every start of the service runs: PV, VG, thin pool   *)
(* and default golden of a node, on a loop device.  A step is a command    *)
(* and the check before it.  The service may be stopped and the host       *)
(* rebooted between any two; what LVM has on the device stays.             *)
(*                                                                         *)
(* A listing that fails counts as an empty one: the command that follows   *)
(* is then refused, which is one more way for a step to raise.             *)
(***************************************************************************)
EXTENDS Naturals

VARIABLES file,   \* the backing file exists
          loop,   \* a loop device is attached to it
          lvm,    \* what is on the device: 1 a PV, 2 its VG, 3 the thin pool
          base,   \* the LV base-rootfs
          gold,   \* the LV gold-default
          at      \* where the service is: a step of ensure, "down" or "started"

disk == <<file, lvm, base, gold>>
pool == <<disk, loop, at>>

Image  == {"none", "partial", "full"}
Ensure == {"truncate", "losetup", "pv", "vg", "thinpool", "golden", "dd", "snapshot"}

PoolTypeOK ==
  /\ file \in BOOLEAN /\ loop \in BOOLEAN
  /\ lvm \in 0..3
  /\ base \in Image /\ gold \in Image
  /\ at \in Ensure \cup {"down", "started"}

PoolInit ==
  /\ file = FALSE /\ loop = FALSE
  /\ lvm = 0
  /\ base = "none" /\ gold = "none"
  /\ at = "down"

-----------------------------------------------------------------------------
Go(from, to) == at = from /\ at' = to

Start == Go("down", "truncate") /\ UNCHANGED <<disk, loop>>

Truncate == /\ Go("truncate", "losetup")
            /\ file' = TRUE
            /\ UNCHANGED <<loop, lvm, base, gold>>

\* Mutant: without a look at `losetup -j` the file is attached anew, and refused.
LosetupNew == /\ Go("losetup", "pv") /\ ~loop
              /\ loop' = TRUE
              /\ UNCHANGED disk

\* the device that `losetup -j` shows, or a new one
Losetup == /\ Go("losetup", "pv")
           /\ loop' = TRUE
           /\ UNCHANGED disk

\* Mutant: NYC_LVM_FORCE, and the PV is not looked for.
PvcreateForce == /\ Go("pv", "vg")
                 /\ lvm' = 1 /\ base' = "none" /\ gold' = "none"
                 /\ UNCHANGED <<file, loop>>

\* without -ff: a device that is a PV is left as it is
Pvcreate == /\ Go("pv", "vg")
            /\ lvm' = IF lvm = 0 THEN 1 ELSE lvm
            /\ UNCHANGED <<file, loop, base, gold>>

Vgcreate == /\ Go("vg", "thinpool")
            /\ lvm' = IF lvm < 2 THEN 2 ELSE lvm
            /\ UNCHANGED <<file, loop, base, gold>>

\* the thin pool, and vgchange -ay
CreatePool == /\ Go("thinpool", "golden")
              /\ lvm' = 3
              /\ UNCHANGED <<file, loop, base, gold>>

\* Mutant: a base-rootfs that exists is taken for a complete one.
ReuseBase == /\ gold = "none"
             /\ IF base = "none" THEN Go("golden", "dd") /\ base' = "partial"
                                 ELSE Go("golden", "snapshot") /\ UNCHANGED base
             /\ UNCHANGED <<file, loop, lvm, gold>>

\* An lvcreate for a base-rootfs that exists fails: no start gets past it.
CreateBase == /\ base = "none"
              /\ Go("golden", "dd")
              /\ base' = "partial"
              /\ UNCHANGED <<file, loop, lvm, gold>>

EnsureGolden ==
  \/ gold # "none" /\ Go("golden", "started") /\ UNCHANGED <<disk, loop>>
  \/ gold = "none" /\ CreateBase

Dd == /\ Go("dd", "snapshot")
      /\ base' = "full"
      /\ UNCHANGED <<file, loop, lvm, gold>>

Snapshot == /\ Go("snapshot", "started")
            /\ gold' = base
            /\ UNCHANGED <<file, loop, lvm, base>>

EnsureStep == \/ Start \/ Truncate \/ Losetup \/ Pvcreate \/ Vgcreate \/ CreatePool
              \/ EnsureGolden \/ Dd \/ Snapshot

\* A command fails: the start fails with it, and systemd starts anew.
StartFails == at \in Ensure /\ at' = "down" /\ UNCHANGED <<disk, loop>>

\* the service stops, alone or with the host
StopService == at # "down" /\ at' = "down" /\ UNCHANGED <<disk, loop>>
RebootHost  == at' = "down" /\ loop' = FALSE /\ UNCHANGED disk

-----------------------------------------------------------------------------
(* Properties.                                                             *)

\* Whatever start was broken off where: the golden that VMs are cloned from is
\* never the copy of a rootfs that was not written to its end.
GoldenComplete == gold # "partial"

\* No later start takes away what an earlier one has put on the device.
KeepsData == /\ lvm' >= lvm
             /\ gold # "none" => gold' = gold
DataKept  == [][KeepsData]_pool

\* What these rest on: the golden is taken once, from a base that dd has filled.
PoolIInv ==
  /\ PoolTypeOK /\ GoldenComplete
  /\ at \in {"dd", "snapshot"} => gold = "none"
  /\ at = "snapshot" => base = "full"
  /\ at = "started" => gold = "full"

\* A start was broken off after the lvcreate of base-rootfs: every later one
\* fails there (pool.py calls itself safe to re-run).
Wedged == base # "none" /\ gold = "none"

\* That is the only way for the service to stay down once starts stop failing.
StartupHeals == at # "started" ~> at = "started" \/ Wedged
=============================================================================
