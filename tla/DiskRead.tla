------------------------------ MODULE DiskRead ------------------------------
(***************************************************************************)
(* The disk stream on the drive: every sector diskstream_read goes through *)
(* is read by disk_read_sector (disk_read_block passes it on, the disk of  *)
(* a stream being the one there is), port access by port access, while the *)
(* drive works at its own pace or gives up.  Before the kernel runs, the   *)
(* boot sector loads it in one call with the same protocol.                *)
(*                                                                         *)
(* DiskStream's ReadSector, which copies out what it names by place on the *)
(* disk, happens here when the driver has filled buf: SectorsAreTheDrives  *)
(* says that buf is then what ReadSector takes it for.                     *)
(***************************************************************************)
EXTENDS DiskStream

CONSTANTS
  ByteValues, HeadValues,  \* as in AtaDisk
  WordBytes,               \* bytes of a word: 2
  KernelSectors            \* sectors boot.asm loads: 100, from sector 1 on

ASSUME DiskReadAssumption ==
  /\ ByteValues \in Nat \ {0} /\ HeadValues \in Nat \ {0} /\ WordBytes \in Nat \ {0}
  /\ SectorSize % WordBytes = 0
  /\ KernelSectors \in 1 .. ByteValues - 1
  /\ KernelSectors + 1 <= ByteValues * ByteValues * ByteValues * HeadValues
  /\ DiskSize \div SectorSize < ByteValues * ByteValues * ByteValues * HeadValues

VARIABLES
  registers, status, at, left, ata, lba, count, b, i, buf,  \* as in AtaDisk
  booted  \* the kernel has been loaded

SectorWords == SectorSize \div WordBytes

Ata == INSTANCE AtaDisk

drive == <<registers, status, at, left, ata, lba, count, b, i, buf>>
readvars == <<vars, drive, booted>>

ReadInit == Init /\ Ata!Init /\ booted = FALSE

(* boot.asm: mov eax, 1 / mov ecx, 100 / call ata_lba_read, and the jump.  *)
ata_lba_read ==
  /\ ~ booted
  /\ Ata!disk_read_sector(1, KernelSectors)
  /\ UNCHANGED <<vars, booted>>

load32 ==
  /\ ~ booted /\ booted' = TRUE
  /\ Ata!Return
  /\ UNCHANGED vars

(* A call of the stream.                                                   *)
Call ==
  /\ booted
  /\ \/ \E p \in Positions : diskstream_seek(p)
     \/ \E n \in Totals : diskstream_read(n)
  /\ UNCHANGED <<drive, booted>>

(* One iteration of its loop: the sector is asked for, and copied out when *)
(* it is there.                                                            *)
disk_read_block ==
  /\ booted /\ reading
  /\ Ata!disk_read_sector(sector, 1)
  /\ UNCHANGED <<vars, booted>>

BlockRead ==
  /\ booted
  /\ Ata!Return
  /\ ReadSector
  /\ UNCHANGED booted

(* The driver's loops, and the drive.                                      *)
Driver == (Ata!Poll \/ Ata!CopyWord) /\ UNCHANGED <<vars, booted>>
Drive == Ata!DriveReady /\ UNCHANGED <<vars, booted>>
Broken == Ata!DriveFails /\ UNCHANGED <<vars, booted>>

Kernel == ata_lba_read \/ load32 \/ disk_read_block \/ BlockRead \/ Driver

ReadNext == Kernel \/ Call \/ Drive \/ Broken

(* The kernel goes on while it can, and the drive answers a command some   *)
(* time, with data or with an error.                                       *)
ReadSpec ==
  /\ ReadInit /\ [][ReadNext]_readvars
  /\ WF_readvars(Kernel) /\ WF_readvars(Drive \/ Broken)
-----------------------------------------------------------------------------
(* When disk_read_sector returns, buf holds the sectors it was asked for,  *)
(* word by word: the address put together from its pieces is the one taken *)
(* apart, no word is taken before the drive has it, and no sector is left  *)
(* out or read twice (disk.c:14-34).                                       *)
SectorsAreTheDrives ==
  ata = "done" =>
    buf = [k \in 0 .. count * SectorWords - 1 |->
             Ata!WordAt(lba + k \div SectorWords, k % SectorWords)]

(* The kernel is loaded, and a read of the stream returns, unless the      *)
(* drive reports an error: then the loop polls for ever (boot.asm:147,     *)
(* disk.c:25).                                                             *)
ReadReturns ==
  /\ <>(booted \/ status = "error")
  /\ reading ~> (~ reading \/ status = "error")
=============================================================================
