------------------------------ MODULE AtaDisk -------------------------------
(***************************************************************************)
(* Reading sectors from the ATA drive by its ports: disk_read_sector       *)
(* (src/disk/disk.c), and ata_lba_read, which loads the kernel             *)
(* (src/boot/boot.asm) by the same sequence of port accesses.              *)
(* The number of the sector goes out in pieces of a byte, then the driver  *)
(* polls the status for DRQ before every sector and takes it word by word. *)
(* The status read is never looked at for anything but DRQ.                *)
(*                                                                         *)
(* The drive is not part of the program.  It puts the pieces together as   *)
(* the ATA standard says, and offers the sectors from there on one after   *)
(* the other, or reports an error, after which it offers nothing.  A word  *)
(* is named by where it is on the disk, <<sector, index>>.                 *)
(***************************************************************************)
EXTENDS Integers

CONSTANTS
  ByteValues,  \* 2^8: what one register holds
  HeadValues,  \* 2^4: the part of the drive register that is an address
  SectorWords  \* words of a sector: 256

VARIABLES
  registers,  \* 0x1F2 to 0x1F6: count, the address from low to high, head
  status,     \* of the drive: "ready", "busy", "drq" or "error"
  at,         \* of the drive: <<sector, index>> of the word it gives next
  left,       \* of the drive: sectors still to offer
  ata,        \* where disk_read_sector stands: "idle", "poll", "copy", "done"
  lba, count, \* its arguments; count is total
  b, i,       \* its loop variables
  buf         \* the words stored at buf

drive == <<status, at, left>>
loop == <<ata, lba, count, b, i, buf>>
vars == <<registers, drive, loop>>

WordAt(s, w) == <<s, w>>
NoWord == <<>>

(* The registers as the standard reads them; a count of 0 means all.       *)
Addressed(r) == r.low + ByteValues * (r.mid + ByteValues * (r.high + ByteValues * (r.head % HeadValues)))
Counted(r) == IF r.count = 0 THEN ByteValues ELSE r.count

(* What the five outb send; the bits that select the drive are left out.   *)
Pieces(s, total) ==
  [count |-> total % ByteValues, low |-> s % ByteValues,
   mid |-> (s \div ByteValues) % ByteValues,
   high |-> (s \div (ByteValues * ByteValues)) % ByteValues,
   head |-> s \div (ByteValues * ByteValues * ByteValues)]

Init ==
  /\ registers = Pieces(0, 0)
  /\ status = "ready" /\ at = WordAt(0, 0) /\ left = 0
  /\ ata = "idle" /\ lba = 0 /\ count = 0 /\ b = 0 /\ i = 0 /\ buf = <<>>
-----------------------------------------------------------------------------
(* The registers and the command 0x20, on which the drive begins.          *)
disk_read_sector(s, total) ==
  /\ ata = "idle"
  /\ registers' = Pieces(s, total)
  /\ status' = "busy" /\ at' = WordAt(Addressed(registers'), 0) /\ left' = Counted(registers')
  /\ ata' = IF total > 0 THEN "poll" ELSE "done"
  /\ lba' = s /\ count' = total /\ b' = 0 /\ i' = 0 /\ buf' = <<>>

(* Takes the first answer for a ready one.                                 *)
Mut_Poll ==
  /\ ata = "poll"
  /\ ata' = "copy"
  /\ UNCHANGED <<registers, drive, lba, count, b, i, buf>>

(* insb(0x1F7), until DRQ is set.                                          *)
Poll ==
  /\ ata = "poll"
  /\ ata' = IF status = "drq" THEN "copy" ELSE "poll"
  /\ UNCHANGED <<registers, drive, lba, count, b, i, buf>>

(* insw(0x1F0).  The drive is done with a sector when its last word is     *)
(* taken; asked before it has one, it gives no word of the disk.           *)
Given == IF status = "drq" THEN at ELSE NoWord

WordTaken ==
  IF status = "drq" /\ at[2] = SectorWords - 1
  THEN /\ at' = WordAt(at[1] + 1, 0)
       /\ left' = left - 1
       /\ status' = IF left = 1 THEN "ready" ELSE "busy"
  ELSE /\ at' = IF status = "drq" THEN WordAt(at[1], at[2] + 1) ELSE at
       /\ UNCHANGED <<status, left>>

(* Polls for one sector more than it asked for.                            *)
Mut_CopyWord ==
  /\ ata = "copy"
  /\ buf' = [k \in DOMAIN buf \cup {b * SectorWords + i} |->
               IF k = b * SectorWords + i THEN Given ELSE buf[k]]
  /\ WordTaken
  /\ i' = (i + 1) % SectorWords
  /\ b' = IF i' = 0 THEN b + 1 ELSE b
  /\ ata' = CASE i' # 0 -> "copy" [] i' = 0 /\ b' <= count -> "poll" [] OTHER -> "done"
  /\ UNCHANGED <<registers, lba, count>>

CopyWord ==
  /\ ata = "copy"
  /\ buf' = [k \in DOMAIN buf \cup {b * SectorWords + i} |->
               IF k = b * SectorWords + i THEN Given ELSE buf[k]]
  /\ WordTaken
  /\ i' = (i + 1) % SectorWords
  /\ b' = IF i' = 0 THEN b + 1 ELSE b
  /\ ata' = CASE i' # 0 -> "copy" [] i' = 0 /\ b' < count -> "poll" [] OTHER -> "done"
  /\ UNCHANGED <<registers, lba, count>>

Return ==
  /\ ata = "done"
  /\ ata' = "idle"
  /\ UNCHANGED <<registers, drive, lba, count, b, i, buf>>

(* The drive finds the next sector, or does not.                           *)
DriveReady ==
  /\ status = "busy"
  /\ status' = "drq"
  /\ UNCHANGED <<registers, at, left, loop>>

DriveFails ==
  /\ status = "busy"
  /\ status' = "error"
  /\ UNCHANGED <<registers, at, left, loop>>
=============================================================================
