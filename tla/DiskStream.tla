----------------------------- MODULE DiskStream -----------------------------
(***************************************************************************)
(* diskstream_seek and diskstream_read (src/disk/stream.c): a byte-wise    *)
(* view of a disk that can only be read in whole sectors.  One step per    *)
(* iteration of the read loop: one sector is read into buf and the part of *)
(* it that was asked for is copied out.                                    *)
(*                                                                         *)
(* A byte is named by where it is on the disk, <<sector, offset>>, so that *)
(* out says which bytes the caller got and in which order.  Reading a      *)
(* sector cannot fail: a stream's disk is always the one disk of disk.c.   *)
(***************************************************************************)
EXTENDS Integers, Sequences

CONSTANTS
  SectorSize,  \* NUTSOS_SECTOR_SIZE
  Positions,   \* positions callers seek to
  Totals,      \* byte counts callers ask for
  DiskSize     \* bytes on the disk; callers do not read past its end

ASSUME StreamAssumption ==
  /\ SectorSize \in Nat \ {0}
  /\ Positions \subseteq Nat /\ Totals \subseteq Nat /\ DiskSize \in Nat

VARIABLES
  pos,       \* stream->pos
  reading,   \* a diskstream_read is in progress
  sector,    \* the sector to read next
  offset,    \* where in it to start copying
  chunk,     \* total_to_read: how many bytes of it to copy
  remaining, \* remaining_to_read
  out,       \* the bytes copied to the caller so far
  start,     \* history: pos when the call began
  total      \* history: the argument of the call

vars == <<pos, reading, sector, offset, chunk, remaining, out, start, total>>

Smaller(a, b) == IF a > b THEN b ELSE a

Locations == Nat \X (0 .. SectorSize - 1)

(* disk_read_block followed by the copy loop.                              *)
Copied(s, o, n) == [k \in 1 .. n |-> <<s, o + k - 1>>]

(* diskstream_new                                                          *)
Init ==
  /\ pos = 0 /\ reading = FALSE
  /\ sector = 0 /\ offset = 0 /\ chunk = 0 /\ remaining = 0
  /\ out = <<>> /\ start = 0 /\ total = 0

diskstream_seek(p) ==
  /\ ~ reading
  /\ pos' = p
  /\ UNCHANGED <<reading, sector, offset, chunk, remaining, out, start, total>>

diskstream_read(n) ==
  /\ ~ reading
  /\ pos + n <= DiskSize
  /\ reading' = TRUE
  /\ sector' = pos \div SectorSize
  /\ offset' = pos % SectorSize
  /\ remaining' = n
  /\ chunk' = Smaller(n, SectorSize - offset')
  /\ out' = <<>> /\ start' = pos /\ total' = n
  /\ UNCHANGED pos

(* Goes on even when nothing is left.                                      *)
Mut_ReadSector ==
  /\ reading
  /\ out' = out \o Copied(sector, offset, chunk)
  /\ pos' = pos + chunk
  /\ sector' = pos' \div SectorSize
  /\ offset' = pos' % SectorSize
  /\ remaining' = remaining - chunk
  /\ chunk' = Smaller(remaining', SectorSize - offset')
  /\ reading' = (remaining' >= 0)
  /\ UNCHANGED <<start, total>>

(* Keeps the offset of the first sector for the following ones.            *)
Mut_KeepOffset ==
  /\ reading
  /\ out' = out \o Copied(sector, offset, chunk)
  /\ pos' = pos + chunk
  /\ sector' = pos' \div SectorSize
  /\ offset' = offset
  /\ remaining' = remaining - chunk
  /\ chunk' = Smaller(remaining', SectorSize - offset')
  /\ reading' = (remaining' > 0)
  /\ UNCHANGED <<start, total>>

ReadSector ==
  /\ reading
  /\ out' = out \o Copied(sector, offset, chunk)
  /\ pos' = pos + chunk
  /\ sector' = pos' \div SectorSize
  /\ offset' = pos' % SectorSize
  /\ remaining' = remaining - chunk
  /\ chunk' = Smaller(remaining', SectorSize - offset')
  /\ reading' = (remaining' > 0)
  /\ UNCHANGED <<start, total>>

Next ==
  \/ \E p \in Positions : diskstream_seek(p)
  \/ \E n \in Totals : diskstream_read(n)
  \/ ReadSector

Spec == Init /\ [][Next]_vars
-----------------------------------------------------------------------------
(* Types of the state.                                                     *)
TypeOK ==
  /\ pos \in Nat /\ reading \in BOOLEAN
  /\ sector \in Nat /\ offset \in 0 .. SectorSize - 1
  /\ chunk \in 0 .. SectorSize /\ remaining \in Nat
  /\ out \in Seq(Locations)
  /\ start \in Nat /\ total \in Nat

(* Byte p of the disk.                                                     *)
Byte(p) == <<p \div SectorSize, p % SectorSize>>

(* At every iteration the caller has the bytes from where the stream stood *)
(* on, in order and without a gap or a repetition at a sector boundary;    *)
(* when the call returns they are as many as it asked for.                 *)
BytesInOrder ==
  /\ \A k \in 1 .. Len(out) : out[k] = Byte(start + k - 1)
  /\ Len(out) + remaining = total

(* No sector is read that the request does not touch: a read that ends on  *)
(* a sector boundary, even at the end of the disk, stops there.            *)
NoExtraSector ==
  reading /\ total > 0 => sector * SectorSize < start + total
=============================================================================
