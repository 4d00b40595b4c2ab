--------------------------- MODULE DiskReadProofs ---------------------------
(***************************************************************************)
(* Proofs about DiskStream, for every sector size, seek position, request  *)
(* size and disk size, and about DiskRead: with the driver and the drive   *)
(* under it the disk stream is still DiskStream, and the driver delivers   *)
(* the sectors it is asked for, for every width of the registers.          *)
(***************************************************************************)
EXTENDS DiskRead, TLAPS, SequenceTheorems

(* The inductive invariant: BytesInOrder alone does not say where the next *)
(* iteration will read, so it needs that the locals of the loop always     *)
(* agree with the stream's position.                                       *)
InStep ==
  reading =>
    /\ pos = start + Len(out)
    /\ sector = pos \div SectorSize
    /\ offset = pos % SectorSize
    /\ chunk = Smaller(remaining, SectorSize - offset)
    /\ remaining > 0 \/ total = 0

IInv == TypeOK /\ BytesInOrder /\ InStep
-----------------------------------------------------------------------------
(* The quotient and remainder of a nonnegative number are unique.          *)
LEMMA DivModUnique ==
  ASSUME NEW q \in Nat, NEW r \in Nat, r < SectorSize
  PROVE  (q * SectorSize + r) \div SectorSize = q /\ (q * SectorSize + r) % SectorSize = r
BY StreamAssumption

(* A number is its quotient times the divisor plus its remainder.          *)
LEMMA DivMod ==
  ASSUME NEW p \in Nat
  PROVE  /\ p \div SectorSize \in Nat /\ p % SectorSize \in 0 .. SectorSize - 1
         /\ p = (p \div SectorSize) * SectorSize + (p % SectorSize)
BY StreamAssumption

(* Consecutive bytes that stay in one sector have consecutive offsets.     *)
LEMMA SameSector ==
  ASSUME NEW p \in Nat, NEW j \in Nat, (p % SectorSize) + j < SectorSize
  PROVE  Byte(p + j) = <<p \div SectorSize, (p % SectorSize) + j>>
<1> DEFINE q == p \div SectorSize
           r == p % SectorSize
<1>1. q \in Nat /\ r \in Nat /\ p = q * SectorSize + r
  BY DivMod
<1>2. p + j = q * SectorSize + (r + j)
  BY <1>1, StreamAssumption
<1>3. (p + j) \div SectorSize = q /\ (p + j) % SectorSize = r + j
  BY <1>1, <1>2, DivModUnique
<1> QED BY <1>3 DEF Byte

(* A chunk never leaves the sector and never exceeds what is left to read. *)
LEMMA ChunkBounds ==
  ASSUME NEW r \in Nat, NEW o \in 0 .. SectorSize - 1
  PROVE  /\ Smaller(r, SectorSize - o) \in 0 .. SectorSize
         /\ Smaller(r, SectorSize - o) \in Nat
         /\ Smaller(r, SectorSize - o) <= r
         /\ o + Smaller(r, SectorSize - o) <= SectorSize
<1>1. SectorSize \in Nat /\ o \in Nat /\ o < SectorSize
  BY StreamAssumption
<1> QED BY <1>1 DEF Smaller

(* What the copy loop delivers.                                            *)
LEMMA CopiedBytes ==
  ASSUME NEW s \in Nat, NEW o \in Nat, NEW n \in Nat, o + n <= SectorSize
  PROVE  /\ Copied(s, o, n) \in Seq(Locations)
         /\ Len(Copied(s, o, n)) = n
         /\ \A k \in 1 .. n : Copied(s, o, n)[k] = <<s, o + (k - 1)>>
<1>1. \A k \in 1 .. n : o + k - 1 \in 0 .. SectorSize - 1 /\ o + k - 1 = o + (k - 1)
  BY StreamAssumption
<1>2. Copied(s, o, n) \in [1 .. n -> Locations]
  BY <1>1 DEF Copied, Locations
<1>3. Copied(s, o, n) \in Seq(Locations)
  BY <1>2, SeqDef
<1>4. DOMAIN Copied(s, o, n) = 1 .. n
  BY DEF Copied
<1>5. Len(Copied(s, o, n)) = n
  BY <1>3, <1>4, LenProperties
<1>6. \A k \in 1 .. n : Copied(s, o, n)[k] = <<s, o + (k - 1)>>
  BY <1>1 DEF Copied
<1> QED BY <1>3, <1>5, <1>6

(* A new stream has delivered nothing and stands at 0.                     *)
LEMMA InitIInv == Init => IInv
<1> SUFFICES ASSUME Init PROVE IInv
  OBVIOUS
<1>1. TypeOK
  <2>1. 0 \in 0 .. SectorSize - 1 /\ 0 \in 0 .. SectorSize
    BY StreamAssumption
  <2>2. <<>> \in Seq(Locations)
    BY EmptySeq
  <2> QED BY <2>1, <2>2 DEF Init, TypeOK
<1>2. BytesInOrder
  BY DEF Init, BytesInOrder
<1>3. InStep
  BY DEF Init, InStep
<1> QED BY <1>1, <1>2, <1>3 DEF IInv

(* Seeking while no read is under way keeps the invariant.                 *)
LEMMA SeekIInv ==
  ASSUME IInv, NEW p \in Positions, diskstream_seek(p)
  PROVE  IInv'
BY StreamAssumption DEF diskstream_seek, IInv, TypeOK, BytesInOrder, Byte, InStep

(* A read begins at the stream's position with nothing copied.             *)
LEMMA ReadIInv ==
  ASSUME IInv, NEW n \in Totals, diskstream_read(n)
  PROVE  IInv'
<1>1. pos \in Nat /\ n \in Nat /\ SectorSize \in Nat \ {0} /\ pos' = pos
  BY StreamAssumption DEF IInv, TypeOK, diskstream_read
<1>2. pos \div SectorSize \in Nat /\ pos % SectorSize \in 0 .. SectorSize - 1
  BY <1>1, DivMod
<1>3. /\ reading' = TRUE /\ sector' = pos \div SectorSize /\ offset' = pos % SectorSize
      /\ remaining' = n /\ chunk' = Smaller(n, SectorSize - offset')
      /\ out' = <<>> /\ start' = pos /\ total' = n
  BY DEF diskstream_read
<1>4. TypeOK'
  BY <1>1, <1>2, <1>3 DEF TypeOK, Smaller
<1>5. BytesInOrder'
  BY <1>1, <1>3 DEF BytesInOrder
<1>6. InStep'
  BY <1>1, <1>3 DEF InStep
<1> QED BY <1>4, <1>5, <1>6 DEF IInv

(* An iteration appends the bytes that come next on the disk.              *)
LEMMA ReadSectorIInv ==
  ASSUME IInv, ReadSector
  PROVE  IInv'
<1> DEFINE copied == Copied(sector, offset, chunk)
<1>0. SectorSize \in Nat \ {0}
  BY StreamAssumption
<1>1. /\ pos \in Nat /\ offset \in 0 .. SectorSize - 1 /\ sector \in Nat
      /\ remaining \in Nat /\ start \in Nat /\ total \in Nat
      /\ out \in Seq(Locations)
  BY DEF IInv, TypeOK
<1>2. /\ pos = start + Len(out) /\ sector = pos \div SectorSize /\ offset = pos % SectorSize
      /\ chunk = Smaller(remaining, SectorSize - offset)
      /\ remaining > 0 \/ total = 0
  BY DEF ReadSector, IInv, InStep
<1>3. /\ chunk \in Nat /\ chunk <= remaining /\ offset + chunk <= SectorSize
      /\ remaining - chunk \in Nat
  <2>1. chunk \in Nat /\ chunk <= remaining /\ offset + chunk <= SectorSize
    BY <1>1, <1>2, ChunkBounds
  <2> QED BY <1>1, <2>1
<1>4. /\ out' = out \o copied /\ pos' = pos + chunk
      /\ sector' = pos' \div SectorSize /\ offset' = pos' % SectorSize
      /\ remaining' = remaining - chunk
      /\ chunk' = Smaller(remaining', SectorSize - offset')
      /\ reading' = (remaining' > 0)
      /\ start' = start /\ total' = total
  BY DEF ReadSector
<1>5. /\ copied \in Seq(Locations) /\ Len(copied) = chunk
      /\ \A k \in 1 .. chunk : copied[k] = <<sector, offset + (k - 1)>>
  BY <1>0, <1>1, <1>3, CopiedBytes
<1>6. /\ out' \in Seq(Locations) /\ Len(out) \in Nat /\ Len(out') = Len(out) + chunk
      /\ \A k \in 1 .. Len(out) + chunk :
           out'[k] = IF k <= Len(out) THEN out[k] ELSE copied[k - Len(out)]
  <2>1. Len(out) \in Nat
    BY <1>1, LenProperties
  <2> HIDE DEF copied
  <2>2. /\ out \o copied \in Seq(Locations)
        /\ Len(out \o copied) = Len(out) + Len(copied)
        /\ \A k \in 1 .. Len(out) + Len(copied) :
             (out \o copied)[k] = IF k <= Len(out) THEN out[k] ELSE copied[k - Len(out)]
    BY <1>1, <1>5, ConcatProperties
  <2> QED BY <1>4, <1>5, <2>1, <2>2
<1> HIDE DEF copied
<1>7. pos' \in Nat /\ sector' \in Nat /\ offset' \in 0 .. SectorSize - 1 /\ remaining' \in Nat
  <2>1. pos' \in Nat
    BY <1>1, <1>3, <1>4
  <2>2. pos' \div SectorSize \in Nat /\ pos' % SectorSize \in 0 .. SectorSize - 1
    BY <2>1, DivMod
  <2> QED BY <1>3, <1>4, <2>1, <2>2
<1>8. TypeOK'
  <2>1. chunk' \in 0 .. SectorSize
    BY <1>4, <1>7, ChunkBounds
  <2>2. reading' \in BOOLEAN
    BY <1>4
  <2> QED BY <1>1, <1>4, <1>6, <1>7, <2>1, <2>2 DEF TypeOK, Locations
<1>9. BytesInOrder'
  <2>1. ASSUME NEW k \in 1 .. Len(out')
        PROVE  out'[k] = Byte(start + k - 1)
    <3>1. CASE k <= Len(out)
      BY <1>6, <3>1 DEF IInv, BytesInOrder
    <3>2. CASE k > Len(out)
      <4>1. PICK j \in Nat : j < chunk /\ k - Len(out) = j + 1
        <5>1. k - Len(out) - 1 \in Nat /\ k - Len(out) - 1 < chunk
          BY <1>3, <1>6, <3>2
        <5> QED BY <1>6, <5>1
      <4>2. out'[k] = <<sector, offset + j>>
        <5>1. j + 1 \in 1 .. chunk /\ (j + 1) - 1 = j
          BY <1>3, <4>1
        <5>2. out'[k] = copied[j + 1]
          BY <1>6, <3>2, <4>1
        <5> QED BY <1>5, <5>1, <5>2
      <4>3. Byte(pos + j) = <<sector, offset + j>>
        <5>1. (pos % SectorSize) + j < SectorSize
          <6>1. offset + j < SectorSize
            BY <1>0, <1>1, <1>3, <4>1
          <6> QED BY <1>2, <6>1
        <5> QED BY <1>1, <1>2, <4>1, <5>1, SameSector
      <4>4. start + k - 1 = pos + j
        BY <1>1, <1>2, <1>6, <4>1
      <4> QED BY <4>2, <4>3, <4>4
    <3> QED BY <1>6, <3>1, <3>2
  <2>2. Len(out') + remaining' = total'
    <3>1. Len(out) + remaining = total
      BY DEF IInv, BytesInOrder
    <3>2. Len(out') = Len(out) + chunk /\ Len(out) \in Nat
      BY <1>6
    <3>3. remaining' = remaining - chunk /\ total' = total
      BY <1>4
    <3>4. remaining \in Nat /\ chunk \in Nat /\ total \in Nat
      BY <1>1, <1>3
    <3> QED BY <3>1, <3>2, <3>3, <3>4
  <2> QED BY <1>4, <2>1, <2>2 DEF BytesInOrder, Byte
<1>10. InStep'
  <2>1. pos' = start' + Len(out')
    <3>1. Len(out') = Len(out) + chunk /\ Len(out) \in Nat
      BY <1>6
    <3>2. pos' = pos + chunk /\ start' = start
      BY <1>4
    <3>3. pos = start + Len(out) /\ start \in Nat /\ chunk \in Nat
      BY <1>1, <1>2, <1>3
    <3> QED BY <3>1, <3>2, <3>3
  <2> QED BY <1>4, <2>1 DEF InStep
<1> QED BY <1>8, <1>9, <1>10 DEF IInv

(* IInv is inductive: no seek, call or iteration breaks it.                *)
LEMMA NextIInv == ASSUME IInv, [Next]_vars PROVE IInv'
<1>1. CASE UNCHANGED vars
  BY <1>1 DEF vars, IInv, TypeOK, BytesInOrder, Byte, InStep
<1> QED BY <1>1, SeekIInv, ReadIInv, ReadSectorIInv DEF Next

(* IInv holds in every reachable state.                                    *)
THEOREM StreamInvariance == Spec => []IInv
<1>1. Init => IInv
  BY InitIInv
<1>2. IInv /\ [Next]_vars => IInv'
  BY NextIInv
<1> QED BY <1>1, <1>2, PTL DEF Spec

(* A caller of diskstream_read gets exactly the bytes that follow the      *)
(* stream's position, in order, whatever sector boundaries they cross.     *)
THEOREM StreamBytesInOrder == Spec => []BytesInOrder
<1>1. IInv => BytesInOrder
  BY DEF IInv
<1> QED BY <1>1, StreamInvariance, PTL

(* No sector is read that the request does not touch.                      *)
THEOREM StreamNoExtraSector == Spec => []NoExtraSector
<1>1. IInv => NoExtraSector
  <2> SUFFICES ASSUME IInv, reading, total > 0
               PROVE  sector * SectorSize < start + total
    BY DEF NoExtraSector
  <2>1. /\ pos \in Nat /\ start \in Nat /\ total \in Nat /\ remaining \in Nat
        /\ Len(out) \in Nat
        /\ pos = start + Len(out) /\ sector = pos \div SectorSize /\ remaining > 0
        /\ Len(out) + remaining = total
    BY DEF IInv, TypeOK, InStep, BytesInOrder
  <2>2. /\ pos \div SectorSize \in Nat /\ pos % SectorSize \in Nat
        /\ pos = (pos \div SectorSize) * SectorSize + (pos % SectorSize)
    BY <2>1, DivMod
  <2>3. sector * SectorSize <= pos
    BY <2>1, <2>2, StreamAssumption
  <2> QED BY <2>1, <2>3, StreamAssumption
<1> QED BY <1>1, StreamInvariance, PTL
-----------------------------------------------------------------------------
(* Every step of the stream on the drive is a step of DiskStream or leaves *)
(* it alone.                                                               *)
THEOREM ReadImplementsStream == ReadSpec => Spec
<1>1. ReadInit => Init
  BY DEF ReadInit
<1>2. [ReadNext]_readvars => [Next]_vars
  <2> SUFFICES ASSUME [ReadNext]_readvars PROVE [Next]_vars
    OBVIOUS
  <2>1. CASE UNCHANGED readvars
    BY <2>1 DEF readvars
  <2>2. CASE Kernel
    BY <2>2 DEF Kernel, ata_lba_read, load32, disk_read_block, BlockRead, Driver, Next
  <2>3. CASE Call
    BY <2>3 DEF Call, Next
  <2>4. CASE Drive \/ Broken
    BY <2>4 DEF Drive, Broken
  <2> QED BY <2>1, <2>2, <2>3, <2>4 DEF ReadNext
<1> QED BY <1>1, <1>2, PTL DEF ReadSpec, Spec

(* Whatever the drive does, the bytes a caller has are the ones asked for. *)
THEOREM ReadBytesInOrder == ReadSpec => []BytesInOrder
BY ReadImplementsStream, StreamBytesInOrder
-----------------------------------------------------------------------------
(* The quotient and the remainder of a division are unique.                *)
LEMMA Division ==
  ASSUME NEW d \in Nat \ {0}, NEW q \in Nat, NEW r \in 0 .. d - 1
  PROVE  (q * d + r) \div d = q /\ (q * d + r) % d = r
OBVIOUS

(* They exist.                                                             *)
LEMMA Divided ==
  ASSUME NEW d \in Nat \ {0}, NEW n \in Nat
  PROVE  /\ n \div d \in Nat /\ n % d \in 0 .. d - 1
         /\ n = (n \div d) * d + (n % d)
OBVIOUS

(* Dividing twice is dividing by the product.                              *)
LEMMA DividedTwice ==
  ASSUME NEW d \in Nat \ {0}, NEW e \in Nat \ {0}, NEW n \in Nat
  PROVE  n \div (d * e) = (n \div d) \div e
<1> DEFINE q == n \div d
           r == n % d
           q2 == q \div e
           r2 == q % e
<1>1. q \in Nat /\ r \in 0 .. d - 1 /\ n = q * d + r
  BY Divided
<1>2. q2 \in Nat /\ r2 \in 0 .. e - 1 /\ q = q2 * e + r2
  BY <1>1, Divided
<1> HIDE DEF q, r, q2, r2
<1>3. n = q2 * (d * e) + (r2 * d + r)
  BY <1>1, <1>2
<1>4. r2 * d + r \in 0 .. d * e - 1
  <2>1. r2 + 1 <= e /\ r + 1 <= d /\ r2 \in Nat /\ r \in Nat
    BY <1>1, <1>2
  <2>2. (r2 + 1) * d <= e * d
    BY <2>1
  <2>3. (r2 + 1) * d = r2 * d + d /\ r2 * d \in Nat
    BY <2>1
  <2> QED BY <2>1, <2>2, <2>3
<1>5. d * e \in Nat \ {0}
  OBVIOUS
<1>6. (q2 * (d * e) + (r2 * d + r)) \div (d * e) = q2
  BY <1>2, <1>4, <1>5, Division
<1> QED BY <1>3, <1>6 DEF q, q2

(* The drive puts an address together as the driver takes it apart, as     *)
(* long as it fits the registers.                                          *)
LEMMA AddressArrives ==
  ASSUME NEW s \in Nat, NEW t, s < ByteValues * ByteValues * ByteValues * HeadValues
  PROVE  Ata!Addressed(Ata!Pieces(s, t)) = s
<1>0. ByteValues \in Nat \ {0} /\ HeadValues \in Nat \ {0}
  BY DiskReadAssumption
<1>1. PICK q1 \in Nat, r1 \in Nat :
        s \div ByteValues = q1 /\ s % ByteValues = r1 /\ s = q1 * ByteValues + r1
  BY <1>0, Divided
<1>2. PICK q2 \in Nat, r2 \in Nat :
        q1 \div ByteValues = q2 /\ q1 % ByteValues = r2 /\ q1 = q2 * ByteValues + r2
  BY <1>0, Divided
<1>3. PICK q3 \in Nat, r3 \in Nat :
        q2 \div ByteValues = q3 /\ q2 % ByteValues = r3 /\ q2 = q3 * ByteValues + r3
  BY <1>0, Divided
<1>4. s \div (ByteValues * ByteValues) = q2
  BY <1>0, <1>1, <1>2, DividedTwice
<1>5. s \div (ByteValues * ByteValues * ByteValues) = q3
  <2>1. ByteValues * ByteValues \in Nat \ {0}
    BY <1>0
  <2> QED BY <1>0, <1>3, <1>4, <2>1, DividedTwice
<1>6. q3 < HeadValues
  <2> DEFINE B3 == ByteValues * ByteValues * ByteValues
  <2>1. s = q3 * B3 + (r3 * (ByteValues * ByteValues) + r2 * ByteValues + r1)
    BY <1>0, <1>1, <1>2, <1>3
  <2>2. r3 * (ByteValues * ByteValues) \in Nat /\ r2 * ByteValues \in Nat /\ B3 \in Nat \ {0}
    BY <1>0, <1>2, <1>3
  <2>3. s < HeadValues * B3
    BY <1>0
  <2> HIDE DEF B3
  <2>4. q3 * B3 <= s
    BY <1>1, <1>3, <2>1, <2>2
  <2> QED BY <1>0, <1>3, <2>2, <2>3, <2>4
<1>7. q3 % HeadValues = q3
  BY <1>0, <1>3, <1>6
<1>8. Ata!Addressed(Ata!Pieces(s, t)) =
        r1 + ByteValues * (r2 + ByteValues * (r3 + ByteValues * q3))
  BY <1>1, <1>2, <1>3, <1>4, <1>5, <1>7 DEF Ata!Addressed, Ata!Pieces
<1> QED BY <1>0, <1>1, <1>2, <1>3, <1>8

(* A count that fits its register arrives.                                 *)
LEMMA CountArrives ==
  ASSUME NEW s, NEW t \in 1 .. ByteValues - 1
  PROVE  Ata!Counted(Ata!Pieces(s, t)) = t
BY DiskReadAssumption DEF Ata!Counted, Ata!Pieces

(* A sector has words.                                                     *)
LEMMA WordsOfSector == SectorWords \in Nat \ {0}
<1>1. SectorSize \in Nat \ {0} /\ WordBytes \in Nat \ {0} /\ SectorSize % WordBytes = 0
  BY DiskReadAssumption, StreamAssumption
<1>2. /\ SectorSize \div WordBytes \in Nat
      /\ SectorSize = (SectorSize \div WordBytes) * WordBytes + (SectorSize % WordBytes)
  BY <1>1, Divided
<1>3. ASSUME SectorSize \div WordBytes = 0 PROVE FALSE
  BY <1>1, <1>2, <1>3
<1> QED BY <1>2, <1>3 DEF SectorWords
-----------------------------------------------------------------------------
(* What the driver has done: it stands where the drive does, and buf holds *)
(* the words up to there.                                                  *)
Words(l, n) == [k \in 0 .. n - 1 |-> Ata!WordAt(l + k \div SectorWords, k % SectorWords)]

Driving ==
  /\ lba \in Nat /\ count \in Nat \ {0}
  /\ b \in 0 .. count /\ i \in 0 .. SectorWords - 1
  /\ at = <<lba + b, i>> /\ left = count - b
  /\ ata \in {"poll", "copy"} => b < count
  /\ ata = "poll" => i = 0
  /\ ata = "copy" => status = "drq"
  /\ ata = "done" => b = count /\ i = 0
  /\ buf = Words(lba, b * SectorWords + i)

(* SectorsAreTheDrives speaks of the end of a call; Driving carries it     *)
(* through the call, and the numbers of the sectors fit the registers      *)
(* because the stream stays on the disk.                                   *)
DriverInv ==
  /\ IInv
  /\ reading => start + total <= DiskSize
  /\ ata \in {"idle", "poll", "copy", "done"}
  /\ ata # "idle" => Driving

(* A stream that reads stands on a sector of the disk.                     *)
LEMMA SectorOnDisk ==
  ASSUME DriverInv, reading
  PROVE  sector \in Nat /\ sector <= DiskSize \div SectorSize
<1>1. /\ pos \in Nat /\ start \in Nat /\ total \in Nat /\ remaining \in Nat
      /\ Len(out) \in Nat /\ pos = start + Len(out) /\ sector = pos \div SectorSize
      /\ Len(out) + remaining = total /\ start + total <= DiskSize
  BY DEF DriverInv, IInv, TypeOK, InStep, BytesInOrder
<1>2. pos <= DiskSize /\ DiskSize \in Nat /\ SectorSize \in Nat \ {0}
  BY <1>1, StreamAssumption
<1>3. PICK q \in Nat, r \in 0 .. SectorSize - 1 : sector = q /\ pos = q * SectorSize + r
  BY <1>1, DivMod
<1>4. PICK p \in Nat, t \in 0 .. SectorSize - 1 :
        DiskSize \div SectorSize = p /\ DiskSize = p * SectorSize + t
  BY <1>2, DivMod
<1>5. ASSUME q > p PROVE FALSE
  <2>1. q * SectorSize >= (p + 1) * SectorSize
    BY <1>2, <1>3, <1>4, <1>5
  <2>2. (p + 1) * SectorSize = p * SectorSize + SectorSize
    BY <1>2, <1>4
  <2>3. p * SectorSize \in Nat /\ q * SectorSize \in Nat
    BY <1>2, <1>3, <1>4
  <2> QED BY <1>2, <1>3, <1>4, <2>1, <2>2, <2>3
<1> QED BY <1>3, <1>4, <1>5

(* A call begins with nothing in buf and the drive at the sector asked.    *)
LEMMA AskedIsDriving ==
  ASSUME NEW s \in Nat, NEW t \in 1 .. ByteValues - 1,
         s < ByteValues * ByteValues * ByteValues * HeadValues,
         Ata!disk_read_sector(s, t)
  PROVE  Driving' /\ ata' = "poll"
<1>0. SectorWords \in Nat \ {0} /\ t \in Nat \ {0}
  BY WordsOfSector, DiskReadAssumption
<1>1. /\ at' = <<s, 0>> /\ left' = t
      /\ ata' = "poll" /\ lba' = s /\ count' = t /\ b' = 0 /\ i' = 0 /\ buf' = <<>>
  BY AddressArrives, CountArrives, <1>0 DEF Ata!disk_read_sector, Ata!WordAt
<1>2. Words(s, 0 * SectorWords + 0) = <<>>
  <2>1. 0 * SectorWords + 0 = 0 /\ 0 .. 0 - 1 = {}
    BY <1>0
  <2>2. Words(s, 0) = [k \in {} |-> Ata!WordAt(s + k \div SectorWords, k % SectorWords)]
    BY <2>1 DEF Words
  <2> QED BY <2>1, <2>2
<1> QED BY <1>0, <1>1, <1>2 DEF Driving

(* A word taken from a drive that has it is the next one.                  *)
LEMMA CopyIsDriving ==
  ASSUME DriverInv, Ata!CopyWord
  PROVE  Driving' /\ ata' \in {"poll", "copy", "done"}
<1>0. SectorWords \in Nat \ {0}
  BY WordsOfSector
<1>1. /\ lba \in Nat /\ count \in Nat \ {0} /\ b \in 0 .. count /\ i \in 0 .. SectorWords - 1
      /\ at = <<lba + b, i>> /\ left = count - b /\ b < count /\ status = "drq"
      /\ buf = Words(lba, b * SectorWords + i)
  BY DEF Ata!CopyWord, DriverInv, Driving
<1> DEFINE k0 == b * SectorWords + i
<1>2. k0 \in Nat /\ k0 \div SectorWords = b /\ k0 % SectorWords = i
  <2>1. b \in Nat /\ i \in 0 .. SectorWords - 1
    BY <1>1
  <2> QED BY <1>0, <2>1, Division
<1>3. buf' = [k \in DOMAIN buf \cup {k0} |-> IF k = k0 THEN <<lba + b, i>> ELSE buf[k]]
  BY <1>1 DEF Ata!CopyWord, Ata!Given
<1>4. /\ lba' = lba /\ count' = count /\ i' = (i + 1) % SectorWords
      /\ b' = IF i' = 0 THEN b + 1 ELSE b
  BY DEF Ata!CopyWord
<1> HIDE DEF k0
<1>5. buf' = Words(lba, k0 + 1)
  <2>1. DOMAIN buf = 0 .. k0 - 1
    BY <1>1 DEF Words, k0
  <2>2. (0 .. k0 - 1) \cup {k0} = 0 .. (k0 + 1) - 1
    BY <1>2
  <2>3. \A k \in 0 .. k0 - 1 : buf[k] = Ata!WordAt(lba + k \div SectorWords, k % SectorWords)
    BY <1>1 DEF Words, k0
  <2>4. \A k \in 0 .. (k0 + 1) - 1 :
          (IF k = k0 THEN <<lba + b, i>> ELSE buf[k]) =
            Ata!WordAt(lba + k \div SectorWords, k % SectorWords)
    BY <1>2, <2>2, <2>3 DEF Ata!WordAt
  <2>5. buf' = [k \in 0 .. (k0 + 1) - 1 |->
                  Ata!WordAt(lba + k \div SectorWords, k % SectorWords)]
    BY <1>3, <2>1, <2>2, <2>4
  <2> QED BY <2>5 DEF Words
<1>6. CASE i = SectorWords - 1
  <2>1. i' = 0 /\ b' = b + 1
    BY <1>0, <1>1, <1>4, <1>6
  <2>2. at' = <<lba + b + 1, 0>> /\ left' = count - (b + 1)
    BY <1>1, <1>6 DEF Ata!CopyWord, Ata!WordTaken, Ata!WordAt
  <2>3. b' * SectorWords + i' = k0 + 1
    BY <1>0, <1>1, <1>6, <2>1 DEF k0
  <2>4. ata' = IF b + 1 < count THEN "poll" ELSE "done"
    BY <1>4, <2>1 DEF Ata!CopyWord
  <2>5. buf' = Words(lba', b' * SectorWords + i')
    BY <1>4, <1>5, <2>3
  <2> QED BY <1>0, <1>1, <1>4, <2>1, <2>2, <2>4, <2>5 DEF Driving
<1>7. CASE i # SectorWords - 1
  <2>1. i' = i + 1 /\ i' # 0 /\ b' = b /\ i' \in 0 .. SectorWords - 1
    BY <1>0, <1>1, <1>4, <1>7
  <2>2. at' = <<lba + b, i + 1>> /\ left' = left /\ status' = status
    BY <1>1, <1>7 DEF Ata!CopyWord, Ata!WordTaken, Ata!WordAt
  <2>3. b' * SectorWords + i' = k0 + 1
    BY <1>0, <1>1, <1>2, <2>1 DEF k0
  <2>4. ata' = "copy"
    BY <2>1 DEF Ata!CopyWord
  <2>5. buf' = Words(lba', b' * SectorWords + i')
    BY <1>4, <1>5, <2>3
  <2> QED BY <1>0, <1>1, <1>4, <2>1, <2>2, <2>4, <2>5 DEF Driving
<1> QED BY <1>6, <1>7

(* Steps of the stream keep it on the disk.                                *)
LEMMA StreamSteps ==
  ASSUME DriverInv, [ReadNext]_readvars
  PROVE  IInv' /\ (reading => start + total <= DiskSize)'
<1>1. [Next]_vars
  BY DEF ReadNext, readvars, Kernel, Call, Drive, Broken, ata_lba_read, load32,
         disk_read_block, BlockRead, Driver, Next
<1>2. IInv'
  BY <1>1, NextIInv DEF DriverInv
<1>3. (reading => start + total <= DiskSize)'
  BY <1>1 DEF DriverInv, Next, vars, diskstream_seek, diskstream_read, ReadSector
<1> QED BY <1>2, <1>3

(* No step of kernel or drive puts them out of step with each other.       *)
LEMMA DriverStep ==
  ASSUME DriverInv, [ReadNext]_readvars
  PROVE  DriverInv'
<1>0. IInv' /\ (reading => start + total <= DiskSize)'
  BY StreamSteps
<1> DEFINE Goal == ata' \in {"idle", "poll", "copy", "done"} /\ (ata' # "idle" => Driving')
<1> SUFFICES Goal
  BY <1>0 DEF DriverInv
<1>1. CASE UNCHANGED drive
  BY <1>1 DEF drive, DriverInv, Driving, Words
<1>2. CASE ata_lba_read
  <2>1. /\ 1 < ByteValues * ByteValues * ByteValues * HeadValues
        /\ KernelSectors \in 1 .. ByteValues - 1
    <3>1. KernelSectors \in 1 .. ByteValues - 1 /\ ByteValues \in Nat /\ HeadValues \in Nat
      BY DiskReadAssumption
    <3>2. ByteValues * ByteValues * ByteValues * HeadValues \in Nat
      BY <3>1
    <3> QED BY <3>1, <3>2, DiskReadAssumption
  <2> QED BY <1>2, <2>1, AskedIsDriving DEF ata_lba_read
<1>3. CASE disk_read_block
  <2>1. sector \in Nat /\ sector <= DiskSize \div SectorSize
    BY <1>3, SectorOnDisk DEF disk_read_block
  <2>2. /\ sector < ByteValues * ByteValues * ByteValues * HeadValues
        /\ 1 \in 1 .. ByteValues - 1
    <3>1. KernelSectors \in 1 .. ByteValues - 1 /\ ByteValues \in Nat /\ HeadValues \in Nat
      BY DiskReadAssumption
    <3>2. ByteValues * ByteValues * ByteValues * HeadValues \in Nat
      BY <3>1
    <3>3. DiskSize \div SectorSize \in Nat
      BY DivMod, StreamAssumption
    <3> QED BY <2>1, <3>1, <3>2, <3>3, DiskReadAssumption
  <2> QED BY <1>3, <2>1, <2>2, AskedIsDriving DEF disk_read_block
<1>4. CASE Ata!Return
  BY <1>4 DEF Ata!Return
<1>5. CASE Ata!Poll
  BY <1>5 DEF Ata!Poll, Ata!drive, DriverInv, Driving
<1>6. CASE Ata!CopyWord
  BY <1>6, CopyIsDriving
<1>7. CASE Ata!DriveReady \/ Ata!DriveFails
  BY <1>7 DEF Ata!DriveReady, Ata!DriveFails, Ata!loop, DriverInv, Driving
<1> QED BY <1>1, <1>2, <1>3, <1>4, <1>5, <1>6, <1>7
     DEF ReadNext, readvars, Kernel, Call, Drive, Broken, load32, BlockRead, Driver

(* For every register width, sector size and disk, what disk_read_sector   *)
(* leaves in buf is the sectors it was asked for, whenever the drive is    *)
(* ready and whatever was read before.                                     *)
THEOREM ReadSectorsAreTheDrives == ReadSpec => []SectorsAreTheDrives
<1>1. ReadInit => DriverInv
  BY InitIInv DEF ReadInit, Ata!Init, DriverInv, Init
<1>2. DriverInv /\ [ReadNext]_readvars => DriverInv'
  BY DriverStep
<1>3. DriverInv => SectorsAreTheDrives
  <2> SUFFICES ASSUME DriverInv, ata = "done" PROVE SectorsAreTheDrives
    BY DEF SectorsAreTheDrives
  <2>1. buf = Words(lba, count * SectorWords + 0) /\ count \in Nat
    BY DEF DriverInv, Driving
  <2>2. count * SectorWords + 0 = count * SectorWords
    BY <2>1, WordsOfSector
  <2> QED BY <2>1, <2>2 DEF SectorsAreTheDrives, Words
<1> QED BY <1>1, <1>2, <1>3, PTL DEF ReadSpec

(* When the driver polls, the drive has something to offer, or will have,  *)
(* or has failed.                                                          *)
NotInVain == ata = "poll" => status \in {"busy", "drq", "error"}

(* The words the driver still has to take.                                 *)
WordsLeft == (count - b) * SectorWords - i

(* No sector is polled for behind the last one asked for.                  *)
LEMMA NextNotInVain ==
  ASSUME DriverInv, NotInVain, [ReadNext]_readvars
  PROVE  NotInVain'
<1>1. CASE UNCHANGED drive
  BY <1>1 DEF drive, NotInVain
<1>2. CASE ata_lba_read \/ disk_read_block
  BY <1>2 DEF ata_lba_read, disk_read_block, Ata!disk_read_sector, NotInVain
<1>3. CASE Ata!Return
  BY <1>3 DEF Ata!Return, NotInVain
<1>4. CASE Ata!Poll
  BY <1>4 DEF Ata!Poll, Ata!drive, NotInVain
<1>5. CASE Ata!CopyWord
  <2>1. /\ status = "drq" /\ count \in Nat /\ b \in 0 .. count /\ i \in 0 .. SectorWords - 1
        /\ at = <<lba + b, i>> /\ left = count - b
    BY <1>5 DEF Ata!CopyWord, DriverInv, Driving
  <2>2. /\ i' = (i + 1) % SectorWords /\ b' = (IF i' = 0 THEN b + 1 ELSE b)
        /\ (ata' = "poll" => i' = 0 /\ b' < count)
    BY <1>5 DEF Ata!CopyWord
  <2>3. ASSUME ata' = "poll" PROVE status' = "busy"
    <3>1. i = SectorWords - 1
      BY <2>1, <2>2, <2>3, WordsOfSector
    <3>2. left # 1
      BY <2>1, <2>2, <2>3
    <3> QED BY <1>5, <2>1, <3>1, <3>2 DEF Ata!CopyWord, Ata!WordTaken
  <2> QED BY <2>3 DEF NotInVain
<1>6. CASE Ata!DriveReady \/ Ata!DriveFails
  BY <1>6 DEF Ata!DriveReady, Ata!DriveFails, Ata!loop, NotInVain
<1> QED BY <1>1, <1>2, <1>3, <1>4, <1>5, <1>6
     DEF ReadNext, readvars, Kernel, Call, Drive, Broken, load32, BlockRead, Driver

(* Each word is taken once.                                                *)
LEMMA LessWords ==
  ASSUME DriverInv, Ata!CopyWord
  PROVE  WordsLeft \in Nat /\ WordsLeft' = WordsLeft - 1 /\ WordsLeft' \in Nat
<1>0. SectorWords \in Nat \ {0}
  BY WordsOfSector
<1>1. count \in Nat /\ b \in 0 .. count /\ b < count /\ i \in 0 .. SectorWords - 1
  BY DEF Ata!CopyWord, DriverInv, Driving
<1>2. count' = count /\ i' = (i + 1) % SectorWords /\ b' = IF i' = 0 THEN b + 1 ELSE b
  BY DEF Ata!CopyWord
<1>3. PICK d \in Nat : count - b = d + 1 /\ count - (b + 1) = d
  <2>1. count - (b + 1) \in Nat /\ count - b = (count - (b + 1)) + 1
    BY <1>1
  <2> QED BY <2>1
<1>4. d * SectorWords \in Nat /\ (d + 1) * SectorWords = d * SectorWords + SectorWords
  BY <1>0
<1> DEFINE P == d * SectorWords
<1>5. WordsLeft = P + SectorWords - i
  <2>1. (count - b) * SectorWords = (d + 1) * SectorWords
    BY <1>3
  <2>2. WordsLeft = (d + 1) * SectorWords - i
    BY <2>1 DEF WordsLeft
  <2> QED BY <1>0, <1>1, <1>4, <2>2
<1>6. WordsLeft' = (count - b') * SectorWords - i'
  BY <1>2 DEF WordsLeft, SectorWords
<1>7. CASE i = SectorWords - 1
  <2>1. i' = 0 /\ b' = b + 1
    BY <1>0, <1>2, <1>7
  <2>2. WordsLeft' = P - 0
    BY <1>3, <1>6, <2>1
  <2> HIDE DEF P
  <2> QED BY <1>0, <1>4, <1>5, <1>7, <2>2 DEF P
<1>8. CASE i # SectorWords - 1
  <2>1. i' = i + 1 /\ i + 1 < SectorWords /\ b' = b
    BY <1>0, <1>1, <1>2, <1>8
  <2>2. WordsLeft' = P + SectorWords - (i + 1)
    <3>1. (count - b') * SectorWords = (d + 1) * SectorWords
      BY <1>3, <2>1
    <3>2. WordsLeft' = (d + 1) * SectorWords - (i + 1)
      BY <1>6, <2>1, <3>1
    <3> QED BY <1>0, <1>1, <1>4, <3>2
  <2>3. P \in Nat
    BY <1>4
  <2> HIDE DEF P
  <2> QED BY <1>0, <1>1, <1>5, <2>1, <2>2, <2>3
<1> QED BY <1>7, <1>8

(* A sector that was read lessens what the caller still wants.             *)
LEMMA LessBytes ==
  ASSUME DriverInv, ReadSector
  PROVE  remaining \in Nat /\ (reading' => remaining' < remaining)
<1>1. /\ remaining \in Nat /\ offset \in 0 .. SectorSize - 1
      /\ chunk = Smaller(remaining, SectorSize - offset) /\ (remaining > 0 \/ total = 0)
      /\ Len(out) + remaining = total /\ Len(out) \in Nat
  BY DEF DriverInv, IInv, TypeOK, InStep, BytesInOrder, ReadSector
<1>2. chunk \in Nat /\ chunk <= remaining /\ (remaining > 0 => chunk > 0)
  BY <1>1, StreamAssumption DEF Smaller
<1>3. remaining' = remaining - chunk /\ (reading' => remaining' > 0)
  BY DEF ReadSector
<1> QED BY <1>1, <1>2, <1>3

(* disk_read_sector never polls for a sector that it did not ask for,      *)
(* takes each word once, and each sector that was read leaves the caller   *)
(* less to wait for: only a drive that fails, or is never ready, holds a   *)
(* read up (disk.c:25, boot.asm:147).                                      *)
THEOREM ReadGetsOn ==
  ReadSpec =>
    /\ []NotInVain
    /\ [][Ata!CopyWord => WordsLeft \in Nat /\ WordsLeft' = WordsLeft - 1]_readvars
    /\ [][BlockRead => remaining \in Nat /\ (reading' => remaining' < remaining)]_readvars
<1>1. ReadInit => DriverInv /\ NotInVain
  BY InitIInv DEF ReadInit, Ata!Init, DriverInv, Init, NotInVain
<1>2. DriverInv /\ NotInVain /\ [ReadNext]_readvars => DriverInv' /\ NotInVain'
  BY DriverStep, NextNotInVain
<1>3. DriverInv /\ [ReadNext]_readvars
        => [Ata!CopyWord => WordsLeft \in Nat /\ WordsLeft' = WordsLeft - 1]_readvars
  BY LessWords
<1>4. DriverInv /\ [ReadNext]_readvars
        => [BlockRead => remaining \in Nat /\ (reading' => remaining' < remaining)]_readvars
  BY LessBytes DEF BlockRead
<1> QED BY <1>1, <1>2, <1>3, <1>4, PTL DEF ReadSpec
=============================================================================
