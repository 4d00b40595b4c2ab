-------------------------------- MODULE Gdt --------------------------------
(***************************************************************************)
(* Segment descriptors: encode_gdt_entry (src/gdt/gdt.c) takes the limit   *)
(* and the base of a segment apart into the fields of struct gdt_raw, and  *)
(* the CPU puts them together again.  A limit has 32 bits in struct gdt    *)
(* but 20 in a descriptor, which counts bytes or, with the granularity     *)
(* flag, units of 4096 bytes.  The flags that never vary are left out.     *)
(***************************************************************************)
EXTENDS Integers

CONSTANTS
  LimitLow,   \* 2^16: values of limit_low_16bits
  LimitHigh,  \* 2^4: values of the half of limit_high_and_flags that is limit
  Unit,       \* 2^12: bytes in a unit of the granularity flag
  BaseLow,    \* 2^16: values of base_low_16bits, ...
  BaseMid,    \* 2^8: ... of base_mid_8bits ...
  BaseHigh    \* 2^8: ... and of base_high_8bits

ASSUME GdtAssumption ==
  /\ LimitLow \in Nat \ {0} /\ LimitHigh \in Nat \ {0} /\ Unit \in Nat \ {0}
  /\ BaseLow \in Nat \ {0} /\ BaseMid \in Nat \ {0} /\ BaseHigh \in Nat \ {0}

(* The numbers that struct gdt can hold.                                   *)
Limits == 0 .. LimitLow * LimitHigh * Unit - 1
Bases == 0 .. BaseLow * BaseMid * BaseHigh - 1

(* 0xFFFFF + 1, one more than a descriptor counts in bytes.                *)
GDT_MAX_LIMIT_FOR_BYTE_MODE == LimitLow * LimitHigh

(* encode_gdt_entry panics on the other limits.                            *)
Accepted(limit) ==
  ~ (limit > GDT_MAX_LIMIT_FOR_BYTE_MODE /\ limit % Unit # Unit - 1)

InUnits(limit) == limit > GDT_MAX_LIMIT_FOR_BYTE_MODE

(* Sets the flag and keeps counting in bytes.                              *)
Mut_Scaled(limit) == limit

Scaled(limit) == IF InUnits(limit) THEN limit \div Unit ELSE limit

encode_gdt_entry(s) ==
  [limit_low |-> Scaled(s.limit) % LimitLow,
   limit_high |-> (Scaled(s.limit) \div LimitLow) % LimitHigh,
   units |-> InUnits(s.limit),
   base_low |-> s.base % BaseLow,
   base_mid |-> (s.base \div BaseLow) % BaseMid,
   base_high |-> (s.base \div (BaseLow * BaseMid)) % BaseHigh,
   access |-> s.type]

(* What the CPU makes of a descriptor (the IA-32 manual, not the program). *)
Fields(raw) == raw.limit_low + LimitLow * raw.limit_high

CpuLimit(raw) == IF raw.units THEN Fields(raw) * Unit + (Unit - 1) ELSE Fields(raw)
CpuBase(raw) == raw.base_low + BaseLow * (raw.base_mid + BaseMid * raw.base_high)

Decoded(raw) == [base |-> CpuBase(raw), limit |-> CpuLimit(raw), type |-> raw.access]
=============================================================================
