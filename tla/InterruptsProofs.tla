-------------------------- MODULE InterruptsProofs ---------------------------
(***************************************************************************)
(* Proofs about Interrupts, for any lines, commands and runs of the        *)
(* program: what is on the kernel stack and in the registers at every      *)
(* instruction between an entry and the return from it.                    *)
(***************************************************************************)
EXTENDS Interrupts, TLAPS, SequenceTheorems

(* The words on the kernel stack, its top first: what the CPU pushed, with *)
(* or without an error code, and the frame when pushad has run.            *)
EnteredWithError ==
  <<Garbage, entry["ip"], entry["cs"], entry["flags"], entry["esp"], entry["ss"]>>
Frame ==
  <<entry["edi"], entry["esi"], entry["ebp"], Garbage,
    entry["ebx"], entry["edx"], entry["ecx"], entry["eax"],
    entry["ip"], entry["cs"], entry["flags"], entry["esp"], entry["ss"]>>
FrameWithError ==
  <<entry["edi"], entry["esi"], entry["ebp"], Garbage,
    entry["ebx"], entry["edx"], entry["ecx"], entry["eax"],
    Garbage, entry["ip"], entry["cs"], entry["flags"], entry["esp"], entry["ss"]>>
Arguments ==
  <<entry["eax"], <<"frame", 0>>,
    entry["edi"], entry["esi"], entry["ebp"], Garbage,
    entry["ebx"], entry["edx"], entry["ecx"], entry["eax"],
    entry["ip"], entry["cs"], entry["flags"], entry["esp"], entry["ss"]>>

IsRegisters(r) == r = [name \in Saved |-> r[name]]

Wrapper == stub = "isr80h_wrapper"

(* The stubs run for what they are the gates of.                           *)
StubInv ==
  /\ pc \in {"arguments", "result", "eax"} => Wrapper
  /\ pc \notin {"boot", "user", "panic", "astray"} =>
       /\ Wrapper <=> cause = "int80"
       /\ cause = "exception" \/ stub # "idt_zero"
  /\ pc = "pushad" => stub # "idt_zero"
  /\ pc \notin {"boot"} => current_task

(* What has been pushed and not been popped; an error code only under an   *)
(* exception.                                                              *)
StackInv ==
  /\ pc \in {"boot", "user"} => stack = <<>>
  /\ pc \in {"pushad", "iret"} =>
       \/ stack = Entered(entry)
       \/ cause = "exception" /\ stack = EnteredWithError
  /\ pc = "arguments" => stack = Frame
  /\ pc \in {"handler", "result"} /\ Wrapper => stack = Arguments
  /\ pc = "eax" => stack = Entered(entry)
  /\ \/ pc = "handler" /\ stub \in {"int21h", "no_interrupt"}
     \/ pc = "popad"
     => \/ stack = Frame
        \/ cause = "exception" /\ stack = FrameWithError

(* Where the program's registers are when they are not in the CPU, and     *)
(* where the answer of a system call is on its way to eax.                 *)
RegsInv ==
  /\ IsRegisters(regs) /\ IsRegisters(entry)
  /\ pc # "boot" => entry["cs"] = UserCode /\ entry["ip"] # UserCode
  /\ pc \in {"pushad", "arguments"} => regs = [entry EXCEPT !["cs"] = KernelCode]
  /\ pc = "boot" => registers = FirstRegisters /\ cause = "none"
  /\ pc = "result" => registers = entry /\ regs["eax"] = Answer
  /\ pc = "popad" /\ Wrapper => tmp_res = Answer
  /\ pc = "eax" => \A r \in General : regs[r] = entry[r]
  /\ pc = "eax" => tmp_res = Answer
  /\ pc = "iret" =>
       \A r \in General : regs[r] = IF Wrapper /\ r = "eax" THEN Answer ELSE entry[r]

IInv == StubInv /\ StackInv /\ RegsInv /\ ReturnsToCaller
-----------------------------------------------------------------------------
(* A sequence made of two is known by its length and its elements.         *)
LEMMA ConcatIs ==
  ASSUME NEW S, NEW s \in Seq(S), NEW t \in Seq(S), NEW u \in Seq(S),
         Len(u) = Len(s) + Len(t),
         \A k \in 1 .. Len(u) : u[k] = IF k <= Len(s) THEN s[k] ELSE t[k - Len(s)]
  PROVE  s \o t = u
BY ConcatProperties, SeqEqual

(* A tail of a sequence, likewise.                                         *)
LEMMA TailIs ==
  ASSUME NEW S, NEW s \in Seq(S), NEW n \in 1 .. Len(s) + 1, NEW u \in Seq(S),
         Len(u) = Len(s) - n + 1,
         \A k \in 1 .. Len(u) : u[k] = s[n + k - 1]
  PROVE  SubSeq(s, n, Len(s)) = u
<1>1. Len(s) \in Nat /\ Len(u) \in Nat
  BY LenProperties
<1>2. CASE n <= Len(s)
  BY <1>1, <1>2, SubSeqProperties, SeqEqual
<1>3. CASE n = Len(s) + 1
  BY <1>1, <1>3, SubSeqEmpty, EmptySeq, SeqEqual
<1> QED BY <1>1, <1>2, <1>3

(* What the CPU and the stubs push and pop, word by word.                  *)
LEMMA PushOnEmpty ==
  ASSUME NEW a, NEW b, NEW c, NEW d, NEW e, NEW x
  PROVE  /\ (<<>> \o <<a, b, c, d, e>>) \o <<>> = <<a, b, c, d, e>>
         /\ (<<x>> \o <<a, b, c, d, e>>) \o <<>> = <<x, a, b, c, d, e>>
<1> DEFINE S == {a, b, c, d, e, x}
<1>1. /\ <<>> \in Seq(S) /\ <<x>> \in Seq(S) /\ <<a, b, c, d, e>> \in Seq(S)
      /\ <<x, a, b, c, d, e>> \in Seq(S)
  OBVIOUS
<1>2. <<>> \o <<a, b, c, d, e>> = <<a, b, c, d, e>>
  BY <1>1, ConcatEmptySeq
<1>3. <<x>> \o <<a, b, c, d, e>> = <<x, a, b, c, d, e>>
  <2> DEFINE p == <<x>>
             q == <<a, b, c, d, e>>
             r == <<x, a, b, c, d, e>>
  <2>1. p \in Seq(S) /\ q \in Seq(S) /\ r \in Seq(S) /\ Len(r) = Len(p) + Len(q)
    OBVIOUS
  <2>2. \A k \in 1 .. Len(r) : r[k] = IF k <= Len(p) THEN p[k] ELSE q[k - Len(p)]
    OBVIOUS
  <2> HIDE DEF S, p, q, r
  <2>3. p \o q = r
    BY <2>1, <2>2, ConcatIs
  <2> QED BY <2>3 DEF p, q, r
<1> QED BY <1>1, <1>2, <1>3, ConcatEmptySeq

LEMMA PushFrame ==
  LET pushed == <<entry["edi"], entry["esi"], entry["ebp"], Garbage,
                  entry["ebx"], entry["edx"], entry["ecx"], entry["eax"]>>
  IN  pushed \o Entered(entry) = Frame /\ pushed \o EnteredWithError = FrameWithError
<1> DEFINE S == {entry["edi"], entry["esi"], entry["ebp"], Garbage,
                 entry["ebx"], entry["edx"], entry["ecx"], entry["eax"],
                 entry["ip"], entry["cs"], entry["flags"], entry["esp"], entry["ss"]}
           p == <<entry["edi"], entry["esi"], entry["ebp"], Garbage,
                  entry["ebx"], entry["edx"], entry["ecx"], entry["eax"]>>
           q == Entered(entry)
           r == EnteredWithError
           s == Frame
           t == FrameWithError
<1>1. p \in Seq(S) /\ q \in Seq(S) /\ r \in Seq(S) /\ s \in Seq(S) /\ t \in Seq(S)
  BY DEF Entered, EnteredWithError, Frame, FrameWithError
<1>2. Len(s) = Len(p) + Len(q) /\ Len(t) = Len(p) + Len(r)
  BY DEF Entered, EnteredWithError, Frame, FrameWithError
<1>3. \A k \in 1 .. Len(s) : s[k] = IF k <= Len(p) THEN p[k] ELSE q[k - Len(p)]
  BY DEF Entered, Frame
<1>4. \A k \in 1 .. Len(t) : t[k] = IF k <= Len(p) THEN p[k] ELSE r[k - Len(p)]
  BY DEF EnteredWithError, FrameWithError
<1> HIDE DEF S, p, q, r, s, t
<1>5. p \o q = s
  BY <1>1, <1>2, <1>3, ConcatIs
<1>6. p \o r = t
  BY <1>1, <1>2, <1>4, ConcatIs
<1> QED BY <1>5, <1>6 DEF p, q, r, s, t

LEMMA PopFrame ==
  /\ SubSeq(Frame, 9, Len(Frame)) = Entered(entry)
  /\ SubSeq(FrameWithError, 9, Len(FrameWithError)) = EnteredWithError
<1> DEFINE S == {entry["edi"], entry["esi"], entry["ebp"], Garbage,
                 entry["ebx"], entry["edx"], entry["ecx"], entry["eax"],
                 entry["ip"], entry["cs"], entry["flags"], entry["esp"], entry["ss"]}
           q == Entered(entry)
           r == EnteredWithError
           s == Frame
           t == FrameWithError
<1>1. q \in Seq(S) /\ r \in Seq(S) /\ s \in Seq(S) /\ t \in Seq(S)
  BY DEF Entered, EnteredWithError, Frame, FrameWithError
<1>2. /\ Len(q) = Len(s) - 9 + 1 /\ Len(r) = Len(t) - 9 + 1
      /\ 9 \in 1 .. Len(s) + 1 /\ 9 \in 1 .. Len(t) + 1
  BY DEF Entered, EnteredWithError, Frame, FrameWithError
<1>3. \A k \in 1 .. Len(q) : q[k] = s[9 + k - 1]
  BY DEF Entered, Frame
<1>4. \A k \in 1 .. Len(r) : r[k] = t[9 + k - 1]
  BY DEF EnteredWithError, FrameWithError
<1> HIDE DEF S, q, r, s, t
<1>5. SubSeq(s, 9, Len(s)) = q
  BY <1>1, <1>2, <1>3, TailIs
<1>6. SubSeq(t, 9, Len(t)) = r
  BY <1>1, <1>2, <1>4, TailIs
<1> QED BY <1>5, <1>6 DEF q, r, s, t

LEMMA PushAndPopArguments ==
  /\ <<entry["eax"], <<"frame", 0>> >> \o Frame = Arguments
  /\ SubSeq(Arguments, 3, Len(Arguments)) = Frame
<1> DEFINE S == {entry["edi"], entry["esi"], entry["ebp"], Garbage,
                 entry["ebx"], entry["edx"], entry["ecx"], entry["eax"], <<"frame", 0>>,
                 entry["ip"], entry["cs"], entry["flags"], entry["esp"], entry["ss"]}
           p == <<entry["eax"], <<"frame", 0>> >>
           q == Frame
           r == Arguments
<1>1. p \in Seq(S) /\ q \in Seq(S) /\ r \in Seq(S)
  BY DEF Frame, Arguments
<1>2. Len(r) = Len(p) + Len(q) /\ Len(q) = Len(r) - 3 + 1 /\ 3 \in 1 .. Len(r) + 1
  BY DEF Frame, Arguments
<1>3. \A k \in 1 .. Len(r) : r[k] = IF k <= Len(p) THEN p[k] ELSE q[k - Len(p)]
  BY DEF Frame, Arguments
<1>4. \A k \in 1 .. Len(q) : q[k] = r[3 + k - 1]
  BY DEF Frame, Arguments
<1> HIDE DEF S, p, q, r
<1>5. p \o q = r
  BY <1>1, <1>2, <1>3, ConcatIs
<1>6. SubSeq(r, 3, Len(r)) = q
  BY <1>1, <1>2, <1>4, TailIs
<1> QED BY <1>5, <1>6 DEF p, q, r

LEMMA PopFive ==
  ASSUME NEW v, NEW w, NEW x, NEW y, NEW z
  PROVE  LET s == <<v, w, x, y, z>> IN SubSeq(s, 6, Len(s)) = <<>>
<1>1. Len(<<v, w, x, y, z>>) = 5
  OBVIOUS
<1> QED BY <1>1, SubSeqEmpty

(* Which word of the frame is which register.                              *)
LEMMA WordOf ==
  /\ (CHOOSE k \in 1 .. 8 : interrupt_frame[k] = "edi") = 1
  /\ (CHOOSE k \in 1 .. 8 : interrupt_frame[k] = "esi") = 2
  /\ (CHOOSE k \in 1 .. 8 : interrupt_frame[k] = "ebp") = 3
  /\ (CHOOSE k \in 1 .. 8 : interrupt_frame[k] = "ebx") = 5
  /\ (CHOOSE k \in 1 .. 8 : interrupt_frame[k] = "edx") = 6
  /\ (CHOOSE k \in 1 .. 8 : interrupt_frame[k] = "ecx") = 7
  /\ (CHOOSE k \in 1 .. 8 : interrupt_frame[k] = "eax") = 8
BY DEF interrupt_frame

LEMMA FieldOf ==
  /\ Field("edi") = stack[3] /\ Field("esi") = stack[4] /\ Field("ebp") = stack[5]
  /\ Field("ebx") = stack[7] /\ Field("edx") = stack[8] /\ Field("ecx") = stack[9]
  /\ Field("eax") = stack[10] /\ Field("ip") = stack[11] /\ Field("cs") = stack[12]
  /\ Field("flags") = stack[13] /\ Field("esp") = stack[14] /\ Field("ss") = stack[15]
BY DEF Field, interrupt_frame

(* task_return reads every register from the offset it was saved at.       *)
LEMMA LoadedFromOffset ==
  ASSUME NEW r \in Saved \ {"flags"}
  PROVE  (CHOOSE s \in Saved : Offset[s] = Loaded(r)) = r
<1>1. Offset[r] = Loaded(r)
  <2>1. /\ Loaded("edi") = 0 /\ Loaded("esi") = 1 /\ Loaded("ebp") = 2
        /\ Loaded("ebx") = 3 /\ Loaded("edx") = 4 /\ Loaded("ecx") = 5
        /\ Loaded("eax") = 6 /\ Loaded("ip") = 7 /\ Loaded("cs") = 8
        /\ Loaded("esp") = 10 /\ Loaded("ss") = 11
    BY DEF Loaded
  <2> QED BY <2>1 DEF Saved, General, Offset
<1>2. \A s \in Saved : Offset[s] = Offset[r] => s = r
  BY DEF Saved, General, Offset
<1> QED BY <1>1, <1>2

LEMMA TaskReturn ==
  ASSUME NEW saved
  PROVE  task_return(saved) = [r \in Saved |-> IF r = "flags" THEN KernelFlags ELSE saved[r]]
<1> DEFINE source(r) == CHOOSE s \in Saved : Offset[s] = Loaded(r)
<1>1. \A r \in Saved : r # "flags" => source(r) = r
  BY LoadedFromOffset
<1>2. task_return(saved) = [r \in Saved |-> IF r = "flags" THEN KernelFlags ELSE saved[source(r)]]
  BY DEF task_return
<1> HIDE DEF source
<1> QED BY <1>1, <1>2
-----------------------------------------------------------------------------
(* The first step leads to the program with the registers of task_init.    *)
LEMMA InitIInv == Init => IInv
BY DEF Init, IInv, StubInv, StackInv, RegsInv, ReturnsToCaller, IsRegisters, FirstRegisters

LEMMA RunIInv ==
  ASSUME IInv, task_run_as_task0
  PROVE  IInv'
<1>1. /\ pc = "boot" /\ pc' = "user" /\ current_task' = TRUE
      /\ regs' = task_return(FirstRegisters) /\ entry' = regs'
      /\ stack' = stack /\ stub' = stub /\ cause' = cause /\ own' = own
  BY DEF task_run_as_task0, IInv, RegsInv
<1>2. StubInv' /\ StackInv'
  BY <1>1 DEF IInv, StubInv, StackInv
<1>3. regs' = [r \in Saved |-> IF r = "flags" THEN KernelFlags ELSE FirstRegisters[r]]
  BY <1>1, TaskReturn
<1>4. IsRegisters(regs') /\ regs'["cs"] = UserCode /\ regs'["ip"] # UserCode
  BY <1>3 DEF IsRegisters, FirstRegisters, Computed, Saved, General, UserCode
<1>5. cause = "none"
  BY <1>1 DEF IInv, RegsInv
<1> QED BY <1>1, <1>2, <1>4, <1>5 DEF IInv, RegsInv, ReturnsToCaller

(* The program's instructions are its own, and so is its code segment.     *)
LEMMA UserRegisters ==
  ASSUME IInv, pc = "user"
  PROVE  IsRegisters(regs) /\ regs["cs"] = UserCode /\ regs["ip"] # UserCode
<1>1. IsRegisters(regs) /\ IsRegisters(entry) /\ entry["cs"] = UserCode /\ entry["ip"] # UserCode
  BY DEF IInv, RegsInv
<1>2. regs = IF cause = "int80" THEN [entry EXCEPT !["eax"] = Answer] ELSE entry
  BY DEF IInv, ReturnsToCaller
<1> QED BY <1>1, <1>2 DEF IsRegisters, Saved, General

(* An entry from ring 3 pushes what it finds in the registers r, and the   *)
(* words pushed before by an exception.                                    *)
LEMMA EnterIInv ==
  ASSUME IInv, NEW why, NEW through, NEW r, NEW error \in {<<>>, <<Garbage>>},
         Enter(why, through, r, error),
         IsRegisters(r), r["cs"] = UserCode, r["ip"] # UserCode,
         why = "int80" <=> through = "isr80h_wrapper",
         why # "exception" => error = <<>> /\ through # "idt_zero",
         current_task' = current_task
  PROVE  IInv'
<1>1. /\ pc = "user" /\ pc' \in {"pushad", "handler"}
      /\ pc' = "handler" <=> through = "idt_zero"
      /\ cause' = why /\ entry' = r /\ stub' = through
      /\ stack' = error \o Entered(r) \o stack
      /\ regs' = [r EXCEPT !["cs"] = KernelCode]
  BY DEF Enter
<1>2. stack = <<>> /\ current_task
  BY <1>1 DEF IInv, StubInv, StackInv
<1>3. \/ stack' = Entered(r)
      \/ why = "exception" /\ stack' = EnteredWithError'
  <2>1. CASE error = <<>>
    BY <1>1, <1>2, <2>1, PushOnEmpty DEF Entered
  <2>2. CASE error = <<Garbage>>
    <3>1. stack' = <<Garbage, r["ip"], r["cs"], r["flags"], r["esp"], r["ss"]>>
      BY <1>1, <1>2, <2>2, PushOnEmpty DEF Entered
    <3>2. why = "exception"
      BY <2>2
    <3> QED BY <1>1, <3>1, <3>2 DEF EnteredWithError
  <2> QED BY <2>1, <2>2
<1>4. StubInv'
  BY <1>1, <1>2 DEF StubInv, Wrapper
<1>5. StackInv'
  BY <1>1, <1>3 DEF StackInv, Wrapper
<1>6. RegsInv'
  BY <1>1 DEF RegsInv, IsRegisters, Wrapper
<1> QED BY <1>1, <1>4, <1>5, <1>6 DEF IInv, ReturnsToCaller

LEMMA Int80IInv ==
  ASSUME IInv, NEW command \in Commands, NEW k \in Runs, Int80(command, k)
  PROVE  IInv'
<1> DEFINE r == [Computed(k) EXCEPT !["eax"] = <<"eax", command>>]
<1>1. IsRegisters(r) /\ r["cs"] = UserCode /\ r["ip"] # UserCode
  BY DEF IsRegisters, Computed, Saved, General, UserCode
<1> HIDE DEF r
<1>2. Enter("int80", "isr80h_wrapper", r, <<>>) /\ current_task' = current_task
  BY DEF Int80, r
<1> QED BY <1>1, <1>2, EnterIInv

LEMMA DeviceIInv ==
  ASSUME IInv, NEW l \in Lines, Raise(l) \/ Irq(l)
  PROVE  IInv'
<1>1. CASE Raise(l)
  BY <1>1 DEF Raise, IInv, StubInv, StackInv, RegsInv, ReturnsToCaller, Wrapper, Answer,
    isr80h_handle_command, cpu, history, Frame, FrameWithError, EnteredWithError, Arguments
<1>2. CASE Irq(l)
  <2>1. PICK through \in {"int21h", "no_interrupt"} : Enter("irq", through, regs, <<>>)
    BY <1>2 DEF Irq
  <2>2. IsRegisters(regs) /\ regs["cs"] = UserCode /\ regs["ip"] # UserCode
    BY <2>1, UserRegisters DEF Enter
  <2> QED BY <1>2, <2>1, <2>2, EnterIInv DEF Irq
<1> QED BY <1>1, <1>2

LEMMA ExceptionIInv ==
  ASSUME IInv,
         DivideError \/ \E error \in {<<>>, <<Garbage>>} : Exception(error)
  PROVE  IInv'
<1>1. PICK through \in {"idt_zero", "no_interrupt"}, error \in {<<>>, <<Garbage>>} :
        Enter("exception", through, regs, error) /\ current_task' = current_task
  BY DEF DivideError, Exception
<1>2. IsRegisters(regs) /\ regs["cs"] = UserCode /\ regs["ip"] # UserCode
  BY <1>1, UserRegisters DEF Enter
<1> QED BY <1>1, <1>2, EnterIInv
-----------------------------------------------------------------------------
(* pushad completes the frame.                                             *)
LEMMA PushadIInv ==
  ASSUME IInv, Pushad
  PROVE  IInv'
<1> DEFINE pushed == [k \in 1 .. 8 |->
                        IF interrupt_frame[k] = "reserved" THEN Garbage
                        ELSE regs[interrupt_frame[k]]]
<1>1. /\ pc = "pushad" /\ pc' \in {"arguments", "handler"} /\ stack' = pushed \o stack
      /\ pc' = "arguments" <=> Wrapper
      /\ regs' = regs /\ stub' = stub /\ registers' = registers /\ current_task' = current_task
      /\ own' = own /\ cause' = cause /\ entry' = entry
  BY DEF Pushad, history, Wrapper
<1>2. IsRegisters(entry) /\ regs = [entry EXCEPT !["cs"] = KernelCode]
  BY <1>1 DEF IInv, RegsInv
<1>3. pushed = <<entry["edi"], entry["esi"], entry["ebp"], Garbage,
                 entry["ebx"], entry["edx"], entry["ecx"], entry["eax"]>>
  <2>1. pushed = <<regs["edi"], regs["esi"], regs["ebp"], Garbage,
                   regs["ebx"], regs["edx"], regs["ecx"], regs["eax"]>>
    BY DEF interrupt_frame
  <2>2. \A r \in General : regs[r] = entry[r]
    BY <1>2 DEF IsRegisters, Saved, General
  <2> QED BY <2>1, <2>2 DEF General
<1> HIDE DEF pushed
<1>4. stack' = Frame \/ (cause = "exception" /\ stack' = FrameWithError)
  <2>1. CASE stack = Entered(entry)
    BY <1>1, <1>3, <2>1, PushFrame
  <2>2. CASE cause = "exception" /\ stack = EnteredWithError
    BY <1>1, <1>3, <2>2, PushFrame
  <2> QED BY <1>1, <2>1, <2>2 DEF IInv, StackInv
<1>5. Frame' = Frame /\ FrameWithError' = FrameWithError
  BY <1>1 DEF Frame, FrameWithError
<1>6. StubInv'
  BY <1>1 DEF IInv, StubInv, Wrapper
<1>7. StackInv'
  BY <1>1, <1>4, <1>5 DEF IInv, StubInv, StackInv, Wrapper
<1>8. RegsInv'
  BY <1>1, <1>2 DEF IInv, RegsInv, Wrapper
<1> QED BY <1>1, <1>6, <1>7, <1>8 DEF IInv, ReturnsToCaller

LEMMA PushArgumentsIInv ==
  ASSUME IInv, PushArguments
  PROVE  IInv'
<1>1. /\ pc = "arguments" /\ pc' = "handler"
      /\ stack' = <<regs["eax"], <<"frame", 0>> >> \o stack
      /\ regs' = regs /\ stub' = stub /\ registers' = registers /\ current_task' = current_task
      /\ own' = own /\ cause' = cause /\ entry' = entry
  BY DEF PushArguments, history
<1>2. stack = Frame /\ Wrapper
  BY <1>1 DEF IInv, StubInv, StackInv
<1>3. regs["eax"] = entry["eax"]
  BY <1>1 DEF IInv, RegsInv, IsRegisters, Saved, General
<1>4. stack' = Arguments'
  <2>1. stack' = Arguments
    BY <1>1, <1>2, <1>3, PushAndPopArguments
  <2> QED BY <1>1, <2>1 DEF Arguments
<1>5. StubInv' /\ StackInv'
  BY <1>1, <1>2, <1>4 DEF IInv, StubInv, StackInv, Wrapper
<1>6. RegsInv'
  BY <1>1 DEF IInv, RegsInv, Wrapper
<1> QED BY <1>1, <1>5, <1>6 DEF IInv, ReturnsToCaller

(* The handler of INT 0x80 saves every field under its own name.           *)
LEMMA HandlerIInv ==
  ASSUME IInv, isr80h_handler
  PROVE  IInv'
<1>1. /\ pc = "handler" /\ Wrapper /\ stack' = stack /\ stub' = stub
      /\ current_task' = current_task /\ own' = own /\ cause' = cause /\ entry' = entry
      /\ current_task
  BY DEF isr80h_handler, history, Wrapper, IInv, StubInv
<1>2. /\ task_save_state /\ pc' = "result"
      /\ regs' = Called(isr80h_handle_command(stack[1][2]))
  BY <1>1 DEF isr80h_handler
<1>3. stack = Arguments /\ IsRegisters(entry) /\ IsRegisters(regs)
  BY <1>1 DEF IInv, StackInv, RegsInv
<1>4. \A r \in Saved : Field(r) = entry[r]
  BY <1>3, FieldOf DEF Arguments, Saved, General
<1>5. registers' = entry
  BY <1>2, <1>3, <1>4 DEF task_save_state, IsRegisters
<1>6. regs'["eax"] = Answer /\ IsRegisters(regs')
  <2>1. stack[1] = entry["eax"]
    BY <1>3 DEF Arguments
  <2>2. regs' = Called(Answer)
    BY <1>2, <2>1 DEF Answer
  <2> QED BY <1>3, <2>2 DEF Called, IsRegisters, Saved, General
<1>7. Answer' = Answer
  BY <1>1 DEF Answer, isr80h_handle_command
<1>8. StubInv'
  BY <1>1, <1>2 DEF IInv, StubInv, Wrapper
<1>9. StackInv'
  BY <1>1, <1>2, <1>3 DEF StackInv, Wrapper, Arguments
<1>10. RegsInv'
  BY <1>1, <1>2, <1>5, <1>6, <1>7 DEF IInv, RegsInv, Wrapper
<1> QED BY <1>2, <1>8, <1>9, <1>10 DEF IInv, ReturnsToCaller

(* The other handlers leave the stack to popad.                            *)
LEMMA IrqHandlerIInv ==
  ASSUME IInv, int21h_handler \/ no_interrupt_handler
  PROVE  IInv'
<1>1. /\ pc = "handler" /\ pc' = "popad" /\ stub \in {"int21h", "no_interrupt"}
      /\ regs' = Called(Garbage) /\ stack' = stack /\ stub' = stub
      /\ current_task' = current_task /\ own' = own /\ cause' = cause /\ entry' = entry
  BY DEF int21h_handler, no_interrupt_handler, history
<1>2. StubInv'
  BY <1>1 DEF IInv, StubInv, Wrapper
<1>3. StackInv'
  BY <1>1 DEF IInv, StackInv, Wrapper, Frame, FrameWithError
<1>4. IsRegisters(regs')
  BY <1>1 DEF Called, IInv, RegsInv, IsRegisters
<1>5. RegsInv'
  BY <1>1, <1>4 DEF IInv, RegsInv, StubInv, Wrapper, IsRegisters
<1> QED BY <1>1, <1>2, <1>3, <1>5 DEF IInv, ReturnsToCaller

LEMMA AstrayIInv ==
  ASSUME IInv, idt_zero
  PROVE  IInv'
BY DEF idt_zero, history, IInv, StubInv, StackInv, RegsInv, ReturnsToCaller, IsRegisters, Wrapper

(* The result goes by tmp_res while popad takes the program's registers    *)
(* back.                                                                   *)
LEMMA StoreResultIInv ==
  ASSUME IInv, StoreResult
  PROVE  IInv'
<1>1. /\ pc = "result" /\ pc' = "popad" /\ tmp_res' = regs["eax"]
      /\ stack' = SubSeq(stack, 3, Len(stack))
      /\ regs' = regs /\ stub' = stub /\ registers' = registers /\ current_task' = current_task
      /\ own' = own /\ cause' = cause /\ entry' = entry
  BY DEF StoreResult, history
<1>2. stack = Arguments /\ Wrapper
  BY <1>1 DEF IInv, StubInv, StackInv
<1>3. stack' = Frame'
  BY <1>1, <1>2, PushAndPopArguments DEF Frame
<1>4. tmp_res' = Answer'
  BY <1>1 DEF IInv, RegsInv, Answer, isr80h_handle_command
<1>5. StubInv' /\ StackInv'
  BY <1>1, <1>2, <1>3 DEF IInv, StubInv, StackInv, Wrapper
<1>6. RegsInv'
  BY <1>1, <1>2, <1>4 DEF IInv, RegsInv, Wrapper
<1> QED BY <1>1, <1>5, <1>6 DEF IInv, ReturnsToCaller

LEMMA PopadIInv ==
  ASSUME IInv, Popad
  PROVE  IInv'
<1>1. /\ pc = "popad" /\ pc' \in {"eax", "iret"}
      /\ pc' = "eax" <=> Wrapper
      /\ stack' = SubSeq(stack, 9, Len(stack))
      /\ tmp_res' = tmp_res /\ stub' = stub /\ registers' = registers /\ current_task' = current_task
      /\ own' = own /\ cause' = cause /\ entry' = entry
  BY DEF Popad, history, Wrapper
<1>2. regs' = [r \in Saved |->
                 IF r \in General THEN stack[CHOOSE k \in 1 .. 8 : interrupt_frame[k] = r]
                 ELSE regs[r]]
  BY DEF Popad
<1>3. stack = Frame \/ (cause = "exception" /\ stack = FrameWithError)
  BY <1>1 DEF IInv, StackInv
<1>4. \A r \in General : regs'[r] = entry[r]
  <2>1. ASSUME NEW r \in General
        PROVE  regs'[r] = stack[CHOOSE k \in 1 .. 8 : interrupt_frame[k] = r]
    BY <1>2 DEF Saved
  <2>2. /\ regs'["edi"] = stack[1] /\ regs'["esi"] = stack[2] /\ regs'["ebp"] = stack[3]
        /\ regs'["ebx"] = stack[5] /\ regs'["edx"] = stack[6] /\ regs'["ecx"] = stack[7]
        /\ regs'["eax"] = stack[8]
    BY <2>1, WordOf DEF General
  <2> QED BY <1>3, <2>2 DEF Frame, FrameWithError, General
<1>5. stack' = Entered(entry)' \/ (cause = "exception" /\ stack' = EnteredWithError')
  <2>1. stack' = Entered(entry) \/ (cause = "exception" /\ stack' = EnteredWithError)
    BY <1>1, <1>3, PopFrame
  <2> QED BY <1>1, <2>1 DEF Entered, EnteredWithError
<1>6. Wrapper <=> cause = "int80"
  BY <1>1 DEF IInv, StubInv
<1>7. StubInv' /\ StackInv'
  BY <1>1, <1>5, <1>6 DEF IInv, StubInv, StackInv, Wrapper
<1>8. Answer' = Answer
  BY <1>1 DEF Answer, isr80h_handle_command
<1>9. RegsInv'
  <2>1. IsRegisters(regs')
    BY <1>2 DEF IsRegisters
  <2> QED BY <1>1, <1>4, <1>8, <2>1 DEF IInv, RegsInv, Wrapper
<1> QED BY <1>1, <1>7, <1>9 DEF IInv, ReturnsToCaller

LEMMA LoadResultIInv ==
  ASSUME IInv, LoadResult
  PROVE  IInv'
<1>1. /\ pc = "eax" /\ pc' = "iret" /\ regs' = [regs EXCEPT !["eax"] = tmp_res]
      /\ stack' = stack /\ stub' = stub /\ registers' = registers /\ current_task' = current_task
      /\ own' = own /\ cause' = cause /\ entry' = entry
  BY DEF LoadResult, history
<1>2. stack' = Entered(entry)' /\ Wrapper
  BY <1>1 DEF IInv, StubInv, StackInv, Entered
<1>3. StubInv' /\ StackInv'
  BY <1>1, <1>2 DEF IInv, StubInv, StackInv, Wrapper
<1>4. Answer' = Answer
  BY <1>1 DEF Answer, isr80h_handle_command
<1>5. IsRegisters(regs') /\ \A r \in General : regs'[r] = IF r = "eax" THEN Answer ELSE entry[r]
  BY <1>1 DEF IInv, RegsInv, IsRegisters, Saved
<1>6. RegsInv'
  BY <1>1, <1>2, <1>4, <1>5 DEF IInv, RegsInv, Wrapper
<1> QED BY <1>1, <1>3, <1>6 DEF IInv, ReturnsToCaller

(* iret finds the program's code segment exactly when no error code lies   *)
(* on top.                                                                 *)
LEMMA IretIInv ==
  ASSUME IInv, Iret
  PROVE  IInv'
<1>1. /\ pc = "iret" /\ stub' = stub /\ registers' = registers /\ current_task' = current_task
      /\ own' = own /\ cause' = cause /\ entry' = entry /\ tmp_res' = tmp_res
  BY DEF Iret, history
<1>2. stack = Entered(entry) \/ stack = EnteredWithError
  BY <1>1 DEF IInv, StackInv
<1>3. entry["cs"] = UserCode /\ entry["ip"] # UserCode /\ IsRegisters(entry) /\ IsRegisters(regs)
  BY <1>1 DEF IInv, RegsInv
<1>4. CASE stack[2] = UserCode
  <2>1. stack = Entered(entry)
    BY <1>2, <1>3, <1>4 DEF Entered, EnteredWithError
  <2>2. /\ pc' = "user" /\ stack' = SubSeq(stack, 6, Len(stack))
        /\ regs' = [regs EXCEPT !["ip"] = stack[1], !["cs"] = stack[2],
                                !["flags"] = stack[3], !["esp"] = stack[4], !["ss"] = stack[5]]
    BY <1>4 DEF Iret
  <2>3. stack' = <<>>
    BY <2>1, <2>2, PopFive DEF Entered
  <2>4. Wrapper <=> cause = "int80"
    BY <1>1 DEF IInv, StubInv
  <2>5. IsRegisters(regs') /\ \A r \in Saved \ General : regs'[r] = entry[r]
    BY <1>3, <2>1, <2>2 DEF Entered, IsRegisters, Saved, General
  <2>6. \A r \in General : regs'[r] = IF Wrapper /\ r = "eax" THEN Answer ELSE entry[r]
    BY <1>1, <1>3, <2>2 DEF IInv, RegsInv, IsRegisters, Saved, General
  <2>7. Answer' = Answer
    BY <1>1 DEF Answer, isr80h_handle_command
  <2>8. ReturnsToCaller'
    <3>1. CASE cause = "int80"
      <4>1. \A r \in Saved : regs'[r] = [entry EXCEPT !["eax"] = Answer][r]
        BY <1>3, <2>4, <2>5, <2>6, <3>1 DEF IsRegisters, Saved
      <4> QED BY <1>1, <1>3, <2>5, <2>7, <3>1, <4>1 DEF ReturnsToCaller, IsRegisters
    <3>2. CASE cause # "int80"
      <4>1. \A r \in Saved : regs'[r] = entry[r]
        BY <2>4, <2>5, <2>6, <3>2 DEF Saved
      <4> QED BY <1>1, <1>3, <2>5, <3>2, <4>1 DEF ReturnsToCaller, IsRegisters
    <3> QED BY <3>1, <3>2
  <2>9. StubInv' /\ StackInv'
    BY <1>1, <2>2, <2>3 DEF IInv, StubInv, StackInv, Wrapper
  <2>10. RegsInv'
    BY <1>1, <1>3, <2>2, <2>5 DEF IInv, RegsInv, Wrapper
  <2> QED BY <2>8, <2>9, <2>10 DEF IInv
<1>5. CASE stack[2] # UserCode
  <2>1. pc' = "astray" /\ regs' = regs /\ stack' = stack
    BY <1>5 DEF Iret
  <2> QED BY <1>1, <2>1 DEF IInv, StubInv, StackInv, RegsInv, ReturnsToCaller, Wrapper
<1> QED BY <1>4, <1>5
-----------------------------------------------------------------------------
(* IInv is inductive: every step of the program, the devices and the       *)
(* kernel keeps it.                                                        *)
LEMMA NextIInv == ASSUME IInv, [Next]_vars PROVE IInv'
<1>1. CASE UNCHANGED vars
  <2>1. /\ regs' = regs /\ stack' = stack /\ pc' = pc /\ stub' = stub
        /\ current_task' = current_task /\ registers' = registers /\ own' = own
        /\ tmp_res' = tmp_res /\ cause' = cause /\ entry' = entry
    BY <1>1 DEF vars, cpu, history
  <2> QED BY <2>1 DEF IInv, StubInv, StackInv, RegsInv, ReturnsToCaller, Wrapper, Answer,
        isr80h_handle_command, Frame, FrameWithError, EnteredWithError, Arguments
<1>2. CASE Step
  BY <1>2, RunIInv, PushadIInv, PushArgumentsIInv, HandlerIInv, IrqHandlerIInv, AstrayIInv,
    StoreResultIInv, PopadIInv, LoadResultIInv, IretIInv DEF Step
<1> QED BY <1>1, <1>2, Int80IInv, DeviceIInv, ExceptionIInv DEF Next

(* Every instruction of the stubs finds on the stack and in the registers  *)
(* what the ones before it left there (idt.asm:40-110).                    *)
THEOREM EntryInvariance == Spec => []IInv
<1>1. Init => IInv
  BY InitIInv
<1>2. IInv /\ [Next]_vars => IInv'
  BY NextIInv
<1> QED BY <1>1, <1>2, PTL DEF Spec

(* Whatever interrupts it, and wherever, the program gets its registers    *)
(* back, with a system call's answer in eax (idt.asm).                     *)
THEOREM EntryReturnsToCaller == Spec => []ReturnsToCaller
<1>1. IInv => ReturnsToCaller
  BY DEF IInv
<1> QED BY <1>1, EntryInvariance, PTL

(* What a system call saves of the task is what the task had, and all of   *)
(* it but the flags is what task_return would run it with: struct          *)
(* interrupt_frame, struct registers and the offsets of task.asm agree     *)
(* (task.c:118-135, task.asm:14-60); the flags are the kernel's.           *)
THEOREM EntrySavedStateResumes == Spec => []SavedStateResumes
<1>1. IInv => SavedStateResumes
  <2> SUFFICES ASSUME IInv, pc = "result"
               PROVE  /\ registers = entry
                      /\ task_return(registers) = [entry EXCEPT !["flags"] = KernelFlags]
    BY DEF SavedStateResumes
  <2>1. registers = entry /\ IsRegisters(entry)
    BY DEF IInv, RegsInv
  <2>2. [entry EXCEPT !["flags"] = KernelFlags]
          = [r \in Saved |-> IF r = "flags" THEN KernelFlags ELSE entry[r]]
    BY <2>1 DEF IsRegisters, Saved
  <2> QED BY <2>1, <2>2, TaskReturn
<1> QED BY <1>1, EntryInvariance, PTL

(* What leads to the end of the kernel's business comes of exceptions.     *)
NeverLost == cause \in {"int80", "irq"} => pc \notin {"panic", "astray"}

(* The master has one line in service at most, and that one only up to the *)
(* handler, which both stubs that a device can lead to reach.              *)
MasterInv ==
  /\ isr \subseteq 0 .. 15 /\ slave \in 0 .. 7
  /\ \A l \in isr : l < 8 =>
       /\ pc \in {"pushad", "handler"} /\ stub \in {"int21h", "no_interrupt"}
       /\ \A m \in isr : m < 8 => m = l

(* Only exceptions lead out of the kernel's usual business.                *)
LEMMA NextNeverLost == ASSUME IInv, NeverLost, [Next]_vars PROVE NeverLost'
<1>1. CASE UNCHANGED vars
  BY <1>1 DEF vars, cpu, history, NeverLost
<1>2. ASSUME pc' = pc, UNCHANGED history PROVE NeverLost'
  BY <1>2 DEF history, NeverLost
<1>3. ASSUME pc' \notin {"panic", "astray"} PROVE NeverLost'
  BY <1>3 DEF NeverLost
<1>4. CASE Iret
  <2>1. CASE cause \in {"int80", "irq"}
    <3>1. stack = Entered(entry) /\ entry["cs"] = UserCode
      BY <1>4, <2>1 DEF Iret, IInv, StackInv, RegsInv
    <3>2. stack[2] = UserCode
      BY <3>1 DEF Entered
    <3>3. pc' = "user"
      BY <1>4, <3>2 DEF Iret
    <3> QED BY <1>3, <3>3
  <2>2. CASE cause \notin {"int80", "irq"}
    BY <1>4, <2>2 DEF Iret, history, NeverLost
  <2> QED BY <2>1, <2>2
<1>5. CASE isr80h_handler
  BY <1>3, <1>5 DEF isr80h_handler, IInv, StubInv
<1>6. CASE idt_zero
  BY <1>6 DEF idt_zero, history, NeverLost, IInv, StubInv
<1>7. CASE Step /\ ~ Iret /\ ~ isr80h_handler /\ ~ idt_zero
  BY <1>3, <1>7 DEF Step, task_run_as_task0, Pushad, PushArguments, int21h_handler, no_interrupt_handler,
    StoreResult, Popad, LoadResult
<1>8. ASSUME NEW l \in Lines, Raise(l) PROVE NeverLost'
  BY <1>2, <1>8 DEF Raise, cpu
<1>9. ASSUME NEW why, NEW through, NEW r, NEW error, Enter(why, through, r, error) PROVE NeverLost'
  BY <1>3, <1>9 DEF Enter
<1> QED BY <1>1, <1>4, <1>5, <1>6, <1>7, <1>8, <1>9
        DEF Next, Irq, Int80, Exception, DivideError

(* A system call or a device never ends the kernel: idt.asm pops and       *)
(* returns into the program, on the stack the CPU made, and no handler     *)
(* panics.                                                                 *)
THEOREM EntryNeverLost == Spec => []NeverLost
<1>1. Init => NeverLost
  BY DEF Init, NeverLost
<1>2. IInv /\ NeverLost /\ [Next]_vars => NeverLost'
  BY NextNeverLost
<1> QED BY <1>1, <1>2, EntryInvariance, PTL DEF Spec

(* An end of interrupt takes the one line that is in service out of it.    *)
LEMMA Acknowledged ==
  ASSUME MasterInv, EndOfInterrupt
  PROVE  isr' \subseteq 0 .. 15 /\ \A l \in isr' : l >= 8
<1>1. isr' = isr \ {l \in {k \in isr : k < 8} : \A s \in {k \in isr : k < 8} : l <= s}
  BY DEF EndOfInterrupt
<1>2. \A l \in isr : l < 8 => \A s \in {k \in isr : k < 8} : l <= s
  BY DEF MasterInv
<1>3. isr' \subseteq isr /\ \A l \in isr' : ~ (l < 8)
  BY <1>1, <1>2
<1> QED BY <1>3 DEF MasterInv

(* A line of the master goes into service only when none is in it.         *)
LEMMA NextMaster == ASSUME MasterInv, [Next]_vars PROVE MasterInv'
<1>1. ASSUME UNCHANGED <<isr, slave>>, \A l \in isr : l >= 8 PROVE MasterInv'
  BY <1>1 DEF MasterInv
<1>2. ASSUME pc \notin {"pushad", "handler"} \/ stub \notin {"int21h", "no_interrupt"}
      PROVE  \A l \in isr : l >= 8
  BY <1>2 DEF MasterInv
<1>3. ASSUME UNCHANGED <<pc, stub, isr, slave>> PROVE MasterInv'
  BY <1>3 DEF MasterInv
<1>4. CASE UNCHANGED vars
  BY <1>3, <1>4 DEF vars, cpu, pics
<1>5. CASE Pushad
  <2>1. UNCHANGED <<isr, slave, stub>> /\ pc = "pushad"
    BY <1>5 DEF Pushad, pics
  <2>2. pc' = IF stub = "isr80h_wrapper" THEN "arguments" ELSE "handler"
    BY <1>5 DEF Pushad
  <2> QED BY <2>1, <2>2 DEF MasterInv
<1>6. CASE int21h_handler \/ no_interrupt_handler
  <2>1. EndOfInterrupt /\ slave' = slave
    BY <1>6 DEF int21h_handler, no_interrupt_handler
  <2>2. isr' \subseteq 0 .. 15 /\ \A l \in isr' : l >= 8
    BY <2>1, Acknowledged
  <2> QED BY <2>1, <2>2 DEF MasterInv
<1>7. CASE Step /\ ~ Pushad /\ ~ (int21h_handler \/ no_interrupt_handler)
  <2>1. UNCHANGED <<isr, slave>>
    BY <1>7 DEF Step, task_run_as_task0, PushArguments, isr80h_handler, idt_zero,
      StoreResult, Popad, LoadResult, Iret, pics
  <2>2. pc \notin {"pushad", "handler"} \/ stub \notin {"int21h", "no_interrupt"}
    BY <1>7 DEF Step, task_run_as_task0, PushArguments, isr80h_handler, idt_zero,
      StoreResult, Popad, LoadResult, Iret
  <2> QED BY <1>1, <1>2, <2>1, <2>2
<1>8. ASSUME NEW l \in Lines, Raise(l) PROVE MasterInv'
  BY <1>3, <1>8 DEF Raise, cpu
<1>9. ASSUME NEW l \in Lines, Irq(l) PROVE MasterInv'
  <2>1. /\ isr' = isr \cup {l, OnMaster(l)} /\ slave' = slave
        /\ pc = "user" /\ stub' = IF l = 1 THEN "int21h" ELSE "no_interrupt"
        /\ pc' = IF stub' = "idt_zero" THEN "handler" ELSE "pushad"
    BY <1>9 DEF Irq, Enter
  <2>2. l \in 0 .. 15 /\ slave \in 0 .. 7 /\ isr \subseteq 0 .. 15
    BY LinesAssumption DEF MasterInv
  <2>3. OnMaster(l) \in 0 .. 15 /\ (l < 8 => OnMaster(l) = l)
    BY <2>2 DEF OnMaster
  <2>4. \A k \in isr : k >= 8
    BY <1>2, <2>1
  <2>5. \A k \in isr' : k < 8 => k = OnMaster(l)
    BY <2>1, <2>2, <2>3, <2>4
  <2> QED BY <2>1, <2>2, <2>3, <2>5 DEF MasterInv
<1>10. ASSUME NEW why, NEW through, NEW r, NEW error, Enter(why, through, r, error), UNCHANGED pics
       PROVE  MasterInv'
  <2>1. pc = "user" /\ UNCHANGED <<isr, slave>>
    BY <1>10 DEF Enter, pics
  <2> QED BY <1>1, <1>2, <2>1
<1> QED BY <1>4, <1>5, <1>6, <1>7, <1>8, <1>9, <1>10 DEF Next, Int80, Exception, DivideError

(* When the program runs again, the master holds none of its lines back,   *)
(* whatever came in which order and on whatever line the slave is: every   *)
(* stub a device leads to acknowledges what it was entered for             *)
(* (idt.c:22-31).                                                          *)
THEOREM EntryMasterAcknowledged == Spec => []MasterAcknowledged
<1>1. Init => MasterInv
  BY LinesAssumption DEF Init, MasterInv
<1>2. MasterInv /\ [Next]_vars => MasterInv'
  BY NextMaster
<1>3. MasterInv => MasterAcknowledged
  BY DEF MasterInv, MasterAcknowledged
<1> QED BY <1>1, <1>2, <1>3, PTL DEF Spec
=============================================================================
