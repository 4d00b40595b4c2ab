----------------------------- MODULE Interrupts -----------------------------
(***************************************************************************)
(* Entering and leaving the kernel: the INT 0x80 wrapper, the stubs of the *)
(* other vectors (src/idt/idt.asm), their handlers (src/idt/idt.c), the    *)
(* dispatch of commands (src/isr80h) and the saving and restoring of a     *)
(* task's registers (src/task/task.c, task.asm), one instruction or call   *)
(* per step.                                                               *)
(*                                                                         *)
(* Every gate is an interrupt gate, so the kernel is not interrupted; the  *)
(* devices raise their lines at any time.  A register holds <<name, k>>,   *)
(* where k stands for what the program computed, so that a value that ends *)
(* up in the wrong register shows.  The kernel stack is a sequence, its    *)
(* top first; it is empty when the CPU enters from ring 3.                 *)
(*                                                                         *)
(* The PICs are taken as those of the emulator the Makefile starts, which  *)
(* deliver the base and the line whatever else they were told.  kernel.asm *)
(* starts the master's initialisation (ICW1 = 0x11 announces ICW3, ICW4)   *)
(* and sends one word after the base: 0x01, meant as the mode, which is    *)
(* ICW3 and puts the slave on line 0; ICW4 never comes.  So nothing here   *)
(* depends on the line the slave is on; a PIC that does not deliver before *)
(* its ICW4, or ends interrupts by itself, is not modelled.                *)
(***************************************************************************)
EXTENDS Integers, Sequences

CONSTANTS
  Lines,      \* interrupt lines in use: 0..7 on the master, 8..15 on the slave
  SlaveLines, \* lines of the master the slave may be on
  Commands,   \* values of eax at INT 0x80
  Runs        \* the k's

(* The two PICs have eight lines each.                                     *)
ASSUME LinesAssumption == Lines \subseteq 0 .. 15 /\ SlaveLines \subseteq 0 .. 7

VARIABLES
  regs,       \* the CPU's registers
  stack,      \* the kernel stack
  pc,         \* the next instruction of the stub, "user", "boot", "panic" or "astray"
  stub,       \* the stub that runs
  current_task,   \* whether there is one
  registers,  \* its saved registers
  own,        \* whether the word at the top of the user stack points into the process
  tmp_res,
  irr, isr,   \* requested and in-service lines of the PICs
  slave,      \* the line of the master the slave is on
  cause,      \* history: what the kernel was entered for last
  entry       \* history: the registers at that moment

cpu == <<regs, stack, pc, stub>>
pics == <<irr, isr, slave>>
history == <<cause, entry>>
vars == <<cpu, current_task, registers, own, tmp_res, pics, history>>

(* The words that pushad and, before it, the CPU leave, lowest address     *)
(* first: struct interrupt_frame.  "reserved" is the kernel's own esp.     *)
interrupt_frame ==
  <<"edi", "esi", "ebp", "reserved", "ebx", "edx", "ecx", "eax",
    "ip", "cs", "flags", "esp", "ss">>

General == {"edi", "esi", "ebp", "ebx", "edx", "ecx", "eax"}
Saved == General \cup {"ip", "cs", "flags", "esp", "ss"}

UserCode == <<"cs", 3>>
KernelCode == <<"cs", 0>>
KernelFlags == <<"kernel", 512>>   \* pushf in the kernel, interrupts turned on
Computed(k) ==
  [r \in Saved |-> CASE r = "cs" -> UserCode
                     [] r = "ss" -> <<"ss", 3>>
                     [] OTHER -> <<r, k>>]
Garbage == <<"garbage", 0>>

(* task_init: all zero but for these.                                      *)
FirstRegisters ==
  [r \in Saved |-> IF r \in {"ip", "cs", "esp", "ss"} THEN Computed(0)[r] ELSE <<"zero", 0>>]

Init ==
  /\ regs = [r \in Saved |-> Garbage] /\ stack = <<>>
  /\ pc = "boot" /\ stub = "none"
  /\ current_task = FALSE /\ registers = FirstRegisters
  /\ own = TRUE /\ tmp_res = <<"result", 0>>
  /\ irr = {} /\ isr = {} /\ slave \in SlaveLines
  /\ cause = "none" /\ entry = FirstRegisters
-----------------------------------------------------------------------------
(* Offsets of struct registers, in words.                                  *)
Offset ==
  [edi |-> 0, esi |-> 1, ebp |-> 2, ebx |-> 3, edx |-> 4, ecx |-> 5, eax |-> 6,
   ip |-> 7, cs |-> 8, flags |-> 9, esp |-> 10, ss |-> 11]

(* Takes ecx and edx for each other.                                       *)
Mut_Loaded(r) ==
  CASE r = "edi" -> 0 [] r = "esi" -> 1 [] r = "ebp" -> 2 [] r = "ebx" -> 3
    [] r = "ecx" -> 4 [] r = "edx" -> 5 [] r = "eax" -> 6
    [] r = "ip" -> 7 [] r = "cs" -> 8 [] r = "esp" -> 10 [] r = "ss" -> 11

(* The offsets that task_return and restore_general_purpose_registers read.*)
Loaded(r) ==
  CASE r = "edi" -> 0 [] r = "esi" -> 1 [] r = "ebp" -> 2 [] r = "ebx" -> 3
    [] r = "edx" -> 4 [] r = "ecx" -> 5 [] r = "eax" -> 6
    [] r = "ip" -> 7 [] r = "cs" -> 8 [] r = "esp" -> 10 [] r = "ss" -> 11

(* task_return: every register from the offset it reads, but the flags:    *)
(* those are the kernel's own, whatever has been saved.                    *)
task_return(saved) ==
  [r \in Saved |->
     IF r = "flags" THEN KernelFlags
     ELSE saved[CHOOSE s \in Saved : Offset[s] = Loaded(r)]]

(* Runs the task without making it the current one.                        *)
Mut_task_run_as_task0 ==
  /\ pc = "boot"
  /\ regs' = task_return(registers)
  /\ pc' = "user" /\ entry' = regs'
  /\ UNCHANGED <<stack, stub, current_task, registers, own, tmp_res, pics, cause>>

task_run_as_task0 ==
  /\ pc = "boot"
  /\ current_task' = TRUE
  /\ regs' = task_return(registers)
  /\ pc' = "user" /\ entry' = regs'
  /\ UNCHANGED <<stack, stub, registers, own, tmp_res, pics, cause>>
-----------------------------------------------------------------------------
(* What the CPU pushes when it enters a gate from ring 3.                  *)
Entered(r) == <<r["ip"], r["cs"], r["flags"], r["esp"], r["ss"]>>

Enter(why, through, r, error) ==
  /\ pc = "user"
  /\ cause' = why /\ entry' = r
  /\ stack' = error \o Entered(r) \o stack
  /\ regs' = [r EXCEPT !["cs"] = KernelCode]
  /\ stub' = through
  /\ pc' = IF through = "idt_zero" THEN "handler" ELSE "pushad"

(* A device raises its line.                                               *)
Raise(l) ==
  /\ pc \notin {"boot", "astray", "panic"}
  /\ irr' = irr \cup {l}
  /\ UNCHANGED <<cpu, current_task, registers, own, tmp_res, isr, slave, history>>

(* The program has computed something and makes a system call.             *)
Int80(command, k) ==
  /\ Enter("int80", "isr80h_wrapper", [Computed(k) EXCEPT !["eax"] = <<"eax", command>>], <<>>)
  /\ own' \in BOOLEAN
  /\ UNCHANGED <<current_task, registers, tmp_res, pics>>

(* The slave asks through its line of the master; the lowest line goes     *)
(* first, and none is passed on while it or a lower one of the same PIC is *)
(* in service.                                                             *)
OnMaster(l) == IF l < 8 THEN l ELSE slave
Deliverable(l) ==
  /\ \A s \in isr : OnMaster(s) = s => s > OnMaster(l)
  /\ l >= 8 => \A s \in isr : s >= 8 => s > l
First(l) == Deliverable(l) /\ \A d \in irr : Deliverable(d) =>
              \/ OnMaster(l) < OnMaster(d)
              \/ OnMaster(l) = OnMaster(d) /\ l <= d

(* Vector 0x21 is line 1; the others have no handler of their own.  The    *)
(* slave keeps the vectors the BIOS gave it.                               *)
Irq(l) ==
  /\ l \in irr /\ First(l)
  /\ Enter("irq", IF l = 1 THEN "int21h" ELSE "no_interrupt", regs, <<>>)
  /\ irr' = irr \ {l}
  /\ isr' = isr \cup {l, OnMaster(l)}
  /\ UNCHANGED <<current_task, registers, own, tmp_res, slave>>

(* An exception, which has no handler either; some push an error code.     *)
Exception(error) ==
  /\ Enter("exception", "no_interrupt", regs, error)
  /\ UNCHANGED <<current_task, registers, own, tmp_res, pics>>

DivideError ==
  /\ Enter("exception", "idt_zero", regs, <<>>)
  /\ UNCHANGED <<current_task, registers, own, tmp_res, pics>>
-----------------------------------------------------------------------------
Pushad ==
  /\ pc = "pushad"
  /\ stack' = [k \in 1 .. 8 |->
                 IF interrupt_frame[k] = "reserved" THEN Garbage
                 ELSE regs[interrupt_frame[k]]] \o stack
  /\ pc' = IF stub = "isr80h_wrapper" THEN "arguments" ELSE "handler"
  /\ UNCHANGED <<regs, stub, current_task, registers, own, tmp_res, pics, history>>

(* push esp, push eax: the frame and the command.                          *)
PushArguments ==
  /\ pc = "arguments"
  /\ stack' = <<regs["eax"], <<"frame", 0>> >> \o stack
  /\ pc' = "handler"
  /\ UNCHANGED <<regs, stub, current_task, registers, own, tmp_res, pics, history>>

(* A C function leaves its result, or anything, in eax, and need not keep  *)
(* ecx and edx.                                                            *)
Called(result) == [regs EXCEPT !["eax"] = result, !["ecx"] = Garbage, !["edx"] = Garbage]

(* Field f of the frame that lies behind the two arguments.                *)
Field(f) == stack[2 + (CHOOSE k \in 1 .. 13 : interrupt_frame[k] = f)]

task_save_state == registers' = [r \in Saved |-> Field(r)]

(* isr80h_handle_command with its two commands, sum and print.             *)
isr80h_handle_command(command) ==
  CASE command = 0 -> <<"result", 10>>
    [] command = 1 -> IF own THEN <<"result", 0>> ELSE <<"result", -1>>
    [] OTHER -> <<"result", 0>>

isr80h_handler ==
  /\ pc = "handler" /\ stub = "isr80h_wrapper"
  /\ IF current_task
     THEN /\ task_save_state
          /\ regs' = Called(isr80h_handle_command(stack[1][2]))
          /\ pc' = "result"
     ELSE pc' = "panic" /\ UNCHANGED <<regs, registers>>
  /\ UNCHANGED <<stack, stub, current_task, own, tmp_res, pics, history>>

(* outb(0x20, 0x20): the master's first line in service is done.           *)
EndOfInterrupt ==
  LET master == {l \in isr : l < 8}
  IN  isr' = isr \ {l \in master : \A s \in master : l <= s}

int21h_handler ==
  /\ pc = "handler" /\ stub = "int21h"
  /\ EndOfInterrupt
  /\ regs' = Called(Garbage) /\ pc' = "popad"
  /\ UNCHANGED <<stack, stub, current_task, registers, own, tmp_res, irr, slave, history>>

(* Acknowledges only interrupts that have a handler.                       *)
Mut_no_interrupt_handler ==
  /\ pc = "handler" /\ stub = "no_interrupt"
  /\ regs' = Called(Garbage) /\ pc' = "popad"
  /\ UNCHANGED <<stack, stub, current_task, registers, own, tmp_res, pics, history>>

no_interrupt_handler ==
  /\ pc = "handler" /\ stub = "no_interrupt"
  /\ EndOfInterrupt
  /\ regs' = Called(Garbage) /\ pc' = "popad"
  /\ UNCHANGED <<stack, stub, current_task, registers, own, tmp_res, irr, slave, history>>

(* A C function in the place of a stub: it ends with ret, not iret, and so *)
(* goes on in ring 0 at the program's instruction.                         *)
idt_zero ==
  /\ pc = "handler" /\ stub = "idt_zero"
  /\ pc' = "astray"
  /\ UNCHANGED <<regs, stack, stub, current_task, registers, own, tmp_res, pics, history>>

(* mov [tmp_res], eax; add esp, 8.                                         *)
StoreResult ==
  /\ pc = "result"
  /\ tmp_res' = regs["eax"]
  /\ stack' = SubSeq(stack, 3, Len(stack))
  /\ pc' = "popad"
  /\ UNCHANGED <<regs, stub, current_task, registers, own, pics, history>>

Popad ==
  /\ pc = "popad"
  /\ regs' = [r \in Saved |->
                IF r \in General THEN stack[CHOOSE k \in 1 .. 8 : interrupt_frame[k] = r]
                ELSE regs[r]]
  /\ stack' = SubSeq(stack, 9, Len(stack))
  /\ pc' = IF stub = "isr80h_wrapper" THEN "eax" ELSE "iret"
  /\ UNCHANGED <<stub, current_task, registers, own, tmp_res, pics, history>>

(* Leaves eax as it was.                                                   *)
Mut_LoadResult ==
  /\ pc = "eax"
  /\ pc' = "iret"
  /\ UNCHANGED <<regs, stack, stub, current_task, registers, own, tmp_res, pics, history>>

LoadResult ==
  /\ pc = "eax"
  /\ regs' = [regs EXCEPT !["eax"] = tmp_res]
  /\ pc' = "iret"
  /\ UNCHANGED <<stack, stub, current_task, registers, own, tmp_res, pics, history>>

(* iret takes the words as it finds them; it only gets to ring 3 with the  *)
(* program's code segment.                                                 *)
Iret ==
  /\ pc = "iret"
  /\ IF stack[2] = UserCode
     THEN /\ regs' = [regs EXCEPT !["ip"] = stack[1], !["cs"] = stack[2],
                                  !["flags"] = stack[3], !["esp"] = stack[4], !["ss"] = stack[5]]
          /\ stack' = SubSeq(stack, 6, Len(stack))
          /\ pc' = "user"
     ELSE pc' = "astray" /\ UNCHANGED <<regs, stack>>
  /\ UNCHANGED <<stub, current_task, registers, own, tmp_res, pics, history>>
-----------------------------------------------------------------------------
Step ==
  \/ task_run_as_task0
  \/ Pushad \/ PushArguments
  \/ isr80h_handler \/ int21h_handler \/ no_interrupt_handler \/ idt_zero
  \/ StoreResult \/ Popad \/ LoadResult \/ Iret

Next ==
  \/ Step
  \/ \E l \in Lines : Raise(l) \/ Irq(l)
  \/ \E command \in Commands, k \in Runs : Int80(command, k)
  \/ \E error \in {<<>>, <<Garbage>>} : Exception(error)
  \/ DivideError

(* The CPU goes on.                                                        *)
Spec == Init /\ [][Next]_vars /\ WF_vars(Step)
-----------------------------------------------------------------------------
(* What a system call answers.                                             *)
Answer == isr80h_handle_command(entry["eax"][2])

(* A program goes on with the registers it had, wherever and whenever it   *)
(* was interrupted: after a system call only eax differs, and holds that   *)
(* call's answer.  Exceptions with an error code never return to it.       *)
ReturnsToCaller ==
  pc = "user" =>
    regs = IF cause = "int80" THEN [entry EXCEPT !["eax"] = Answer] ELSE entry

(* What a system call saves of a task is what the task had, each register  *)
(* in its own field, and task_return would run the task again from that    *)
(* call with all of it but the flags: it never reads those it finds saved. *)
SavedStateResumes ==
  pc = "result" =>
    /\ registers = entry
    /\ task_return(registers) = [entry EXCEPT !["flags"] = KernelFlags]

(* Every system call and every interrupt returns to the program.           *)
EntriesReturn ==
  cause \in {"int80", "irq"} /\ pc # "user" ~> pc = "user"

(* Whatever the kernel was entered for, when the program runs again the    *)
(* master holds none of its lines back for an interrupt that was never     *)
(* acknowledged.  (The slave's are never acknowledged at the slave.)       *)
MasterAcknowledged == pc = "user" => isr \cap (0 .. 7) = {}
=============================================================================
