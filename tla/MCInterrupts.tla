---------------------------- MODULE MCInterrupts ----------------------------
(***************************************************************************)
(* Timer, keyboard and a line of the slave (the disk), which is on line 2  *)
(* as the board has it or on line 0 as ICW3 tells the master; both         *)
(* commands, one on either side of them; two runs of the program between   *)
(* system calls.                                                           *)
(***************************************************************************)
EXTENDS Interrupts

MCLines == {0, 1, 14}
MCSlaveLines == {0, 2}
MCCommands == {-1, 0, 1, 2}
MCRuns == {1, 2}
=============================================================================
