------------------------------ MODULE Program ------------------------------
(***************************************************************************)
(* What a debugger promises about the program it debugs: wherever its      *)
(* threads are stopped and whatever is written over their instructions,    *)
(* every thread goes through the program exactly as it would alone.        *)
(***************************************************************************)
EXTENDS Integers

VARIABLES follows,     \* the program: the instruction after an instruction
          at           \* the instruction each thread executes next

ProgramInit == \A t \in DOMAIN at : at[t] = 0

Proceed(t) == at' = [at EXCEPT ![t] = follows[@]]

ProgramNext == UNCHANGED follows /\ \E t \in DOMAIN at : Proceed(t)
ProgramSpec == ProgramInit /\ [][ProgramNext]_<<follows, at>>
=============================================================================
