----------------------------- MODULE CallStack -----------------------------
(***************************************************************************)
(* What the call instructions of Sean816 promise a program, with no        *)
(* memory, stack pointer or base pointer in sight: an activation owns its  *)
(* registers and a private stack of pushed bytes; a call suspends it, the  *)
(* return resumes it right behind the call with its registers and its      *)
(* stack as they were, and hands over the callee's registers in ra .. rh.  *)
(*                                                                         *)
(* kept is TRUE as long as the program has kept to the rules the promise   *)
(* depends on. Once it has broken one, nothing is promised any more.       *)
(***************************************************************************)
EXTENDS Integers, Sequences

VARIABLES
  regs,    \* the program's registers, 0x00 .. 0x1A
  stack,   \* bytes the current activation has pushed
  callers, \* the suspended activations, the latest last
  at,      \* program counter
  kept

Byte    == 0 .. 255
General == 0 .. 7
Return  == 8 .. 15
Saved   == General \cup {24, 25}

Front(s) == SubSeq(s, 1, Len(s) - 1)
Last(s)  == s[Len(s)]

Init == /\ stack = <<>>
        /\ callers = <<>>
        /\ kept = TRUE

(* What a call suspends; it resumes behind the opcode and its two operands. *)
Activation == [saved  |-> [i \in Saved |-> regs[i]],
               stack  |-> stack,
               resume |-> (at + 3) % 65536]

(* CALL and its conditional forms.                                         *)
Enter ==
  /\ callers' = Append(callers, Activation)
  /\ stack' = <<>>
  /\ regs' = regs

(* RET: what the callee left on its stack is gone.                         *)
Leave ==
  /\ callers # <<>>
  /\ LET c == Last(callers)
     IN  /\ regs' = [i \in DOMAIN regs |->
                       IF i \in Saved THEN c.saved[i]
                       ELSE IF i \in Return THEN regs[i - 8]
                       ELSE regs[i]]
         /\ stack' = c.stack
         /\ at' = c.resume
  /\ callers' = Front(callers)

Push == /\ \E v \in Byte : stack' = Append(stack, v)
        /\ UNCHANGED <<regs, callers>>

(* POP into a register, or into a byte that is not a register.             *)
Pop == /\ stack # <<>>
       /\ stack' = Front(stack)
       /\ \/ regs' = regs
          \/ \E d \in DOMAIN regs : regs' = [regs EXCEPT ![d] = Last(stack)]
       /\ UNCHANGED callers

(* Every other instruction: no suspended activation can tell it happened.  *)
Work == UNCHANGED <<stack, callers>>

Break == kept' = FALSE

Next == \/ kept /\ kept' /\ (Enter \/ Leave \/ Push \/ Pop \/ Work)
        \/ Break

Spec == Init /\ [][Next]_<<regs, stack, callers, at, kept>>
=============================================================================
