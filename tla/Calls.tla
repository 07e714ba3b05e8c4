------------------------------- MODULE Calls -------------------------------
(***************************************************************************)
(* The calling convention of the core, observed on arbitrary programs.     *)
(* Calls runs Cpu unchanged and adds two history variables: frames lists   *)
(* the live stack frames as they were when cpu_call pushed them, and kept  *)
(* says whether the program has so far respected the rules a Sean816       *)
(* program has to respect, because nothing in the core enforces them:      *)
(*   - a CALL or PUSH needs room above Floor, the end of the loaded image; *)
(*   - a POP only takes what the same activation has pushed;               *)
(*   - a RET needs a CALL to return from;                                  *)
(*   - nothing else writes to the stack, to the byte behind mem, or to sp. *)
(***************************************************************************)
EXTENDS Cpu

CONSTANT Floor

ASSUME FloorAssumption == Floor \in MEMORY_MAPPED_IO_REGION_SIZE .. MEMORY_SIZE

VARIABLES frames, kept

Saved == General \cup {ML, MH}

Base(k) == IF k = 0 THEN MEMORY_SIZE ELSE frames[k].base
Top     == Base(Len(frames))

-----------------------------------------------------------------------------
(* The rules *)

StackBytes == sp .. MEMORY_SIZE

Harmless(t) == IF t.in = "reg" THEN t.at \notin {SP0, SP1} ELSE t.at \notin StackBytes

(* The instructions that assign to their first operand, apart from POP.    *)
Assigning == {OP_LOAD, OP_LOADLH, OP_MOV, OP_NOT}
               \cup OP_ADD .. OP_DEC \cup OP_AND .. OP_XOR

IsCall == instruction \in Calls /\ Holds(instruction)
IsRet  == instruction = OP_RET

Keeps ==
  /\ IsCall                     => Floor + FRAME <= sp
  /\ instruction = OP_PUSH      => Floor < sp
  /\ instruction = OP_POP       => sp < Top /\ Harmless(targ(1))
  /\ IsRet                      => frames # <<>>
  /\ instruction \in {OP_STORE, OP_STORELH} => BusAddresses \cap StackBytes = {}
  /\ instruction \in Assigning  => Harmless(targ(1))

-----------------------------------------------------------------------------
varsC == <<vars, frames, kept>>

InitC == Init /\ frames = <<>> /\ kept = TRUE

Entered == [base   |-> Below(FRAME),
            bp     |-> bp,
            resume |-> After(2),
            saved  |-> [i \in Saved |-> reg[i]]]

NextC ==
  /\ Next
  /\ kept' = (kept /\ (Decodes => Keeps))
  /\ frames' = IF ~kept' THEN <<>>
               ELSE IF ~Decodes THEN frames
               ELSE IF IsCall THEN Append(frames, Entered)
               ELSE IF IsRet THEN Front(frames)
               ELSE frames

SpecC == InitC /\ [][NextC]_varsC

-----------------------------------------------------------------------------
(* While the rules are kept the stack pointer stays between the image and  *)
(* the newest frame, the frames lie one above the other without overlap,   *)
(* and bp is the base of the newest one: the chain of saved base pointers  *)
(* that cpu_ret follows is the chain of calls that were made.              *)
FramesOrdered ==
  kept => /\ Floor <= sp /\ sp <= Top
          /\ \A k \in 1 .. Len(frames) :
                /\ frames[k].base + FRAME <= Base(k - 1)
                /\ k > 1 => frames[k].bp = frames[k - 1].base
          /\ frames # <<>> => bp = Top

(* While the rules are kept every live frame is in memory byte for byte as *)
(* cpu_call pushed it, however many calls, pushes, pops and stores have    *)
(* happened since.                                                         *)
FramesIntact ==
  kept => \A k \in 1 .. Len(frames) :
            LET f == frames[k]
            IN  /\ \A r \in General : mem[f.base + 7 - r] = f.saved[r]
                /\ mem[f.base + 8] = f.saved[ML]
                /\ mem[f.base + 9] = f.saved[MH]
                /\ W16(mem[f.base + 10], mem[f.base + 11]) = f.resume
                /\ W16(mem[f.base + 12], mem[f.base + 13]) = f.bp

(* A program that keeps the rules is never killed by a device slot that    *)
(* only looks mapped: the one instruction that can kill it is a DIV by 0.  *)
OnlyDivisionKills ==
  kept /\ status = "crash" => instruction = OP_DIV /\ arg(2) = 0

-----------------------------------------------------------------------------
(* The bytes pushed between two addresses, in the order they were pushed.  *)
Segment(from, to) == [j \in 1 .. from - to |-> mem[from - j]]

Convention == INSTANCE CallStack WITH
  regs    <- [i \in 0 .. CMP |-> reg[i]],
  stack   <- IF kept THEN Segment(Top, sp) ELSE <<>>,
  callers <- IF kept
             THEN [k \in 1 .. Len(frames) |->
                     [saved  |-> frames[k].saved,
                      stack  |-> Segment(Base(k - 1), frames[k].base + FRAME),
                      resume |-> frames[k].resume]]
             ELSE <<>>,
  at      <- pc

(* The core implements the calling convention: memory, sp and bp together  *)
(* behave like a stack of suspended activations.                           *)
ImplementsConvention == Convention!Spec
=============================================================================
