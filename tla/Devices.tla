------------------------------ MODULE Devices ------------------------------
(***************************************************************************)
(* The command line and the device loader: main walks over its arguments,  *)
(* device_load_device maps every device named after -device into iomem and *)
(* runs its initialiser. One action is one argument.                       *)
(*                                                                         *)
(* A device is a shared library; the loader knows it by the symbols it     *)
(* exports and by the list of addresses its device_offset returns.         *)
(***************************************************************************)
EXTENDS Integers, SequencesExt

CONSTANTS
  MEMORY_MAPPED_IO_REGION_SIZE,
  Libraries,  \* paths of device libraries
  Library,    \* what is behind a path: the record described below
  Argvs       \* command lines, without the program's own name

Slots    == 0 .. MEMORY_MAPPED_IO_REGION_SIZE - 1
Unmapped == "unmapped"
Option   == "-device"

Symbols == {"device_offset", "device_read", "device_write", "device_init"}
Offsets == 1 .. 65535

(* access: access() grants reading; opens: dlopen succeeds; offsets: what  *)
(* device_offset returns, up to the terminating zero. No library has the   *)
(* name of the option.                                                     *)
ASSUME DevicesAssumption ==
  /\ MEMORY_MAPPED_IO_REGION_SIZE \in Nat \ {0}
  /\ Unmapped \notin Libraries /\ Option \notin Libraries
  /\ Argvs \subseteq Seq(STRING)
  /\ Library \in [Libraries -> [access : BOOLEAN, opens : BOOLEAN,
                                exports : SUBSET Symbols, offsets : Seq(Offsets)]]

VARIABLES
  iomem,       \* the device whose functions a slot holds, or Unmapped
  initialised, \* devices whose device_init has run, in that order
  argv, i,     \* command line and the argument main looks at
  main         \* args, binload, or failed: exit status 1

varsD == <<iomem, initialised, argv, i, main>>

-----------------------------------------------------------------------------
exports(d, symbol) == symbol \in Library[d].exports

(* Faulty variant of Complete: one function is enough.                     *)
CompleteInPart(d) == exports(d, "device_read") \/ exports(d, "device_write")

Complete(d) == exports(d, "device_read") /\ exports(d, "device_write")

(* Faulty variant of Outside: "greater" for "greater or equal".            *)
OutsideByOne(d) ==
  {k \in DOMAIN Library[d].offsets : Library[d].offsets[k] > MEMORY_MAPPED_IO_REGION_SIZE}

(* The offsets that are mapped: up to the first one outside the region, at *)
(* which device_load_device returns.                                       *)
Outside(d) == {k \in DOMAIN Library[d].offsets : Library[d].offsets[k] \notin Slots}
Mapped(d)  == {Library[d].offsets[k] :
                 k \in {n \in DOMAIN Library[d].offsets : \A m \in Outside(d) : n < m}}

(* The whole device list fits, so that the loader gets to device_init.     *)
Fits(d) == Outside(d) = {}

(* Faulty variant of Map: a slot is only mapped once.                      *)
MapUnmapped(d) == [a \in Slots |-> IF a \in Mapped(d) /\ iomem[a] = Unmapped THEN d ELSE iomem[a]]

Map(d) == [a \in Slots |-> IF a \in Mapped(d) THEN d ELSE iomem[a]]

(* device_load_device(d). A library that does not open is skipped without  *)
(* a word; one that lacks a function ends the program.                     *)
device_load_device(d) ==
  \/ /\ ~Library[d].opens
     /\ i' = i + 2
     /\ UNCHANGED <<iomem, initialised, argv, main>>
  \/ /\ Library[d].opens /\ exports(d, "device_offset")
     /\ ~Complete(d)
     /\ main' = "failed"
     /\ UNCHANGED <<iomem, initialised, argv, i>>
  \/ /\ Library[d].opens
     /\ exports(d, "device_offset") => Complete(d)
     /\ iomem' = IF exports(d, "device_offset") THEN Map(d) ELSE iomem
     /\ initialised' = IF /\ exports(d, "device_offset") => Fits(d)
                          /\ exports(d, "device_init")
                       THEN Append(initialised, d) ELSE initialised
     /\ i' = i + 2
     /\ UNCHANGED <<argv, main>>

-----------------------------------------------------------------------------
IsOption == i <= Len(argv) /\ argv[i] = Option

Usage == /\ main = "args" /\ argv = <<>>
         /\ main' = "failed"
         /\ UNCHANGED <<iomem, initialised, argv, i>>

OtherArgument == /\ main = "args" /\ argv # <<>>
                 /\ i <= Len(argv) /\ ~IsOption
                 /\ i' = i + 1
                 /\ UNCHANGED <<iomem, initialised, argv, main>>

MissingPath == /\ main = "args" /\ IsOption
               /\ i = Len(argv)
               /\ main' = "failed"
               /\ UNCHANGED <<iomem, initialised, argv, i>>

(* Only the path behind the option is looked at, so a binary given there   *)
(* counts as a library that does not open.                                 *)
Device == /\ main = "args" /\ IsOption
          /\ i < Len(argv)
          /\ LET d == argv[i + 1]
             IN  \/ d \in Libraries /\ Library[d].access /\ device_load_device(d)
                 \/ /\ d \in Libraries => ~Library[d].access
                    /\ main' = "failed"
                    /\ UNCHANGED <<iomem, initialised, argv, i>>

(* The last argument is the binary, whatever it has been used for before.  *)
Execute == /\ main = "args" /\ argv # <<>>
           /\ i > Len(argv)
           /\ main' = "binload"
           /\ UNCHANGED <<iomem, initialised, argv, i>>

Init == /\ iomem = [a \in Slots |-> Unmapped]
        /\ initialised = <<>>
        /\ argv \in Argvs
        /\ i = 1
        /\ main = "args"

Next == Usage \/ OtherArgument \/ MissingPath \/ Device \/ Execute

Spec == Init /\ [][Next]_varsD

-----------------------------------------------------------------------------
(* What a command line asks for, read without walking over it.             *)
Options    == {p \in DOMAIN argv : argv[p] = Option}
Given(p)   == argv[p + 1]
Usable(d)  == "device_offset" \in Library[d].exports
                => {"device_read", "device_write"} \subseteq Library[d].exports
InWindow(d) == \A k \in DOMAIN Library[d].offsets : Library[d].offsets[k] \in Slots

(* A device claims the addresses of its list up to one outside the window. *)
Claims(d, a) ==
  /\ "device_offset" \in Library[d].exports
  /\ \E k \in DOMAIN Library[d].offsets :
        /\ Library[d].offsets[k] = a
        /\ \A m \in 1 .. k : Library[d].offsets[m] \in Slots

(* Every option is followed by a library that can be read and, should it   *)
(* open, is complete.                                                      *)
WellFormed ==
  /\ argv # <<>>
  /\ \A p \in Options : /\ p < Len(argv)
                        /\ Given(p) \in Libraries
                        /\ Library[Given(p)].access
                        /\ Library[Given(p)].opens => Usable(Given(p))

(* The options whose library opens, and the ones among them that map a.    *)
Loaded     == {p \in Options : Library[Given(p)].opens}
Mapping(a) == {p \in Loaded : Claims(Given(p), a)}

(* main gets to the binary exactly for the command lines that are well     *)
(* formed, and leaves with status 1 for all others.                        *)
Verdict == /\ main = "binload" => WellFormed
           /\ main = "failed" => ~WellFormed

(* When the binary is loaded every slot belongs to the last device on the  *)
(* command line that claims it, and to nobody if none does; whatever the   *)
(* order in which devices overlap.                                         *)
LastClaimWins ==
  main = "binload" =>
    \A a \in Slots :
      iomem[a] = IF Mapping(a) = {} THEN Unmapped
                 ELSE Given(CHOOSE p \in Mapping(a) : \A q \in Mapping(a) : q <= p)

(* The options whose device gets to its initialiser.                       *)
Due == {p \in Loaded : /\ "device_init" \in Library[Given(p)].exports
                       /\ "device_offset" \in Library[Given(p)].exports => InWindow(Given(p))}

(* f lists the numbers of a set, each once, from the least to the largest. *)
InOrder(f, S) == /\ {f[k] : k \in DOMAIN f} = S
                 /\ \A k, m \in DOMAIN f : k < m => f[k] < f[m]

(* A device that fits the I/O window is initialised as often as it is      *)
(* loaded, in the order of the command line, before the binary runs.       *)
InitialisedInOrder ==
  main = "binload" =>
    \E f \in [DOMAIN initialised -> Due] :
      InOrder(f, Due) /\ \A k \in DOMAIN initialised : initialised[k] = Given(f[k])

(* A device whose functions a slot holds has been initialised if it has an *)
(* initialiser, as the comment in front of the call says.                  *)
MappedIsInitialised ==
  main = "binload" =>
    \A a \in Slots :
      iomem[a] # Unmapped /\ exports(iomem[a], "device_init")
        => \E k \in DOMAIN initialised : initialised[k] = iomem[a]
=============================================================================
