--------------------------- MODULE DevicesProofs ---------------------------
(***************************************************************************)
(* What main and device_load_device make of a command line, for every set  *)
(* of libraries, every command line and every size of the I/O window.      *)
(*                                                                         *)
(* The properties read the command line without walking over it; the       *)
(* invariant says the same of the options in front of the argument main    *)
(* has come to, and that none of these still waits for its path.           *)
(***************************************************************************)
EXTENDS Devices, SequenceTheorems, TLAPS

Acceptable(p) == /\ p < Len(argv)
                 /\ Given(p) \in Libraries
                 /\ Library[Given(p)].access
                 /\ Library[Given(p)].opens => Usable(Given(p))

Seen(S) == {p \in S : p < i}

(* A zero ends a device's list, so that no device is ever at address 0.    *)
DevicesType ==
  /\ iomem \in [Slots -> Libraries \cup {Unmapped}] /\ iomem[0] = Unmapped
  /\ initialised \in Seq(Libraries)
  /\ argv \in Seq(STRING) /\ i \in 1 .. Len(argv) + 1
  /\ main \in {"args", "binload", "failed"}

(* A slot belongs to the last of the options seen that claim it.           *)
Owned(a) ==
  IF Seen(Mapping(a)) = {} THEN iomem[a] = Unmapped
  ELSE \E p \in Seen(Mapping(a)) : /\ \A q \in Seen(Mapping(a)) : q <= p
                                   /\ iomem[a] = Given(p)

Listed == \E f \in [DOMAIN initialised -> Seen(Due)] :
            InOrder(f, Seen(Due)) /\ \A k \in DOMAIN initialised : initialised[k] = Given(f[k])

Walked == /\ \A p \in Seen(Options) : p + 1 < i /\ Acceptable(p)
          /\ \A a \in Slots : Owned(a)
          /\ Listed

DevicesInv ==
  /\ DevicesType
  /\ main = "failed" => ~WellFormed
  /\ main # "failed" => Walked
  /\ main = "binload" => argv # <<>> /\ i = Len(argv) + 1

-----------------------------------------------------------------------------
(* The two ways to read a device's list                                    *)

LEMMA LibraryType ==
  ASSUME NEW d \in Libraries
  PROVE  /\ Library[d].offsets \in Seq(Offsets)
         /\ Library[d].opens \in BOOLEAN /\ Library[d].access \in BOOLEAN
         /\ DOMAIN Library[d].offsets = 1 .. Len(Library[d].offsets)
         /\ Len(Library[d].offsets) \in Nat
<1>1. Library[d] \in [access : BOOLEAN, opens : BOOLEAN,
                      exports : SUBSET Symbols, offsets : Seq(Offsets)]
  BY DevicesAssumption DEF DevicesAssumption
<1>2. Library[d].opens \in BOOLEAN /\ Library[d].access \in BOOLEAN
  BY <1>1, Zenon
<1>3. Library[d].offsets \in Seq(Offsets)
  BY <1>1
<1> QED
  BY <1>2, <1>3, LenProperties

(* The loop over the list maps what the list claims.                       *)
LEMMA MappedClaims ==
  ASSUME NEW d \in Libraries, NEW a \in Slots, exports(d, "device_offset")
  PROVE  a \in Mapped(d) <=> Claims(d, a)
<1> DEFINE list == Library[d].offsets
<1>1. DOMAIN list = 1 .. Len(list) /\ Len(list) \in Nat
  BY LibraryType
<1>2. ASSUME NEW k \in DOMAIN list
      PROVE  (\A m \in Outside(d) : k < m) <=> (\A m \in 1 .. k : list[m] \in Slots)
  BY <1>1, <1>2 DEF Outside
<1>3. a \in Mapped(d) <=> \E k \in DOMAIN list : (\A m \in Outside(d) : k < m) /\ list[k] = a
  BY DEF Mapped
<1>4. Claims(d, a) <=> \E k \in DOMAIN list : list[k] = a /\ \A m \in 1 .. k : list[m] \in Slots
  BY DEF Claims, exports
<1> HIDE DEF list
<1> QED
  BY <1>2, <1>3, <1>4, Zenon

LEMMA FitsWindow ==
  ASSUME NEW d \in Libraries
  PROVE  Fits(d) <=> InWindow(d)
BY DEF Fits, InWindow, Outside

LEMMA CompleteUsable ==
  ASSUME NEW d \in Libraries
  PROVE  Usable(d) <=> (exports(d, "device_offset") => Complete(d))
BY DEF Usable, Complete, exports
-----------------------------------------------------------------------------
(* One lemma for each step                                                 *)

LEMMA InitDevices == Init => DevicesInv
<1> SUFFICES ASSUME Init PROVE DevicesInv
  OBVIOUS
<1>1. argv \in Seq(STRING) /\ Len(argv) \in Nat
  BY DevicesAssumption DEF Init, DevicesAssumption
<1>2. Seen(Options) = {} /\ Seen(Due) = {} /\ \A a : Seen(Mapping(a)) = {}
  BY <1>1 DEF Init, Seen, Options, Due, Mapping, Loaded
<1>3. DevicesType
  BY <1>1, DevicesAssumption DEF Init, DevicesType, DevicesAssumption, Slots
<1>4. \A a \in Slots : Owned(a)
  BY <1>2 DEF Owned, Init
<1>5. Listed
  <2>1. DOMAIN initialised = {} /\ initialised = <<>>
    BY DEF Init
  <2>2. <<>> \in [DOMAIN initialised -> Seen(Due)] /\ InOrder(<<>>, {})
    BY <1>2, <2>1 DEF InOrder
  <2> QED
    BY <1>2, <2>1, <2>2 DEF Listed
<1> QED
  BY <1>2, <1>3, <1>4, <1>5 DEF DevicesInv, Walked, Init

LEMMA UsageInv == ASSUME DevicesInv, Usage PROVE DevicesInv'
<1>1. argv' = <<>>
  BY DEF Usage
<1> QED
  BY <1>1 DEF Usage, DevicesInv, DevicesType, WellFormed

LEMMA MissingPathInv == ASSUME DevicesInv, MissingPath PROVE DevicesInv'
<1>1. i \in Options' /\ ~(i < Len(argv'))
  BY DEF MissingPath, IsOption, Options, DevicesInv, DevicesType
<1>2. ~WellFormed'
  BY <1>1 DEF WellFormed
<1> QED
  BY <1>2 DEF MissingPath, DevicesInv, DevicesType

(* What a command line asks for does not change while main walks over it.  *)
LEMMA SameLine ==
  ASSUME argv' = argv
  PROVE  /\ Options' = Options /\ Loaded' = Loaded /\ Due' = Due
         /\ \A a : Mapping(a)' = Mapping(a)
         /\ \A p : Given(p)' = Given(p) /\ Acceptable(p)' = Acceptable(p)
         /\ WellFormed' = WellFormed
<1>1. Options' = Options /\ \A p : Given(p)' = Given(p)
  BY DEF Options, Given
<1>2. Loaded' = Loaded
  BY <1>1 DEF Loaded
<1>3. Due' = Due
  BY <1>1, <1>2 DEF Due, InWindow
<1>4. \A a : Mapping(a)' = Mapping(a)
  BY <1>1, <1>2 DEF Mapping, Claims
<1>5. \A p : Acceptable(p)' = Acceptable(p)
  BY <1>1 DEF Acceptable, Usable
<1>6. WellFormed' = WellFormed
  BY <1>1 DEF WellFormed, Usable
<1> QED
  BY <1>1, <1>2, <1>3, <1>4, <1>5, <1>6

(* The parts of what main has done so far survive a step that sees no new  *)
(* option and touches neither slots nor initialisers.                      *)
LEMMA SameSeen ==
  ASSUME DevicesInv, Walked, argv' = argv, UNCHANGED <<iomem, initialised>>,
         \A S \in SUBSET Options : {p \in S : p < i'} = {p \in S : p < i},
         i' \in Nat, i <= i'
  PROVE  Walked'
<1>1. /\ Options' = Options /\ Due' = Due
      /\ \A a : Mapping(a)' = Mapping(a)
      /\ \A p : Given(p)' = Given(p) /\ Acceptable(p)' = Acceptable(p)
  BY SameLine
<1>2. Options \in SUBSET Options /\ Due \in SUBSET Options /\ \A a : Mapping(a) \in SUBSET Options
  BY DEF Due, Mapping, Loaded
<1>3. /\ Seen(Options)' = Seen(Options) /\ Seen(Due)' = Seen(Due)
      /\ \A a : Seen(Mapping(a))' = Seen(Mapping(a))
  BY <1>1, <1>2 DEF Seen
<1>4. \A p \in Seen(Options) : p + 1 < i' /\ Acceptable(p)'
  <2>1. i \in Nat
    BY DEF DevicesInv, DevicesType
  <2>2. \A p \in Seen(Options) : p \in Int /\ p + 1 < i /\ Acceptable(p)
    BY DEF Walked, Seen, Options, DevicesInv, DevicesType
  <2> QED
    BY <1>1, <2>1, <2>2
<1>5. \A a \in Slots : Owned(a)'
  BY <1>1, <1>3 DEF Walked, Owned
<1>6. Listed'
  BY <1>1, <1>3 DEF Walked, Listed, InOrder
<1> QED
  BY <1>3, <1>4, <1>5, <1>6 DEF Walked

LEMMA ExecuteInv == ASSUME DevicesInv, Execute PROVE DevicesInv'
<1>1. Walked /\ i \in Nat /\ Len(argv) \in Nat
  BY DEF Execute, DevicesInv, DevicesType
<1>2. UNCHANGED <<iomem, initialised, argv, i>>
  BY DEF Execute
<1>3. Walked'
  BY <1>1, <1>2, SameSeen
<1> QED
  BY <1>1, <1>3 DEF Execute, DevicesInv, DevicesType

LEMMA OtherArgumentInv == ASSUME DevicesInv, OtherArgument PROVE DevicesInv'
<1>1. Walked /\ i \in Nat /\ Len(argv) \in Nat /\ i \in DOMAIN argv
  BY DEF OtherArgument, DevicesInv, DevicesType
<1>2. UNCHANGED <<iomem, initialised, argv>> /\ i' = i + 1 /\ i \notin Options
  BY <1>1 DEF OtherArgument, IsOption, Options
<1>3. \A S \in SUBSET Options : {p \in S : p < i'} = {p \in S : p < i}
  <2>1. \A p \in Options : p \in Int /\ p # i
    BY <1>2 DEF Options, DevicesInv, DevicesType
  <2> QED
    BY <1>1, <1>2, <2>1
<1>4. Walked'
  BY <1>1, <1>2, <1>3, SameSeen
<1> QED
  BY <1>1, <1>4 DEF OtherArgument, DevicesInv, DevicesType
-----------------------------------------------------------------------------
(* The option main has come to                                             *)

(* What main finds before it looks at the path.                            *)
AtOption == DevicesInv /\ main = "args" /\ IsOption /\ i < Len(argv)

LEMMA AtOptionFacts ==
  ASSUME AtOption
  PROVE  /\ DevicesType /\ Walked /\ argv # <<>>
         /\ i \in Options /\ i \in Nat /\ Len(argv) \in Nat /\ i + 2 <= Len(argv) + 1
BY DEF AtOption, DevicesInv, DevicesType, IsOption, Options

LEMMA RefusedInv ==
  ASSUME AtOption, ~Acceptable(i), main' = "failed", UNCHANGED <<iomem, initialised, argv, i>>
  PROVE  DevicesInv'
<1>1. ~WellFormed
  BY AtOptionFacts DEF WellFormed, Acceptable
<1>2. ~WellFormed'
  BY <1>1, SameLine
<1> QED
  BY <1>2, AtOptionFacts DEF DevicesInv, DevicesType

(* The path is no option itself: one option more has been seen.            *)
LEMMA OneMoreSeen ==
  ASSUME AtOption, Given(i) \in Libraries, argv' = argv, i' = i + 2
  PROVE  \A S \in SUBSET Options : {p \in S : p < i'} = Seen(S) \cup (S \cap {i})
<1>1. i + 1 \notin Options
  BY DevicesAssumption DEF DevicesAssumption, Options, Given
<1>2. \A p \in Options : p \in Int /\ p # i + 1
  BY <1>1, AtOptionFacts DEF Options, DevicesType
<1> QED
  BY <1>2, AtOptionFacts DEF Seen

LEMMA OptionsSeen ==
  ASSUME AtOption, Acceptable(i), argv' = argv, i' = i + 2
  PROVE  \A p \in Seen(Options)' : p + 1 < i' /\ Acceptable(p)'
<1>1. Seen(Options)' = Seen(Options) \cup {i}
  BY OneMoreSeen, SameLine, AtOptionFacts DEF Seen, Acceptable
<1>2. \A p \in Seen(Options) : p \in Int /\ p + 1 < i /\ Acceptable(p)
  BY AtOptionFacts DEF Walked, Seen, Options, DevicesType
<1> QED
  BY <1>1, <1>2, SameLine, AtOptionFacts

LEMMA SlotOwned ==
  ASSUME AtOption, Given(i) \in Libraries, argv' = argv, i' = i + 2, NEW a \in Slots,
         iomem'[a] = IF i \in Mapping(a) THEN Given(i) ELSE iomem[a]
  PROVE  Owned(a)'
<1>1. Mapping(a)' = Mapping(a) /\ Mapping(a) \in SUBSET Options /\ \A p : Given(p)' = Given(p)
  BY SameLine DEF Mapping, Loaded
<1>2. Seen(Mapping(a))' = Seen(Mapping(a)) \cup (Mapping(a) \cap {i})
  BY <1>1, OneMoreSeen DEF Seen
<1>3. CASE i \in Mapping(a)
  <2>1. i \in Seen(Mapping(a))' /\ iomem'[a] = Given(i)
    BY <1>1, <1>2, <1>3
  <2>2. \A q \in Seen(Mapping(a))' : q <= i
    BY <1>1, <1>2, AtOptionFacts DEF Seen, Options, DevicesType
  <2> QED
    BY <1>1, <2>1, <2>2 DEF Owned
<1>4. CASE i \notin Mapping(a)
  <2>1. Seen(Mapping(a))' = Seen(Mapping(a)) /\ iomem'[a] = iomem[a] /\ Owned(a)
    BY <1>2, <1>4, AtOptionFacts DEF Walked
  <2> QED
    BY <1>1, <2>1 DEF Owned
<1> QED
  BY <1>3, <1>4

LEMMA DueListed ==
  ASSUME AtOption, Given(i) \in Libraries, argv' = argv, i' = i + 2,
         initialised' = IF i \in Due THEN Append(initialised, Given(i)) ELSE initialised
  PROVE  Listed'
<1>1. Due' = Due /\ Due \in SUBSET Options /\ \A p : Given(p)' = Given(p)
  BY SameLine DEF Due, Loaded
<1>2. Seen(Due)' = Seen(Due) \cup (Due \cap {i})
  BY <1>1, OneMoreSeen DEF Seen
<1>3. PICK f \in [DOMAIN initialised -> Seen(Due)] :
         InOrder(f, Seen(Due)) /\ \A k \in DOMAIN initialised : initialised[k] = Given(f[k])
  BY AtOptionFacts DEF Walked, Listed
<1>4. CASE i \notin Due
  <2>1. Seen(Due)' = Seen(Due) /\ initialised' = initialised
    BY <1>2, <1>4
  <2> QED
    BY <1>1, <1>3, <2>1 DEF Listed, InOrder
<1>5. CASE i \in Due
  <2> DEFINE n == Len(initialised)
             g == [k \in 1 .. n + 1 |-> IF k <= n THEN f[k] ELSE i]
  <2>1. /\ n \in Nat /\ DOMAIN initialised = 1 .. n
        /\ DOMAIN initialised' = 1 .. n + 1
        /\ initialised'[n + 1] = Given(i)
        /\ \A k \in 1 .. n : initialised'[k] = initialised[k]
    BY <1>5, AtOptionFacts, LenProperties, AppendProperties DEF DevicesType
  <2> HIDE DEF n
  <2>2. Seen(Due)' = Seen(Due) \cup {i} /\ i \notin Seen(Due)
    BY <1>2, <1>5, AtOptionFacts DEF Seen
  <2>3. g \in [1 .. n + 1 -> Seen(Due)']
    BY <1>3, <2>1, <2>2
  <2>4. /\ g[n + 1] = i /\ \A k \in 1 .. n : g[k] = f[k] /\ f[k] \in Seen(Due)
        /\ DOMAIN g = 1 .. n + 1 /\ DOMAIN f = 1 .. n
    BY <1>3, <2>1
  <2> HIDE DEF g
  <2>5. {g[k] : k \in DOMAIN g} = Seen(Due)'
    <3>1. {f[k] : k \in 1 .. n} = Seen(Due)
      BY <1>3, <2>4 DEF InOrder
    <3>2. 1 .. n + 1 = (1 .. n) \cup {n + 1}
      BY <2>1
    <3>3. {g[k] : k \in 1 .. n + 1} = {f[k] : k \in 1 .. n} \cup {i}
      BY <2>4, <3>2
    <3> QED
      BY <2>2, <2>4, <3>1, <3>3
  <2>6. \A k, m \in DOMAIN g : k < m => g[k] < g[m]
    <3> SUFFICES ASSUME NEW k \in 1 .. n + 1, NEW m \in 1 .. n + 1, k < m PROVE g[k] < g[m]
      BY <2>4
    <3>1. k \in 1 .. n /\ g[k] = f[k] /\ f[k] \in Seen(Due)
      BY <2>1, <2>4
    <3>2. CASE m = n + 1
      BY <2>4, <3>1, <3>2 DEF Seen
    <3>3. CASE m # n + 1
      <4>1. m \in 1 .. n
        BY <2>1, <3>3
      <4> QED
        BY <1>3, <2>4, <3>1, <4>1 DEF InOrder
    <3> QED
      BY <3>2, <3>3
  <2>7. InOrder(g, Seen(Due)')
    BY <2>5, <2>6 DEF InOrder
  <2>8. \A k \in 1 .. n + 1 : initialised'[k] = Given(g[k])
    <3>1. \A k \in 1 .. n + 1 : k = n + 1 \/ k \in 1 .. n
      BY <2>1
    <3> QED
      BY <1>3, <2>1, <2>4, <3>1
  <2> QED
    BY <1>1, <2>1, <2>3, <2>7, <2>8 DEF Listed, InOrder
<1> QED
  BY <1>4, <1>5

LEMMA WalkedInv ==
  ASSUME AtOption, Acceptable(i), DevicesType', main' = main, argv' = argv, i' = i + 2,
         \A a \in Slots : iomem'[a] = IF i \in Mapping(a) THEN Given(i) ELSE iomem[a],
         initialised' = IF i \in Due THEN Append(initialised, Given(i)) ELSE initialised
  PROVE  DevicesInv'
<1>1. Given(i) \in Libraries
  BY DEF Acceptable
<1>2. Walked'
  BY <1>1, OptionsSeen, SlotOwned, DueListed DEF Walked
<1> QED
  BY <1>2 DEF AtOption, DevicesInv

(* A library that opens, maps what it claims and has an initialiser run.   *)
LEMMA LoadedInv ==
  ASSUME AtOption, Given(i) \in Libraries, Library[Given(i)].access, Library[Given(i)].opens,
         exports(Given(i), "device_offset") => Complete(Given(i)),
         iomem' = IF exports(Given(i), "device_offset") THEN Map(Given(i)) ELSE iomem,
         initialised' = IF /\ exports(Given(i), "device_offset") => Fits(Given(i))
                           /\ exports(Given(i), "device_init")
                        THEN Append(initialised, Given(i)) ELSE initialised,
         i' = i + 2, UNCHANGED <<argv, main>>
  PROVE  DevicesInv'
<1> DEFINE d == Given(i)
<1>1. Acceptable(i)
  BY AtOptionFacts, CompleteUsable DEF Acceptable
<1>2. i \in Loaded
  BY AtOptionFacts DEF Loaded
<1>3. i \in Due <=> /\ exports(d, "device_offset") => Fits(d)
                    /\ exports(d, "device_init")
  BY <1>2, FitsWindow DEF Due, exports
<1>4. ASSUME NEW a \in Slots
      PROVE  iomem'[a] = IF i \in Mapping(a) THEN d ELSE iomem[a]
  <2>1. i \in Mapping(a) <=> Claims(d, a)
    BY <1>2 DEF Mapping
  <2>2. CASE exports(d, "device_offset")
    BY <2>1, <2>2, MappedClaims DEF Map
  <2>3. CASE ~exports(d, "device_offset")
    BY <2>1, <2>3 DEF Claims, exports
  <2> QED
    BY <2>2, <2>3
<1>5. DevicesType'
  <2>1. iomem' \in [Slots -> Libraries \cup {Unmapped}] /\ iomem'[0] = Unmapped
    <3>1. 0 \in Slots
      BY DevicesAssumption DEF DevicesAssumption, Slots
    <3>2. 0 \notin Mapped(d)
      <4>1. \A k \in DOMAIN Library[d].offsets : Library[d].offsets[k] \in Offsets
        BY LibraryType
      <4>2. 0 \notin Offsets
        BY DEF Offsets
      <4> QED
        BY <4>1, <4>2 DEF Mapped
    <3> QED
      BY <3>1, <3>2, AtOptionFacts DEF DevicesType, Map
  <2>2. initialised' \in Seq(Libraries)
    BY AtOptionFacts, AppendProperties DEF DevicesType
  <2> QED
    BY <2>1, <2>2, AtOptionFacts DEF DevicesType
<1> QED
  BY <1>1, <1>3, <1>4, <1>5, WalkedInv

LEMMA SkippedInv ==
  ASSUME AtOption, Given(i) \in Libraries, Library[Given(i)].access, ~Library[Given(i)].opens,
         i' = i + 2, UNCHANGED <<iomem, initialised, argv, main>>
  PROVE  DevicesInv'
<1>1. Acceptable(i)
  BY AtOptionFacts DEF Acceptable
<1>2. i \notin Due /\ \A a : i \notin Mapping(a)
  BY DEF Due, Mapping, Loaded
<1>3. DevicesType'
  BY AtOptionFacts DEF DevicesType
<1> QED
  BY <1>1, <1>2, <1>3, WalkedInv

LEMMA DeviceInv == ASSUME DevicesInv, Device PROVE DevicesInv'
<1>1. AtOption
  BY DEF Device, AtOption
<1>2. CASE /\ Given(i) \in Libraries => ~Library[Given(i)].access
           /\ main' = "failed"
           /\ UNCHANGED <<iomem, initialised, argv, i>>
  BY <1>1, <1>2, RefusedInv DEF Acceptable
<1>3. CASE /\ Given(i) \in Libraries /\ Library[Given(i)].access
           /\ device_load_device(Given(i))
  <2>1. CASE ~Library[Given(i)].opens
    BY <1>1, <1>3, <2>1, SkippedInv DEF device_load_device
  <2>2. CASE Library[Given(i)].opens /\ exports(Given(i), "device_offset") /\ ~Complete(Given(i))
    <3>1. ~Acceptable(i)
      BY <1>3, <2>2, CompleteUsable DEF Acceptable
    <3> QED
      BY <1>1, <1>3, <2>2, <3>1, RefusedInv DEF device_load_device
  <2>3. CASE Library[Given(i)].opens /\ (exports(Given(i), "device_offset") => Complete(Given(i)))
    BY <1>1, <1>3, <2>3, LoadedInv DEF device_load_device
  <2> QED
    BY <2>1, <2>2, <2>3
<1> QED
  BY <1>2, <1>3 DEF Device, Given

LEMMA NextDevices == DevicesInv /\ [Next]_varsD => DevicesInv'
<1> SUFFICES ASSUME DevicesInv, [Next]_varsD PROVE DevicesInv'
  OBVIOUS
<1>1. CASE UNCHANGED varsD
  <2>1. Walked => Walked'
    BY <1>1, SameSeen DEF varsD, DevicesInv, DevicesType
  <2> QED
    BY <1>1, <2>1, SameLine DEF varsD, DevicesInv, DevicesType
<1> QED
  BY <1>1, UsageInv, OtherArgumentInv, MissingPathInv, DeviceInv, ExecuteInv DEF Next

LEMMA AlwaysDevices == Spec => []DevicesInv
BY InitDevices, NextDevices, PTL DEF Spec

-----------------------------------------------------------------------------
(* When main has walked over the whole line, everything has been seen.     *)
LEMMA AllSeen ==
  ASSUME DevicesInv, main = "binload"
  PROVE  /\ DevicesType /\ Walked /\ argv # <<>>
         /\ Seen(Options) = Options /\ Seen(Due) = Due /\ \A a : Seen(Mapping(a)) = Mapping(a)
<1>1. \A p \in Options : p < i /\ p \in Int
  BY DEF DevicesInv, DevicesType, Options
<1>2. Due \in SUBSET Options /\ \A a : Mapping(a) \in SUBSET Options
  BY DEF Due, Mapping, Loaded
<1>3. \A S \in SUBSET Options : Seen(S) = S
  BY <1>1 DEF Seen
<1> QED
  BY <1>2, <1>3 DEF DevicesInv

LEMMA VerdictOfWalk == DevicesInv => Verdict
<1> SUFFICES ASSUME DevicesInv PROVE Verdict
  OBVIOUS
<1>1. main = "binload" => WellFormed
  BY AllSeen DEF Walked, WellFormed, Acceptable
<1> QED
  BY <1>1 DEF DevicesInv, Verdict

(* main gets to the binary only for command lines that are well formed,    *)
(* and leaves with status 1 only for others.                               *)
THEOREM VerdictIsRight == Spec => []Verdict
BY VerdictOfWalk, AlwaysDevices, PTL

LEMMA SlotsOfWalk == DevicesInv => LastClaimWins
<1> SUFFICES ASSUME DevicesInv, main = "binload", NEW a \in Slots, Mapping(a) # {}
             PROVE  iomem[a] = Given(CHOOSE p \in Mapping(a) : \A q \in Mapping(a) : q <= p)
  BY AllSeen DEF LastClaimWins, Walked, Owned
<1>1. PICK p \in Mapping(a) : (\A q \in Mapping(a) : q <= p) /\ iomem[a] = Given(p)
  BY AllSeen DEF Walked, Owned
<1>2. \A q \in Mapping(a) : q \in Int
  BY AllSeen DEF Mapping, Loaded, Options, DevicesType
<1>3. (CHOOSE x \in Mapping(a) : \A q \in Mapping(a) : q <= x) = p
  BY <1>1, <1>2
<1> QED
  BY <1>1, <1>3

(* When the binary is loaded every slot belongs to the last device on the  *)
(* command line that claims it, however many overlap.                      *)
THEOREM LastClaimHolds == Spec => []LastClaimWins
BY SlotsOfWalk, AlwaysDevices, PTL

LEMMA InitialisersOfWalk == DevicesInv => InitialisedInOrder
BY AllSeen DEF Walked, Listed, InitialisedInOrder

(* Every device that fits the window has been initialised when the binary  *)
(* is loaded, as often as it is named and in the order of the line.        *)
THEOREM InitialisersRun == Spec => []InitialisedInOrder
BY InitialisersOfWalk, AlwaysDevices, PTL
=============================================================================
