--------------------------- MODULE MCTestProgram ---------------------------
(***************************************************************************)
(* System as "make run" starts it: the serial device and test.bin, with    *)
(* the real I/O window. The memory has 1 KiB instead of 24: the image ends *)
(* at 547, the line buffer at 767, and the stack needs 14 bytes at the top.*)
(* On the other end of the line somebody types As and a newline.           *)
(*                                                                         *)
(* And System with a program that talks to both devices and a command line *)
(* that names them in every order, one of them twice or none.              *)
(***************************************************************************)
EXTENDS System

Test == INSTANCE TestProgram

MCMemorySize == 1024
MCIoSize     == 255
MCInBytes    == {10, 65}
MCUninitWords == {0}
MCImages == {}
MCIoMaps == {}

MCLibrary ==
  [d \in Devices |->
     [access |-> TRUE, opens |-> TRUE,
      exports |-> {"device_offset", "device_read", "device_write", "device_init"},
      offsets |-> IF d = Serial THEN <<192>> ELSE <<1>>]]

(* What the template device holds goes to the serial device; then the next *)
(* value is put into the one and goes to the other.                        *)
TemplateAsm ==
  << Test!lab("main"), Test!get(Test!a, 1), Test!put(Test!a, 192),
     Test!inc(Test!a), Test!put(Test!a, 1), Test!get(Test!b, 1), Test!put(Test!b, 192), Test!halt >>

MCContent == [p \in {"test.bin", "template.bin"} |->
                IF p = "test.bin" THEN Test!TestBin ELSE Test!ExecutableOf(TemplateAsm)]

Given(devices) == FlattenSeq([k \in DOMAIN devices |-> <<"-device", devices[k]>>])
MCArgvs == {<<"-device", Serial, "test.bin">>}
             \cup {Given(d) \o <<"template.bin">> : d \in UNION {[1 .. n -> Devices] : n \in 0 .. 3}}

Tests == Last(argv) = "test.bin"

-----------------------------------------------------------------------------
Shown == Test!Banner

(* What has been sent once the banner is out: the echo of the line, then   *)
(* the line as the program prints it back.                                 *)
Talk == SubSeq(stdout, Len(Shown) + 1, Len(stdout))

Newlines == {k \in DOMAIN Talk : Talk[k] = 10}
Typing   == Newlines = {}
Line     == SubSeq(Talk, 1, CHOOSE k \in Newlines : \A n \in Newlines : k <= n)

(* The terminal is not closed before something has been typed, and lines   *)
(* have up to three As.                                                    *)
ShortLine == /\ Typing => Len(Talk) <= 3
             /\ Talk # <<>> => Talk[1] # 0

(* What has been printed at any moment is the beginning of the text the    *)
(* program is meant to print: every number in decimal, in rows of          *)
(* thirteen, whatever the calls in between did to the registers.           *)
PrintsBanner ==
  Tests => \A k \in DOMAIN stdout : k <= Len(Shown) => stdout[k] = Shown[k]

(* The line is echoed while it is typed and printed again, once, before    *)
(* the program halts.                                                      *)
PrintsLineBack == Tests /\ status = "halt" => ~Typing /\ Talk = Line \o Line \o <<0>>

(* The program gets to the prompt, and it halts once a newline is typed.   *)
ReachesPrompt == Tests ~> (Len(stdout) >= Len(Shown))
HaltsAfterLine == (stdout # <<>> /\ ~Typing) ~> (status = "halt")

(* A device answers at its address if it is on the command line, whatever  *)
(* is named before or after it, and the memory behind it stays untouched;  *)
(* without the device the memory answers.                                  *)
DevicesAnswer ==
  ~Tests /\ status = "halt" =>
    LET has(d) == \E k \in DOMAIN argv : argv[k] = d
        first  == IF has(Template) THEN 27 ELSE 0
    IN  /\ stdout = IF has(Serial) THEN <<first, first + 1>> ELSE <<>>
        /\ mem[1] = IF has(Template) THEN 0 ELSE 1
        /\ mem[192] = IF has(Serial) THEN 0 ELSE first + 1

-----------------------------------------------------------------------------
(* The newline comes after the buffer's 256 bytes have been filled.        *)
LongLine == /\ ~Typing => Len(Line) = 256
            /\ Typing => Len(Talk) <= 256
            /\ Talk # <<>> => Talk[1] # 0
=============================================================================
