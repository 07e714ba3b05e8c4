----------------------------- MODULE MCDevices -----------------------------
(***************************************************************************)
(* Devices on every command line of up to four words and every one of      *)
(* three options and a binary. The libraries overlap, repeat, miss         *)
(* functions, miss the window or are no libraries at all.                  *)
(***************************************************************************)
EXTENDS Devices

MCIoSize == 4

Lib(access, opens, exported, list) ==
  [access |-> access, opens |-> opens, exports |-> exported, offsets |-> list]

(* test.bin is a file that can be read and is not a library.               *)
MCLibrary ==
  [d \in {"Serial.so", "Template.so", "Wide.so", "Quiet.so", "Broken.so", "Hidden.so", "test.bin"} |->
     CASE d = "Serial.so"   -> Lib(TRUE, TRUE, Symbols, <<3>>)
       [] d = "Template.so" -> Lib(TRUE, TRUE, Symbols, <<1, 2>>)
       [] d = "Wide.so"     -> Lib(TRUE, TRUE, Symbols, <<2, 4, 3>>)
       [] d = "Quiet.so"    -> Lib(TRUE, TRUE, {"device_init"}, <<>>)
       [] d = "Broken.so"   -> Lib(TRUE, TRUE, {"device_offset", "device_write"}, <<1>>)
       [] d = "Hidden.so"   -> Lib(FALSE, TRUE, Symbols, <<1>>)
       [] d = "test.bin"    -> Lib(TRUE, FALSE, {}, <<>>)]

MCLibraries == DOMAIN MCLibrary
Words == MCLibraries \cup {Option, "missing"}

MCArgvs ==
  UNION {[1 .. n -> Words] : n \in 0 .. 4}
    \cup {<<Option, d, Option, e, Option, f, "test.bin">> : d, e, f \in MCLibraries}
=============================================================================
