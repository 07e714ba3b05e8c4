---------------------------- MODULE TestProgram ----------------------------
(***************************************************************************)
(* Sean816Asm/test/test.asm, line by line, the binary it means, and what   *)
(* the program is meant to print.                                          *)
(***************************************************************************)
EXTENDS Assembly

(* Lines: what follows a label or an instruction is a remark or nothing.   *)
a  == Reg(0)
b  == Reg(1)
c  == Reg(2)
gb == Reg(17)
ml == Reg(24)
mh == Reg(25)

halt           == <<Op(0)>>
load(x, y, z)  == <<Op(1), x, y, z>>
get(x, n)      == <<Op(1), x, Hex4(n)>>
store(x, y, z) == <<Op(2), x, y, z>>
put(x, n)      == <<Op(2), x, Hex4(n)>>
mhml(w)        == <<Op(3), w>>
slh(n)         == <<Op(5), Hex2(n)>>
mov(x, w)      == <<Op(6), x, w>>
add(x, n)      == <<Op(7), x, Hex2(n)>>
sub(x, n)      == <<Op(8), x, Hex2(n)>>
inc(x)         == <<Op(11), x>>
jmp(t)         == <<Op(13), Ref(t)>>
cmp(x, n)      == <<Op(14), x, Hex2(n)>>
je(t)          == <<Op(15), Ref(t)>>
jne(t)         == <<Op(16), Ref(t)>>
jl(t)          == <<Op(18), Ref(t)>>
call(t)        == <<Op(21), Ref(t)>>
calle(t)       == <<Op(22), Ref(t)>>
callne(t)      == <<Op(23), Ref(t)>>
ret            == <<Op(26)>>
str(s)         == <<Op(STR), Text(s)>>
lab(x)         == <<Label(x)>>
blank          == <<>>
remark         == <<Semicolon>>
with_remark(line) == line \o <<Semicolon>>

poc_text ==
  <<84, 104, 105, 115, 32, 105, 115, 32, 97, 32, 112, 114, 111, 111, 102, 32, 111, 102, 32,
    99, 111, 110, 99, 101, 112, 116, 32, 99, 111, 100, 101, 32, 111, 102, 32,
    83, 101, 97, 110, 56, 49, 54, 33, 10>>

(* test.asm                                                                *)
TestAsm ==
  << lab("main"), call("clearscreen"), mhml(Ref("poc_str")), mov(a, mh), mov(b, ml),
    call("printf"), mov(a, Hex2(0)), mov(gb, Hex2(0)),
    lab("mainintloop"), call("printint"), inc(a), cmp(a, 255), je("mainreadline"), inc(gb),
    cmp(gb, 13), calle("helper_printnl"), callne("helper_printsp"), jmp("mainintloop"),
    lab("mainreadline"), call("helper_printnl"), with_remark(mov(a, Hex2(2))),
    mov(b, Hex2(0)), with_remark(call("fgets")), with_remark(call("printf")), halt, blank,
    lab("helper_printnl"), mov(gb, Hex2(0)), mov(a, Hex2(10)), put(a, 192), ret,
    lab("helper_printsp"), mov(a, Hex2(32)), put(a, 192), ret, blank,
    lab("poc_str"), str(poc_text), blank, remark, remark, remark, remark, remark, remark,
    remark,
    lab("printf"), with_remark(load(c, b, a)), with_remark(put(c, 192)),
    with_remark(inc(b)), with_remark(cmp(c, 0)), with_remark(jne("printf")), ret, blank,
    remark, remark, remark, remark, remark, remark, remark,
    lab("fgets"), with_remark(get(c, 192)), with_remark(put(c, 192)),
    with_remark(store(c, b, a)), with_remark(inc(b)), with_remark(cmp(c, 10)),
    with_remark(jne("fgets")), store(Hex2(0), b, a), ret, blank, remark, remark, remark,
    remark, remark, remark, remark,
    lab("printint"), mov(b, Hex2(0)), mov(c, Hex2(0)),
    lab("printintloopbig"), cmp(a, 100), jl("printintloop"), sub(a, 100), inc(c),
    jmp("printintloopbig"),
    lab("printintloop"), cmp(a, 10), jl("printend"), sub(a, 10), inc(b),
    jmp("printintloop"),
    lab("printend"), add(c, 48), add(b, 48), add(a, 48), put(c, 192), put(b, 192),
    put(a, 192), ret, blank, remark, remark, remark, remark, remark,
    lab("clearscreen"), mhml(Hex4(192)), slh(27), slh(91), slh(51), slh(74), slh(27),
    slh(91), slh(50), slh(74), slh(27), slh(91), slh(72), ret >>

(* test.bin                                                                *)
TestBin == ExecutableOf(TestAsm)

-----------------------------------------------------------------------------
(* What the program prints before it reads a line: the screen is cleared,  *)
(* the text follows with its terminating zero, then all numbers up to 254  *)
(* in three digits, thirteen to a line.                                    *)
Digits(n) == <<48 + (n \div 100), 48 + ((n \div 10) % 10), 48 + (n % 10)>>

Number(n) == Digits(n) \o (IF n = 254 \/ n % 13 = 12 THEN <<10>> ELSE <<32>>)

Banner ==
  <<27, 91, 51, 74, 27, 91, 50, 74, 27, 91, 72>> \o poc_text \o <<0>>
    \o [k \in 1 .. 4 * 255 |-> Number((k - 1) \div 4)[1 + ((k - 1) % 4)]]
=============================================================================
