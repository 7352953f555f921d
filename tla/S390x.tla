-------------------------------- MODULE S390x --------------------------------
(***************************************************************************)
(* s390x: program interrupts as lib/s390x/interrupt.c expects, catches and *)
(* checks them, the search for memory (sclp.c), address translation        *)
(* (mmu.c), and the tests that are built on them: selftest.c, intercept.c, *)
(* emulator.c, sthyi.c, skey.c, diag10.c, pfmf.c, cmm.c, vector.c, gs.c    *)
(* and iep.c.                                                              *)
(*                                                                         *)
(* A test is a sequence of steps: expect an interrupt, execute an          *)
(* instruction, check the code in the low core, report what was read.      *)
(* The processor is external: a right one, or one with a defect in one     *)
(* instruction.                                                            *)
(***************************************************************************)
EXTENDS Integers, Sequences, FiniteSets

CONSTANTS
    Facilities,     \* sets of facilities that a machine may have
    Memories,       \* what the SCLP says of memory, and what is there, for selftest.c
    Usual,          \* the one for the other programs
    ArgLists,       \* arguments of intercept.c
    VPages,         \* pages of the address space
    TopPages,       \* those at its end that setup_mmu maps to nothing
    FramePages      \* pages of a 1M frame, and of pagebuf

VARIABLES
    defect,             \* [i |-> instruction, kind |-> what is wrong]
    facility, memory, prog,
    phase,              \* "probe", "parse", "main" or "over"
    todo,               \* the steps that are left
    pgm_int_expected, pgm_int_code,
    ram_size,
    s,                  \* control bits of the CPU, storage keys, memory, page table
    out,                \* what was read since the last report
    it,                 \* the arguments and the loop of intercept.c
    failed, hit, lost, end

vars == <<defect, facility, memory, prog, phase, todo, pgm_int_expected, pgm_int_code, ram_size, s,
          out, it, failed, hit, lost, end>>
machine == <<defect, facility, memory, prog>>

-----------------------------------------------------------------------------
(* Steps of a test *)

Step(op, a, b) == <<[op |-> op, a |-> a, b |-> b]>>
Expect == Step("expect", "", "")
Insn(i, x) == Step("insn", i, x)
Check(code) == Step("check", code, "")
Report(vals) == Step("is", "", vals)            \* exactly these were read
ReportHas(v) == Step("has", v, "")              \* this one was read
ReportNot(v) == Step("not", v, "")              \* this one was not
Unless(v) == Step("unless", v, "")              \* no next step if v was read
Goon(v) == Step("go on", v, "")                 \* goto done unless v was read

\* An instruction that must be interrupted with code.
Faults(i, x, code) == Expect \o Insn(i, x) \o Check(code)
LowProtEnable == Insn("lctlg", "lap")
LowProtDisable == Insn("lctlg", "no lap")
Protected(i) == Expect \o LowProtEnable \o Insn(i, "low") \o LowProtDisable \o Check("protection")
EnterPstate == Insn("lpswe", "pstate")
InPstate(i, x) == Expect \o EnterPstate \o Insn(i, x) \o Check("privileged")

-----------------------------------------------------------------------------
(* intercept.c *)

Odd(i) == Faults(i, "odd", "specification")
Beyond(i) == Faults(i, "beyond", "addressing")
TestStpx ==
    Insn("stpx", "ok") \o Insn("spx", "pagebuf") \o Insn("stpx", "ok") \o Insn("spx", "0")
    \o Report({"0", "pagebuf"}) \o Protected("stpx") \o Odd("stpx") \o Beyond("stpx")
TestSpx ==
    Insn("spx", "pagebuf") \o Insn("stfl", "ok") \o Insn("spx", "0") \o Report({"facilities at pagebuf"})
    \o Odd("spx") \o Beyond("spx")
TestStap == Insn("stap", "ok") \o Report({"cpu"}) \o Protected("stap") \o Odd("stap") \o Beyond("stap")
TestStidp == Insn("stidp", "ok") \o Report({"id"}) \o Protected("stidp") \o Odd("stidp") \o Beyond("stidp")
TestTestblock ==
    Insn("memset", "aa") \o Insn("testblock", "ok") \o Insn("load first", "") \o Report({"cc 0", "0"})
    \o Protected("testblock") \o Beyond("testblock")
InterceptNames == {"stpx", "spx", "stap", "stidp", "testblock"}
Intercept(run_it) ==
    LET If(t, steps) == IF t \in run_it THEN steps ELSE <<>> IN
    If("stpx", TestStpx) \o If("spx", TestSpx) \o If("stap", TestStap) \o If("stidp", TestStidp)
    \o If("testblock", TestTestblock)

-----------------------------------------------------------------------------
(* emulator.c *)

SpmIpm(x) == Insn("spm", x) \o Insn("ipm", "") \o Report({x})
TestSpmIpm == SpmIpm("0 f") \o SpmIpm("1 9") \o SpmIpm("2 5") \o SpmIpm("3 3") \o SpmIpm("0 0")

Illegal(op, x) == Faults(op, x, "specification")
InvalidFunc(op) == Expect \o Insn(op, "query") \o Unless("127") \o Insn(op, "127") \o Check("specification")
CheckOpcode(op, f) ==
    CASE op \in {"kmac", "km", "kmc", "kimd", "klmd"} -> "msa" \in f
      [] op = "pckmo" -> "msa3" \in f
      [] op \in {"kmf", "kmo", "pcc", "kmctr"} -> "msa4" \in f
      [] op = "prno" -> "msa5" \in f

\* The switch of __test_basic_cpacf_opcode falls through.
CpacfOpcode(op, f) ==
    LET r1 == op \in {"kmctr", "prno", "kmf", "kmc", "kmo", "km"}
        r2 == r1 \/ op \in {"kmac", "kimd", "klmd"}
    IN IF ~CheckOpcode(op, f) THEN <<>>
       ELSE Insn(op, "query") \o ReportHas("query")
            \o (IF op = "kmctr" THEN Illegal(op, "r3 odd") \o Illegal(op, "r3 null") ELSE <<>>)
            \o (IF r1 THEN Illegal(op, "r1 odd") \o Illegal(op, "r1 null") ELSE <<>>)
            \o (IF r2 THEN Illegal(op, "r2 odd") \o Illegal(op, "r2 null") ELSE <<>>)
            \o (IF ~r1 THEN Illegal(op, "mod bit") ELSE <<>>)
            \o InvalidFunc(op) \o Beyond(op) \o Protected(op)

\* afp_disable makes the trap leave the DXC out of the FPC.
TestDxc ==
    LET Trap(before, after, want) ==
          Insn("set dxc", "") \o Expect \o before \o Insn("crt", "") \o after \o Check("data")
          \o Insn("read dxc", "") \o Report(want)
    IN Trap(<<>>, <<>>, {"lc ff", "fpc ff"})
       \o Trap(Insn("lctlg", "no afp"), Insn("lctlg", "afp"), {"lc ff", "fpc 0"})

Emulator(f) ==
    TestSpmIpm \o CpacfOpcode("kmac", f) \o CpacfOpcode("km", f) \o CpacfOpcode("kmc", f)
    \o CpacfOpcode("kimd", f) \o CpacfOpcode("klmd", f) \o CpacfOpcode("pckmo", f)
    \o CpacfOpcode("kmf", f) \o CpacfOpcode("kmo", f) \o CpacfOpcode("pcc", f)
    \o CpacfOpcode("kmctr", f) \o CpacfOpcode("prno", f) \o TestDxc

-----------------------------------------------------------------------------
(* sthyi.c, skey.c, diag10.c, pfmf.c, cmm.c *)

\* fcode 0 fills a buffer with a header, a machine and a partition section.
Sthyi ==
    Faults("sthyi", "unaligned", "specification") \o Faults("sthyi", "r1 odd", "specification")
    \o Faults("sthyi", "r2 odd", "specification") \o Faults("sthyi", "equal", "specification")
    \o Insn("sthyi", "fcode 42") \o Report({"cc 3", "unsupported"})
    \o Insn("sthyi", "fcode 0") \o Report({"lengths", "offsets", "machine", "partition"})

SkeyPriv ==
    Insn("memset", "0") \o InPstate("sske", "30") \o Insn("iske", "0") \o ReportNot("30") \o InPstate("iske", "0")
SkeySet == Insn("iske", "0") \o Insn("sske", "30") \o Step("drop", "", "") \o Insn("iske", "0") \o Report({"30"})
SkeySetMb(f) ==
    IF "edat" \notin f THEN <<>>
    ELSE Insn("sske mb", "30") \o Insn("iske", "0") \o Insn("iske", "1") \o Report({"30"})
SkeyChg == Insn("sske", "30") \o Insn("iske", "0") \o Insn("store", "0") \o Insn("iske", "0") \o Report({"30", "30 ch"})
Skey(f) == SkeyPriv \o SkeySet \o SkeySetMb(f) \o SkeyChg

Diag10 ==
    Faults("diag10", "0 to 0", "specification") \o Faults("diag10", "1000 to 1000", "specification")
    \o Faults("diag10", "0 to 1000", "specification")
    \o Faults("diag10", "end before start", "specification") \o Faults("diag10", "start odd", "specification")
    \o Faults("diag10", "end odd", "specification")
    \o InPstate("diag10", "page0")

Pfmf ==
    InPstate("pfmf", "nothing") \o Insn("memset", "0")
    \o Insn("pfmf", "key 4k") \o Insn("iske", "0") \o Report({"30"})
    \o Insn("pfmf", "key 1m") \o Insn("iske", "all") \o Report({"30"})
    \o Insn("memset first", "2a") \o Insn("pfmf", "clear 4k") \o Insn("load two", "") \o Report({"0"})
    \o Insn("memset", "2a") \o Insn("pfmf", "clear 1m") \o Insn("load all", "") \o Report({"0"})

\* test_availability: any interrupt means that there is no ESSA.
Cmm ==
    Expect \o Insn("essa", "0") \o Step("clear", "", "") \o Goon("no interrupt")
    \o InPstate("essa", "0") \o Faults("essa", "8", "specification")

-----------------------------------------------------------------------------
(* vector.c, gs.c *)

VectorInit == Insn("lctlg", "vx") \o Insn("vlm", "")
TestAdd == Insn("va", "") \o Report({"2a"})
TestExt1Nand(f) == IF "vxe" \in f THEN Insn("vnn", "") \o Report({"0"}) ELSE <<>>
TestBcdAdd(f) == IF "vxbcd" \in f THEN Insn("vap", "") \o Report({"42c"}) ELSE <<>>
Vector(f) == VectorInit \o TestAdd \o TestExt1Nand(f) \o TestBcdAdd(f)

TestSpecial == Faults("lgsc", "", "special operation") \o Faults("stgsc", "", "special operation")
GsInit == Insn("lctlg", "gs") \o Insn("lgsc", "area")
\* The event calls gs_handler_asm, which sets guarded and returns behind lgg.
TestLoad == Insn("lgg", "area") \o Report({"guarded"})
Gs == TestSpecial \o GsInit \o TestLoad

-----------------------------------------------------------------------------
(* selftest.c, iep.c and setup_mmu of mmu.c.  Pages of tmp and tmp2, from  *)
(* malloc, are right below those that setup_mmu maps to nothing.           *)

SetupMmu == Step("identity", "ram", "") \o Step("identity", "top", "") \o Insn("lctlg", "asce") \o Insn("lpswe", "dat")

Tmp == VPages - TopPages - 1
Tmp2 == Tmp - 1
TestPgmInt == Faults("0000", "", "operation") \o Faults("stg", "beyond", "addressing")
TestMalloc ==
    Step("malloc", "", Tmp) \o Step("malloc", "", Tmp2) \o Insn("stg", "tmp") \o Insn("stg", "tmp2")
    \o Insn("lg", "tmp") \o Report({"its own"}) \o Insn("lg", "tmp2") \o Report({"its own"})
    \o Expect \o Insn("lpswe", "no dat") \o Insn("stg", "tmp") \o Insn("lpswe", "dat") \o Check("addressing")
Selftest ==
    Insn("args", "") \o Report({"test 123"}) \o SetupMmu \o Insn("ddb", "") \o Report({"1.5"})
    \o TestPgmInt \o TestMalloc

\* The page is used, so that its translation may be cached, before it is protected.
TestIep ==
    Insn("lctlg", "iep") \o Step("use", "", 0) \o Step("protect", "", 0) \o Step("use", "", 0)
    \o Faults("jump", "page", "protection") \o Step("unprotect", "", 0) \o Insn("lctlg", "no iep")
Iep == SetupMmu \o TestIep

\* main of each program, as far as the machine has what it is about.
Needs == [t \in {"sthyi", "pfmf", "vector", "gs", "iep"} |->
             CASE t = "sthyi" -> "sthyi" [] t = "pfmf" -> "edat" [] t = "vector" -> "vx" [] OTHER -> t]
Main(p, f) ==
    IF p \in DOMAIN Needs /\ Needs[p] \notin f THEN <<>>
    ELSE CASE p = "selftest" -> Selftest
           [] p = "emulator" -> Emulator(f)
           [] p = "sthyi" -> Sthyi
           [] p = "skey" -> Skey(f)
           [] p = "diag10" -> Diag10
           [] p = "pfmf" -> Pfmf
           [] p = "cmm" -> Cmm
           [] p = "vector" -> Vector(f)
           [] p = "gs" -> Gs
           [] p = "iep" -> Iep
           [] OTHER -> <<>>            \* intercept, once its arguments are parsed

Programs == {"selftest", "intercept", "emulator", "sthyi", "skey", "diag10", "pfmf", "cmm", "vector", "gs", "iep"}

-----------------------------------------------------------------------------
(* Initial states *)

\* Not the instruction that a test is about.
Plain == {"lctlg", "lpswe", "args", "memset", "memset first", "load first", "load two", "load all", "set dxc", "read dxc"}
DefectsOf(steps) ==
    {[i |-> "", kind |-> "none"]}
    \cup [i : {steps[n].a : n \in {k \in DOMAIN steps : steps[k].op = "insn"}} \ Plain,
          kind : {"silent", "spurious", "code", "value", "127"}]

Page == 0..(FramePages - 1)
VPage == 0..(VPages - 1)
Unmapped == -1

Init ==
    /\ prog \in Programs /\ facility \in Facilities
    /\ memory \in (IF prog = "selftest" THEN Memories ELSE {Usual})
    /\ todo = Main(prog, facility)
    /\ defect \in DefectsOf(IF prog = "intercept" THEN Intercept(InterceptNames) ELSE todo)
    /\ it = [args |-> <<>>, run_all |-> TRUE, run_it |-> {}, nr |-> 0, asked |-> 0, time |-> 0, clk |-> 0, ran |-> 0]
       \/ /\ prog = "intercept" /\ defect.kind = "none"
          /\ it \in [args : ArgLists, run_all : {TRUE}, run_it : {{}}, nr : {0}, asked : {0}, time : {0}, clk : {0}, ran : {0}]
    /\ phase = "probe" /\ ram_size = 0
    /\ pgm_int_expected = FALSE /\ pgm_int_code = "none"
    /\ s = [pstate |-> FALSE, lap |-> FALSE, afp |-> TRUE, vx |-> FALSE, gs |-> FALSE, iep |-> FALSE, dat |-> FALSE,
            prefix |-> "0", cc |-> "", area |-> FALSE, lc |-> "lc old", fpc |-> "fpc 0", mb |-> 0,
            key |-> [p \in Page |-> "0"], buf |-> [p \in Page |-> "0"],
            map |-> [v \in VPage |-> Unmapped], cur |-> 0, iep_pages |-> {}, tlb |-> {}, at |-> [v \in VPage |-> ""]]
    /\ out = {} /\ failed = FALSE /\ hit = FALSE /\ lost = FALSE /\ end = ""

-----------------------------------------------------------------------------
(* sclp_memory_setup: probe for memory, an increment at a time.  The SCLP  *)
(* has a second field for a size or number that does not fit the first.    *)

Rnsize == IF memory.rnsize # 0 THEN memory.rnsize ELSE memory.rnsize2
MaxRam == (IF memory.rnmax # 0 THEN memory.rnmax ELSE memory.rnmax2) * Rnsize
Tprot == memory.pages[ram_size + Rnsize - 1]

\* Mutant: clear_pgm_int is not called when the probe is not interrupted.
SclpMemorySetup_NoClear ==
    /\ phase = "probe" /\ end = ""
    /\ IF ram_size = 0 THEN ram_size' = Rnsize /\ UNCHANGED <<phase, pgm_int_expected>>
       ELSE IF ram_size < MaxRam /\ Tprot = "rw"
       THEN ram_size' = ram_size + Rnsize /\ pgm_int_expected' = TRUE /\ UNCHANGED phase
       ELSE /\ phase' = (IF prog = "intercept" THEN "parse" ELSE "main")
            /\ UNCHANGED <<ram_size, pgm_int_expected>>
    /\ pgm_int_code' = "none"
    /\ UNCHANGED <<machine, todo, s, out, it, failed, hit, lost, end>>

SclpMemorySetup ==
    /\ phase = "probe" /\ end = ""
    /\ IF ram_size = 0 THEN ram_size' = Rnsize /\ UNCHANGED phase
       ELSE IF ram_size < MaxRam /\ Tprot = "rw" THEN ram_size' = ram_size + Rnsize /\ UNCHANGED phase
       ELSE phase' = (IF prog = "intercept" THEN "parse" ELSE "main") /\ UNCHANGED ram_size
    /\ pgm_int_expected' = FALSE /\ pgm_int_code' = "none"
    /\ UNCHANGED <<machine, todo, s, out, it, failed, hit, lost, end>>

-----------------------------------------------------------------------------
(* The processor *)

Cpacf == {"kmac", "km", "kmc", "kimd", "klmd", "pckmo", "kmf", "kmo", "pcc", "kmctr", "prno"}
Privileged == {"lctlg", "lpswe", "stpx", "spx", "stap", "stidp", "testblock", "stfl", "sske", "iske", "sske mb",
               "diag10", "pfmf", "essa", "servc"}
VectorInsns == {"vlm", "va", "vnn", "vap"}
Address == [tmp |-> Tmp, tmp2 |-> Tmp2]

Access(x) ==
    LET real == IF s.dat THEN s.map[Address[x]] ELSE Address[x] IN
    IF real = Unmapped THEN "page translation" ELSE IF real >= ram_size THEN "addressing" ELSE "none"

\* The code of the interrupt that an instruction must raise.
Right(i, x) ==
    IF s.pstate /\ i \in Privileged THEN "privileged"
    ELSE IF i = "0000" THEN "operation"
    ELSE IF i \in {"stg", "lg"} /\ x # "beyond" THEN Access(x)
    ELSE IF x = "beyond" THEN "addressing"
    ELSE IF x = "low" THEN (IF s.lap THEN "protection" ELSE "none")
    ELSE IF i = "essa" /\ "essa" \notin facility THEN "operation"
    ELSE IF \/ x \in {"odd", "unaligned", "r1 odd", "r2 odd", "r3 odd", "r1 null", "r2 null", "r3 null", "equal", "mod bit", "127"}
            \/ i = "diag10" /\ x # "page0"
            \/ i = "essa" /\ x = "8" THEN "specification"
    ELSE IF i \in {"lgsc", "stgsc", "lgg"} /\ ~s.gs THEN "special operation"
    ELSE IF i = "crt" \/ (i \in VectorInsns /\ ~s.vx) THEN "data"
    ELSE IF i = "jump" /\ s.iep /\ <<0, TRUE>> \in s.tlb THEN "protection"
    ELSE "none"

Wrong(kind, i) == defect = [i |-> i, kind |-> kind]
Raised(i, x) ==
    LET r == Right(i, x) IN
    CASE Wrong("silent", i) -> "none"
      [] Wrong("spurious", i) /\ r = "none" -> "operation"
      [] Wrong("code", i) /\ r # "none" -> IF r = "operation" THEN "addressing" ELSE "operation"
      [] OTHER -> r

\* What an instruction reads ...
Reads(i, x) ==
    CASE i = "stpx" -> {s.prefix}
      [] i = "stfl" -> {IF s.prefix = "pagebuf" THEN "facilities at pagebuf" ELSE "facilities"}
      [] i = "stap" -> {"cpu"} [] i = "stidp" -> {"id"} [] i = "testblock" -> {"cc 0"}
      [] i = "ipm" -> {s.cc} [] i = "read dxc" -> {s.lc, s.fpc}
      [] i \in Cpacf /\ x = "query" -> {"query"} \cup {f \in {"127"} : Wrong(f, i)}
      [] i = "sthyi" -> IF x = "fcode 42" THEN {"cc 3", "unsupported"} ELSE {"lengths", "offsets", "machine", "partition"}
      [] i = "iske" -> {s.key[p] : p \in CASE x = "0" -> {0} [] x = "1" -> {1} [] OTHER -> Page}
      [] i = "load first" -> {s.buf[0]} [] i = "load two" -> {s.buf[0], s.buf[1]} [] i = "load all" -> {s.buf[p] : p \in Page}
      [] i = "va" -> {"2a"} [] i = "vnn" -> {"0"} [] i = "vap" -> {"42c"} [] i = "ddb" -> {"1.5"}
      [] i = "lgg" -> {g \in {"guarded"} : s.area} [] i = "args" -> {"test 123"}
      [] i = "lg" -> {IF s.at[s.map[Address[x]]] = x THEN "its own" ELSE "other"}
      [] OTHER -> {}

\* ... and what it changes.
Ch(k) == IF k \in {"0", "0 ch"} THEN "0 ch" ELSE "30 ch"
Frame(x) == IF x \in {"key 4k", "clear 4k"} THEN {0} ELSE Page
Changes(i, x) ==
    CASE i = "spx" -> [s EXCEPT !.prefix = x]
      [] i = "lctlg" -> (CASE x = "lap" -> [s EXCEPT !.lap = TRUE] [] x = "no lap" -> [s EXCEPT !.lap = FALSE]
                           [] x = "afp" -> [s EXCEPT !.afp = TRUE] [] x = "no afp" -> [s EXCEPT !.afp = FALSE]
                           [] x = "vx" -> [s EXCEPT !.vx = TRUE] [] x = "gs" -> [s EXCEPT !.gs = TRUE]
                           [] x = "iep" -> [s EXCEPT !.iep = TRUE] [] x = "no iep" -> [s EXCEPT !.iep = FALSE]
                           [] OTHER -> s)
      [] i = "lpswe" -> (CASE x = "pstate" -> [s EXCEPT !.pstate = TRUE] [] OTHER -> [s EXCEPT !.dat = (x = "dat")])
      [] i = "spm" -> [s EXCEPT !.cc = x]
      [] i = "memset" -> [s EXCEPT !.buf = [p \in Page |-> x], !.key = [p \in Page |-> Ch(s.key[p])]]
      [] i = "memset first" -> [s EXCEPT !.buf[0] = x, !.key[0] = Ch(@)]
      [] i = "testblock" -> [s EXCEPT !.buf[0] = "0"]
      [] i = "store" -> [s EXCEPT !.key[0] = Ch(@)]
      [] i = "sske" -> [s EXCEPT !.key[0] = x]
      [] i = "pfmf" -> (CASE x \in {"key 4k", "key 1m"} -> [s EXCEPT !.key = [p \in Page |-> IF p \in Frame(x) THEN "30" ELSE @[p]]]
                          [] x \in {"clear 4k", "clear 1m"} -> [s EXCEPT !.buf = [p \in Page |-> IF p \in Frame(x) THEN "0" ELSE @[p]]]
                          [] OTHER -> s)
      [] i = "lgsc" -> [s EXCEPT !.area = (x = "area")]
      [] i = "set dxc" -> [s EXCEPT !.lc = "lc old", !.fpc = "fpc 0"]
      [] i = "stg" /\ x # "beyond" -> [s EXCEPT !.at[IF s.dat THEN s.map[Address[x]] ELSE Address[x]] = x]
      [] OTHER -> s

\* A defect of kind "value": what is read is wrong, or nothing is changed.
Mute == {"spx", "spm", "sske", "sske mb", "pfmf", "lgsc", "testblock", "store"}
Values(i, x) == IF Wrong("value", i) /\ Reads(i, x) # {} THEN {"wrong"} ELSE Reads(i, x)
Effect(i, x) == IF Wrong("value", i) /\ i \in Mute THEN s ELSE Changes(i, x)
Shows(i, x) ==
    \/ Raised(i, x) # Right(i, x)
    \/ /\ Raised(i, x) = "none" /\ Wrong("value", i)
       /\ Reads(i, x) # {} \/ (i \in Mute /\ Changes(i, x) # s)
    \/ Wrong("value", "crt") /\ i = "crt"
    \/ Wrong("127", i) /\ x = "query"

\* The DXC of a trap is stored in the low core, and in the FPC with AFP.
Trapped(i) ==
    IF i # "crt" THEN s
    ELSE [s EXCEPT !.lc = "lc ff", !.fpc = IF s.afp \/ Wrong("value", "crt") THEN "fpc ff" ELSE @]

-----------------------------------------------------------------------------
(* interrupt.c *)

o == Head(todo)
Doing(op) == phase = "main" /\ end = "" /\ todo # <<>> /\ o.op = op
Done == todo' = Tail(todo)

\* Mutant: the code of an earlier interrupt stays.
ExpectPgmInt_KeepCode ==
    /\ Doing("expect") /\ Done
    /\ pgm_int_expected' = TRUE /\ out' = {}
    /\ UNCHANGED <<machine, phase, pgm_int_code, ram_size, s, it, failed, hit, lost, end>>

ExpectPgmInt ==
    /\ Doing("expect") /\ Done
    /\ pgm_int_expected' = TRUE /\ pgm_int_code' = "none" /\ out' = {}
    /\ UNCHANGED <<machine, phase, ram_size, s, it, failed, hit, lost, end>>

ClearPgmInt ==
    /\ Doing("clear") /\ Done
    /\ out' = {v \in {"no interrupt"} : pgm_int_code = "none"}
    /\ pgm_int_expected' = FALSE /\ pgm_int_code' = "none"
    /\ UNCHANGED <<machine, phase, ram_size, s, it, failed, hit, lost, end>>

\* handle_pgm_int and fixup_pgm_int: go on behind the instruction, in
\* supervisor state after a privileged operation.  While the prefix is
\* elsewhere there is no handler; and what follows an interrupt in the page
\* of iep.c is no code, unless it is the protection that the fix-up knows.
HandlePgmInt(i, code, after) ==
    /\ pgm_int_code' = code
    /\ pgm_int_expected' = FALSE
    /\ end' = IF s.prefix # "0" THEN "wild"
              ELSE IF ~pgm_int_expected \/ (i = "jump" /\ code # "protection") THEN "abort" ELSE ""
    /\ s' = IF code = "privileged" THEN [after EXCEPT !.pstate = FALSE] ELSE after

Execute ==
    /\ Doing("insn") /\ o.a # "sske mb" /\ Done
    /\ LET r == Raised(o.a, o.b) IN
        IF r = "none"
        THEN /\ s' = Effect(o.a, o.b) /\ out' = out \cup Values(o.a, o.b)
             /\ UNCHANGED <<pgm_int_expected, pgm_int_code, end>>
        ELSE HandlePgmInt(o.a, r, Trapped(o.a)) /\ UNCHANGED out
    /\ hit' = (hit \/ Shows(o.a, o.b))
    /\ UNCHANGED <<machine, phase, ram_size, it, failed, lost>>

\* set_storage_key_mb returns the address that it got to.
SetStorageKeyMb ==
    /\ Doing("insn") /\ o.a = "sske mb"
    /\ \E n \in 1..(2 - s.mb) :
        /\ IF Raised("sske mb", "") = "none"
           THEN /\ s' = [s EXCEPT !.mb = @ + n,
                                  !.key = [p \in Page |-> IF p \in s.mb..(s.mb + n - 1) /\ ~Wrong("value", "sske mb") THEN o.b ELSE @[p]]]
                /\ UNCHANGED <<pgm_int_expected, pgm_int_code, end>>
           ELSE HandlePgmInt("sske mb", Raised("sske mb", ""), s)
        /\ todo' = IF s.mb + n < 2 THEN todo ELSE Tail(todo)
    /\ hit' = (hit \/ Wrong("spurious", "sske mb") \/ Wrong("value", "sske mb"))
    /\ UNCHANGED <<machine, phase, ram_size, out, it, failed, lost>>

\* A line is printed by a privileged instruction.  In problem state it is
\* interrupted: the line is lost if an interrupt is still expected.
PrintLine ==
    IF s.pstate
    THEN /\ lost' = (lost \/ pgm_int_expected)
         /\ HandlePgmInt("servc", "privileged", s)
    ELSE UNCHANGED <<pgm_int_expected, pgm_int_code, s, lost, end>>

CheckPgmIntCode ==
    /\ Doing("check") /\ Done
    /\ failed' = (failed \/ pgm_int_code # o.a)
    /\ PrintLine
    /\ UNCHANGED <<machine, phase, ram_size, out, it, hit>>

Reporting ==
    \E op \in {"is", "has", "not"} :
        /\ Doing(op) /\ Done
        /\ failed' = (failed \/ ~(CASE op = "is" -> out = o.b [] op = "has" -> o.a \in out [] OTHER -> o.a \notin out))
        /\ out' = {}
        /\ PrintLine
        /\ UNCHANGED <<machine, phase, ram_size, it, hit>>

Branch ==
    /\ \/ Doing("unless") /\ todo' = IF o.a \in out THEN Tail(Tail(todo)) ELSE Tail(todo)
       \/ Doing("go on") /\ todo' = IF o.a \in out THEN Tail(todo) ELSE <<>>
       \/ Doing("drop") /\ Done
    /\ out' = {}
    /\ UNCHANGED <<machine, phase, pgm_int_expected, pgm_int_code, ram_size, s, it, failed, hit, lost, end>>

-----------------------------------------------------------------------------
(* mmu.c.  An entry is the real page, the IEP bits are in iep_pages, and   *)
(* tlb has the translations that the processor remembers.                  *)

\* Mutant: the old entry is not flushed.
SetPte_NoFlush(v, real, iep) ==
    s' = [s EXCEPT !.map[v] = real, !.iep_pages = IF iep THEN @ \cup {v} ELSE @ \ {v}]

SetPte(v, real, iep) ==
    s' = [s EXCEPT !.map[v] = real, !.iep_pages = IF iep THEN @ \cup {v} ELSE @ \ {v},
                   !.tlb = IF s.map[v] = Unmapped THEN @ ELSE @ \ {<<v, TRUE>>, <<v, FALSE>>}]

\* setup_identity: addresses wrap, and the range may end at 0.
RangeStart == IF o.a = "ram" THEN 0 ELSE VPages - TopPages
RangeEnd == IF o.a = "ram" THEN ram_size ELSE 0
SetupIdentity ==
    LET cur == (RangeStart + s.cur) % VPages IN
    /\ Doing("identity")
    /\ IF \/ RangeStart < RangeEnd /\ cur >= RangeEnd
          \/ RangeStart > RangeEnd /\ cur <= RangeEnd
       THEN s' = [s EXCEPT !.cur = 0] /\ Done
       ELSE s' = [s EXCEPT !.map[cur] = cur, !.cur = @ + 1] /\ UNCHANGED todo
    /\ UNCHANGED <<machine, phase, pgm_int_expected, pgm_int_code, ram_size, out, it, failed, hit, lost, end>>

Paging ==
    /\ \/ Doing("malloc") /\ SetPte(o.b, IF o.b = Tmp THEN ram_size - 1 ELSE 0, FALSE)
       \/ Doing("protect") /\ SetPte(o.b, s.map[o.b], TRUE)
       \/ Doing("unprotect") /\ SetPte(o.b, s.map[o.b], FALSE)
       \/ /\ Doing("use")
          /\ s' = [s EXCEPT !.tlb = IF <<o.b, TRUE>> \in @ \/ <<o.b, FALSE>> \in @ THEN @
                                    ELSE @ \cup {<<o.b, o.b \in s.iep_pages>>}]
    /\ Done
    /\ UNCHANGED <<machine, phase, pgm_int_expected, pgm_int_code, ram_size, out, it, failed, hit, lost, end>>

-----------------------------------------------------------------------------
(* parse_intercept_test_args and the loop of main in intercept.c *)

Atol(a) == CASE a = "1" -> 1 [] a = "2" -> 2 [] a = "3" -> 3 [] OTHER -> 0
ParseArg ==
    LET a == Head(it.args)
        option == a \in {"-i", "-t"}
        n == Atol(it.args[2])
    IN
    /\ phase = "parse" /\ end = "" /\ it.args # <<>>
    /\ end' = IF (option /\ Len(it.args) = 1) \/ (~option /\ a \notin InterceptNames) THEN "abort" ELSE ""
    /\ it' = IF end' = "abort" THEN it
             ELSE CASE a = "-i" -> [it EXCEPT !.args = Tail(Tail(@)), !.nr = n, !.asked = n]
                    [] a = "-t" -> [it EXCEPT !.args = Tail(Tail(@)), !.time = n]
                    [] OTHER -> [it EXCEPT !.args = Tail(@), !.run_all = FALSE, !.run_it = @ \cup {a}]
    /\ UNCHANGED <<machine, phase, todo, pgm_int_expected, pgm_int_code, ram_size, s, out, failed, hit, lost>>

Parsed ==
    LET run_it == IF it.run_all THEN InterceptNames ELSE it.run_it IN
    /\ phase = "parse" /\ end = "" /\ it.args = <<>>
    /\ it' = [it EXCEPT !.run_it = run_it, !.nr = IF it.nr = 0 /\ it.time = 0 THEN 1 ELSE @]
    /\ todo' = Intercept(run_it) /\ phase' = "main"
    /\ UNCHANGED <<machine, pgm_int_expected, pgm_int_code, ram_size, s, out, failed, hit, lost, end>>

\* Mutant: an iteration count of 0 is counted down as well.
EndOfIteration_Wraps ==
    /\ prog = "intercept" /\ phase = "main" /\ end = "" /\ todo = <<>>
    /\ \E ms \in {1, 2} :
        /\ it' = [it EXCEPT !.nr = @ - 1, !.clk = @ + ms, !.ran = @ + 1]
        /\ IF it'.nr <= 0 THEN phase' = "over" /\ UNCHANGED todo
           ELSE todo' = Intercept(it.run_it) /\ UNCHANGED phase
    /\ UNCHANGED <<machine, pgm_int_expected, pgm_int_code, ram_size, s, out, failed, hit, lost, end>>

EndOfIteration ==
    /\ prog = "intercept" /\ phase = "main" /\ end = "" /\ todo = <<>>
    /\ \E ms \in {1, 2} :
        /\ it' = [it EXCEPT !.nr = IF @ > 0 THEN @ - 1 ELSE @, !.clk = @ + ms, !.ran = @ + 1]
        /\ IF (it.nr > 0 /\ it'.nr = 0) \/ (it.time > 0 /\ it'.clk > it.time)
           THEN phase' = "over" /\ UNCHANGED todo
           ELSE todo' = Intercept(it.run_it) /\ UNCHANGED phase
    /\ UNCHANGED <<machine, pgm_int_expected, pgm_int_code, ram_size, s, out, failed, hit, lost, end>>

Next ==
    \/ SclpMemorySetup
    \/ ExpectPgmInt \/ ClearPgmInt \/ Execute \/ SetStorageKeyMb \/ CheckPgmIntCode \/ Reporting \/ Branch
    \/ SetupIdentity \/ Paging
    \/ ParseArg \/ Parsed \/ EndOfIteration

Spec == Init /\ [][Next]_vars

-----------------------------------------------------------------------------
Finished == end = "" /\ todo = <<>> /\ IF prog = "intercept" THEN phase = "over" ELSE phase = "main"
IsRight == defect.kind = "none"

\* cmm.c takes any interrupt of its first ESSA for a machine without it.
Unseen == defect.i = "essa" /\ (defect.kind = "spurious" \/ "essa" \notin facility)

\* The tests of lib/s390x/interrupt.c's users: on a right machine nothing is
\* reported, no interrupt is unexpected, no line is lost and no interrupt is
\* still expected at the end; a machine whose defect showed does not get
\* through without a failed report.  A line is lost, and an interrupt
\* taken that nobody waits for, only after a report has failed.
InterruptsTold ==
    /\ IsRight => ~failed /\ ~lost /\ (end = "" \/ it.args # <<>>)
    /\ IsRight /\ Finished => ~pgm_int_expected
    /\ Finished /\ hit /\ ~Unseen => failed
    /\ lost => failed

\* sclp_memory_setup stops below the first increment that cannot be written
\* or is beyond the maximum; setup_mmu then maps every page of memory, and
\* the pages at the end of the address space, to itself and nothing else.
MemoryFound ==
    /\ phase # "probe" =>
        /\ \A p \in Rnsize..(ram_size - 1) : (p + 1) % Rnsize = 0 => memory.pages[p] = "rw"
        /\ ram_size < MaxRam => memory.pages[ram_size + Rnsize - 1] # "rw"
        /\ ram_size <= MaxRam \/ ram_size = Rnsize
    /\ s.dat => \A v \in VPage \ {Tmp, Tmp2} :
           s.map[v] = IF v < ram_size \/ v >= VPages - TopPages THEN v ELSE Unmapped

\* intercept.c makes the iterations that it was asked for, fewer only when
\* its time is over, and one when it was asked for nothing.
IterationsMade ==
    phase = "over" =>
        /\ it.asked > 0 /\ it.time = 0 => it.ran = it.asked
        /\ it.asked = 0 /\ it.time = 0 => it.ran = 1
        /\ it.ran < it.asked \/ (it.asked = 0 /\ it.time > 0) => it.clk > it.time
        /\ it.asked > 0 => it.ran <= it.asked

S390Verdict == InterruptsTold /\ MemoryFound /\ IterationsMade
=============================================================================
