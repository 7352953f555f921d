------------------------------ MODULE VmxTests ------------------------------
(***************************************************************************)
(* Tests of x86/vmx_tests.c in which a guest and the exit handler agree by *)
(* a stage: control field PAT and EFER, CR shadowing, I/O bitmap,          *)
(* instruction intercept, VPID and debug controls.                         *)
(*                                                                         *)
(* The guest's main function is a sequence of operations.  An operation    *)
(* that causes a VM exit leaves it in exit; the handler then resumes the   *)
(* guest or ends it.  The processor is external, and may have one of the   *)
(* defects that the tests look for.                                        *)
(***************************************************************************)
EXTENDS Naturals, SequencesExt

CONSTANTS Machines   \* [test, clr, set, defect, insn], see Machine

\* The test, the controls that may be 1 (ctrl_*_rev.clr), the ones that must
\* be 1 (ctrl_*_rev.set), and what is wrong with the processor, or "none",
\* with the instruction that it is wrong for.
\* The controls are flags of the instruction table, "secondary", and for
\* the register that a test switches "load" (on entry), "save" and "hload"
\* (on exit).
Machine == [test : STRING, clr : SUBSET STRING, set : SUBSET STRING, defect : STRING, insn : STRING]

VARIABLES
    machine,
    main,     \* what its guest does
    at,       \* the guest's next operation
    stage,    \* vmx_get_test_stage()
    exit,     \* the VM exit that is to be handled: [reason, qual]
    vmcs,     \* ctl: controls; mask, shadow: of CR0 and CR4; guest, host: the
              \* fields of the register that is switched
    cpu,      \* cr: CR0 and CR4 in the guest, as sets of bits; reg: the
              \* register that is switched
    mem,      \* globals: guest_cr (guest_cr0 and guest_cr4), bitmap (ports whose
              \* bit is set), cur_insn; and tmp, a local of the guest
    failed    \* whether a report failed

vars == <<machine, main, at, stage, exit, vmcs, cpu, mem, failed>>

None == [reason |-> 0]
\* Exit reasons.
VMX_VMCALL == 18
VMX_CR == 28
VMX_IO == 30
Other == 1
Xor(a, b) == (a \ b) \cup (b \ a)
Bits == (0 :> {"TS", "MP"}) @@ (4 :> {"TSD", "DE"})
Crs == {0, 4}

-----------------------------------------------------------------------------
(* Operations of a guest. *)

SetStage(n) == [op |-> "stage", n |-> n]
ReportStage(n) == [op |-> "report stage", n |-> n]
Vmcall == [op |-> "vmcall"]
VmcallUnless(n) == [op |-> "vmcall unless", n |-> n]  \* report a failure at stage n
ReadCr(cr, to) == [op |-> "read cr", cr |-> cr, to |-> to]
CompareCr(cr, n) == [op |-> "compare cr", cr |-> cr, n |-> n]  \* unless at stage n
ToggleCrs == [op |-> "toggle crs"]
WriteCr(cr, flip) == [op |-> "write cr", cr |-> cr, flip |-> flip]
Trap(ports) == [op |-> "trap", ports |-> ports]
NoTraps == [op |-> "no traps"]
In(port, size) == [op |-> "io", in |-> TRUE, port |-> port, size |-> size]
Out(port, size) == [op |-> "io", in |-> FALSE, port |-> port, size |-> size]
CurInsn(i) == [op |-> "cur_insn", i |-> i]
Insn == [op |-> "insn"]
WriteReg(v) == [op |-> "write reg", v |-> v]
Expect(v) == [op |-> "expect", v |-> v]     \* report a failure and return
CheckReg(v) == [op |-> "check reg", v |-> v]

CrShadowingMain == <<
    SetStage(0), ReadCr(0, "guest_cr"), VmcallUnless(1),
    SetStage(1), ReadCr(4, "guest_cr"), VmcallUnless(2),
    ToggleCrs,
    SetStage(2), WriteCr(0, {}), VmcallUnless(3),
    SetStage(3), WriteCr(4, {}), VmcallUnless(4),
    SetStage(4), Vmcall, ReadCr(0, "tmp"), CompareCr(0, 5),
    SetStage(5), ReadCr(4, "tmp"), CompareCr(4, 6),
    SetStage(6), WriteCr(0, {}), VmcallUnless(7),
    SetStage(7), WriteCr(4, {}), VmcallUnless(8),
    SetStage(8), WriteCr(0, {"TS"}), ReportStage(9),
    SetStage(9), WriteCr(0, {"MP"}), ReportStage(10),
    SetStage(10), WriteCr(4, {"TSD"}), ReportStage(11),
    SetStage(11), WriteCr(4, {"DE"}), ReportStage(12)>>

\* The ports 0x4FFF, 0x5000, 0x9000 and 0xFFFF.
Port4FFF == 20479
Port5000 == 20480
Port9000 == 36864
PortFFFF == 65535

\* Mutant: the port whose bit is set is the first of the four.
IobmpMain_Partial == <<
    SetStage(0), In(Port5000, 1), Out(Port5000, 1), ReportStage(0),
    Trap(0..7), SetStage(2), In(0, 1), ReportStage(3),
    SetStage(3), Out(0, 2), ReportStage(4),
    SetStage(4), In(0, 4), ReportStage(5),
    SetStage(5), Trap({Port5000}), In(Port5000, 1), ReportStage(6),
    SetStage(6), Trap({Port9000}), In(Port9000, 1), ReportStage(7),
    SetStage(7), Trap({Port4FFF}), In(Port4FFF, 4), ReportStage(8),
    SetStage(8), NoTraps, In(PortFFFF, 4), ReportStage(9),
    SetStage(9), Vmcall, Out(0, 1), ReportStage(9),
    SetStage(10), Vmcall, Out(0, 1), ReportStage(11)>>

IobmpMain == <<
    SetStage(0), In(Port5000, 1), Out(Port5000, 1), ReportStage(0),
    Trap(0..7), SetStage(2), In(0, 1), ReportStage(3),
    SetStage(3), Out(0, 2), ReportStage(4),
    SetStage(4), In(0, 4), ReportStage(5),
    SetStage(5), Trap({Port5000}), In(Port5000, 1), ReportStage(6),
    SetStage(6), Trap({Port9000}), In(Port9000, 1), ReportStage(7),
    SetStage(7), In(Port4FFF, 4), ReportStage(8),
    SetStage(8), NoTraps, In(PortFFFF, 4), ReportStage(9),
    SetStage(9), Vmcall, Out(0, 1), ReportStage(9),
    SetStage(10), Vmcall, Out(0, 1), ReportStage(11)>>

\* insn_table.  A row whose qualification is not tested has 0.
Row(flag, type, reason, qual) == [flag |-> flag, type |-> type, reason |-> reason, qual |-> qual]
Cpu0(flag, reason, qual) == Row(flag, "cpu0", reason, qual)
Cpu1(flag, reason) == Row(flag, "cpu1", reason, 0)
insn_table == <<
    Cpu0("HLT", 12, 0), Cpu0("INVLPG", 14, 305419896), Cpu0("MWAIT", 36, 0),
    Cpu0("RDPMC", 15, 0), Cpu0("RDTSC", 16, 0), Cpu0("CR3_LOAD", 28, 3),
    Cpu0("CR3_STORE", 28, 19), Cpu0("CR8_LOAD", 28, 8), Cpu0("CR8_STORE", 28, 24),
    Cpu0("MONITOR", 39, 0), Cpu0("PAUSE", 40, 0), Cpu1("WBINVD", 54),
    Cpu1("DESC_TABLE", 46), Cpu1("DESC_TABLE", 46), Cpu1("DESC_TABLE", 46),
    Cpu1("DESC_TABLE", 46), Cpu1("DESC_TABLE", 47), Cpu1("DESC_TABLE", 47),
    Cpu1("DESC_TABLE", 47), Cpu1("RDRAND", 57), Cpu1("RDSEED", 61),
    Row("none", "always", 10, 0), Row("none", "always", 13, 0)>>

\* The body of insn_intercept_main's loop for row i, which is 2 * (i - 1) as
\* a stage.
InsnRow(m, i) ==
    LET row == insn_table[i]
        n == 2 * (i - 1)
        never == row.type # "always" /\ row.flag \notin m.clr
        optional == row.type # "always" /\ row.flag \notin m.set
        execute == (IF row.flag = "HLT" THEN <<>> ELSE <<Insn>>) \o <<ReportStage(n)>>
    IN <<CurInsn(i), SetStage(n)>>
       \o IF never THEN <<>>
          ELSE (IF optional THEN execute ELSE <<>>)
               \o <<Vmcall, Insn, ReportStage(n + 1), SetStage(n + 1), Vmcall>>

InsnInterceptMain(m) == FlattenSeq([i \in DOMAIN insn_table |-> InsnRow(m, i)])

\* The registers' values: "ia32" is what the host has, "flip" the same with
\* EFER.NX changed; numbers are the ones of the code.
TestCtrlPatMain == <<Expect("0"), WriteReg("6"), Vmcall, CheckReg("ia32")>>
TestCtrlEferMain == <<Expect("flip"), WriteReg("ia32"), Vmcall, CheckReg("ia32")>>

DbgctlsMain(m) ==
    <<CheckReg("404"), WriteReg("408"), SetStage(0), Vmcall, ReportStage(1)>>
    \o IF m.set # {} THEN <<>>
       ELSE <<SetStage(2), Vmcall, CheckReg("402"),
              WriteReg("408"), SetStage(3), Vmcall, ReportStage(4)>>

VpidMain == <<
    SetStage(0), Vmcall, ReportStage(1), SetStage(2), Vmcall, ReportStage(3),
    SetStage(4), Vmcall, ReportStage(5)>>

\* Whether vpid_init starts the test.
VpidInit(m) == {"secondary", "VPID"} \subseteq m.clr

\* A test of PAT whose init finds none of its controls does not start,
\* and neither does one of VPID without VPID.
Main(m) ==
    CASE m.test = "PAT" -> IF m.clr = {} THEN <<>> ELSE TestCtrlPatMain
      [] m.test = "EFER" -> TestCtrlEferMain
      [] m.test = "CR shadowing" -> CrShadowingMain
      [] m.test = "I/O bitmap" -> IobmpMain
      [] m.test = "instruction intercept" -> InsnInterceptMain(m)
      [] m.test = "debug controls" -> DbgctlsMain(m)
      [] m.test = "VPID" -> IF VpidInit(m) THEN VpidMain ELSE <<>>

-----------------------------------------------------------------------------
(* The init functions. *)

InitialControls(m) ==
    CASE m.test \in {"PAT", "EFER"} -> m.clr
      [] m.test = "I/O bitmap" -> {"bitmap"}
      [] m.test = "instruction intercept" -> m.set \cup ({"secondary"} \cap m.clr)
      [] m.test = "debug controls" -> {"load", "save", "hload"}
      [] OTHER -> {}

\* dbgctls_init.  VM exits set DR7 to 0x400 whatever the host had.
DbgctlsInitReg == <<"404", "400", "402">>

\* The fields for the guest and for the host, and what the host has.
InitialReg(m) ==
    CASE m.test = "EFER" -> <<"flip", "flip", "ia32">>
      [] m.test = "debug controls" -> DbgctlsInitReg
      [] OTHER -> <<"0", "ia32", "ia32">>

\* VM entry, for the register.
Loaded(m, v, reg) ==
    IF ("load" \in v.ctl /\ m.defect # "no load") \/ m.defect = "always loads"
    THEN v.guest ELSE reg

Init ==
    /\ machine \in Machines /\ main = Main(machine)
    /\ at = 1 /\ stage = 0 /\ exit = None /\ failed = FALSE
    /\ vmcs = [ctl |-> InitialControls(machine), mask |-> [c \in Crs |-> {}],
               shadow |-> [c \in Crs |-> {}],
               guest |-> InitialReg(machine)[1], host |-> InitialReg(machine)[2]]
    /\ \E cr0 \in SUBSET Bits[0], cr4 \in SUBSET Bits[4] :
           /\ machine.test # "CR shadowing" => cr0 = {} /\ cr4 = {}
           /\ cpu = [cr |-> (0 :> cr0 \cup {"PE"}) @@ (4 :> cr4 \cup {"PAE"}),
                     reg |-> Loaded(machine, vmcs, InitialReg(machine)[3])]
    /\ mem = [guest_cr |-> [c \in Crs |-> {}], tmp |-> {}, bitmap |-> {}, cur_insn |-> 1]

-----------------------------------------------------------------------------
(* The guest. *)

Running == exit = None /\ at <= Len(main)
Op == main[at]
Do(op) == Running /\ Op.op = op
Continue == at' = at + 1 /\ UNCHANGED <<machine, main, exit>>
Finish == at' = Len(main) + 1

Report(ok) == failed' = (failed \/ ~ok)

\* VM exit, for the register.
VmExit(reason, qual) ==
    /\ exit' = [reason |-> reason, qual |-> qual]
    /\ vmcs' = IF \/ "save" \in vmcs.ctl /\ machine.defect # "no save"
                  \/ machine.defect = "always saves"
               THEN [vmcs EXCEPT !.guest = cpu.reg] ELSE vmcs
    /\ cpu' = IF "hload" \in vmcs.ctl /\ machine.defect # "no host load"
              THEN [cpu EXCEPT !.reg = vmcs.host] ELSE cpu
    /\ UNCHANGED <<machine, main, at, stage, mem, failed>>

GuestSetStage ==
    /\ Do("stage") /\ stage' = Op.n
    /\ Continue /\ UNCHANGED <<vmcs, cpu, mem, failed>>

GuestReportStage ==
    /\ Do("report stage") /\ Report(stage = Op.n)
    /\ Continue /\ UNCHANGED <<stage, vmcs, cpu, mem>>

VmcallReason == IF machine.defect = "other exit" THEN Other ELSE VMX_VMCALL

GuestVmcall ==
    \/ Do("vmcall") /\ VmExit(VmcallReason, 0)
    \/ Do("vmcall unless") /\ stage # Op.n /\ VmExit(VmcallReason, 0)
    \/ /\ Do("vmcall unless") /\ stage = Op.n
       /\ Report(FALSE) /\ Continue /\ UNCHANGED <<stage, vmcs, cpu, mem>>

\* What the processor reads: the shadow where the mask is set.
CrRead(cr) ==
    IF machine.defect = "no shadow" THEN cpu.cr[cr]
    ELSE (cpu.cr[cr] \ vmcs.mask[cr]) \cup (vmcs.shadow[cr] \cap vmcs.mask[cr])

GuestReadCr ==
    /\ Do("read cr")
    /\ \/ /\ machine.defect = "reads exit" /\ vmcs.mask[Op.cr] # {}
          /\ VmExit(VMX_CR, <<"from", Op.cr>>)
       \/ /\ ~(machine.defect = "reads exit" /\ vmcs.mask[Op.cr] # {})
          /\ mem' = IF Op.to = "tmp" THEN [mem EXCEPT !.tmp = CrRead(Op.cr)]
                    ELSE [mem EXCEPT !.guest_cr[Op.cr] = CrRead(Op.cr)]
          /\ Continue /\ UNCHANGED <<stage, vmcs, cpu, failed>>

GuestCompareCr ==
    /\ Do("compare cr") /\ Report(stage # Op.n => mem.tmp = mem.guest_cr[Op.cr])
    /\ Continue /\ UNCHANGED <<stage, vmcs, cpu, mem>>

GuestToggleCrs ==
    /\ Do("toggle crs")
    /\ mem' = [mem EXCEPT !.guest_cr = [c \in Crs |-> Xor(@[c], Bits[c])]]
    /\ Continue /\ UNCHANGED <<stage, vmcs, cpu, failed>>

\* A write exits if it changes a bit of the shadow that is in the mask.
CrExits(cr, value) ==
    LET differ == Xor(value, vmcs.shadow[cr]) \cap vmcs.mask[cr]
    IN CASE machine.defect = "writes exit" -> vmcs.mask[cr] # {}
         [] machine.defect = "compares register" -> Xor(value, cpu.cr[cr]) \cap vmcs.mask[cr] # {}
         [] machine.defect = "one bit" -> differ \cap {"TS", "TSD"} # {}
         [] OTHER -> differ # {}

GuestWriteCr ==
    /\ Do("write cr")
    /\ LET value == Xor(mem.guest_cr[Op.cr], Op.flip)
           mask == IF machine.defect = "no mask" THEN {} ELSE vmcs.mask[Op.cr]
       IN \/ CrExits(Op.cr, value) /\ VmExit(VMX_CR, <<"to", Op.cr>>)
          \/ /\ ~CrExits(Op.cr, value)
             /\ cpu' = [cpu EXCEPT !.cr[Op.cr] = (@ \cap mask) \cup (value \ mask)]
             /\ Continue /\ UNCHANGED <<stage, vmcs, mem, failed>>

GuestBitmap ==
    /\ \/ Do("trap") /\ mem' = [mem EXCEPT !.bitmap = @ \cup Op.ports]
       \/ Do("no traps") /\ mem' = [mem EXCEPT !.bitmap = {}]
    /\ Continue /\ UNCHANGED <<stage, vmcs, cpu, failed>>

\* I/O exits by the bitmap, if that is in use, and else by the control "io".
\* An access that wraps around the port space exits.
IoExits(port, size) ==
    LET defect == machine.defect
        ports == IF defect = "first port" THEN {port} ELSE port..(port + size - 1)
        bitmap == IF defect = "one bitmap" THEN mem.bitmap \cap 0..32767 ELSE mem.bitmap
    IN IF "bitmap" \in vmcs.ctl /\ ~(defect = "unconditional first" /\ "io" \in vmcs.ctl)
       THEN ports \cap bitmap # {} \/ (defect # "no overrun" /\ port + size - 1 > PortFFFF)
       ELSE "io" \in vmcs.ctl /\ defect # "never unconditional"

GuestIo ==
    /\ Do("io")
    /\ \/ /\ IoExits(Op.port, Op.size)
          /\ VmExit(VMX_IO, [port |-> Op.port, in |-> Op.in,
                           size |-> IF machine.defect = "width" THEN 1 ELSE Op.size])
       \/ /\ ~IoExits(Op.port, Op.size)
          /\ Continue /\ UNCHANGED <<stage, vmcs, cpu, mem, failed>>

GuestCurInsn ==
    /\ Do("cur_insn") /\ mem' = [mem EXCEPT !.cur_insn = Op.i]
    /\ Continue /\ UNCHANGED <<stage, vmcs, cpu, failed>>

Cur == insn_table[mem.cur_insn]
Wrong(defect) == machine.defect = defect /\ machine.insn = Cur.flag

\* An instruction exits if it always does or if its control is set; the
\* secondary controls count only if they are in use.
InsnExits ==
    \/ Cur.type = "always"
    \/ /\ Cur.flag \in vmcs.ctl /\ (Cur.type = "cpu1" => "secondary" \in vmcs.ctl)
       /\ ~Wrong("ignored")
    \/ Wrong("forced")

\* A hlt that does not exit stalls the guest.
GuestInsn ==
    /\ Do("insn")
    /\ \/ /\ InsnExits
          /\ VmExit(IF Wrong("reason") THEN 0 ELSE Cur.reason,
                    IF Wrong("qualification") THEN 1 ELSE Cur.qual)
       \/ /\ ~InsnExits /\ Cur.flag # "HLT"
          /\ Continue /\ UNCHANGED <<stage, vmcs, cpu, mem, failed>>

GuestWriteReg ==
    /\ Do("write reg") /\ cpu' = [cpu EXCEPT !.reg = Op.v]
    /\ Continue /\ UNCHANGED <<stage, vmcs, mem, failed>>

\* The tests of PAT and EFER look only if entries load the register.
Looks == machine.test \in {"PAT", "EFER"} => "load" \in machine.clr

GuestExpect ==
    /\ Do("expect")
    /\ \/ Looks /\ cpu.reg # Op.v /\ Report(FALSE) /\ Finish /\ UNCHANGED <<machine, main, exit>>
       \/ ~(Looks /\ cpu.reg # Op.v) /\ Continue /\ UNCHANGED failed
    /\ UNCHANGED <<stage, vmcs, cpu, mem>>

GuestCheckReg ==
    /\ Do("check reg") /\ Report(Looks => cpu.reg = Op.v)
    /\ Continue /\ UNCHANGED <<stage, vmcs, cpu, mem>>

-----------------------------------------------------------------------------
(* The exit handlers. *)

Handling(test) == exit # None /\ machine.test = test

\* VMX_TEST_RESUME: the instruction is skipped, and the guest entered with v.
Resume(v, reg) ==
    /\ vmcs' = v /\ cpu' = [cpu EXCEPT !.reg = Loaded(machine, v, reg)]
    /\ exit' = None /\ at' = at + 1 /\ UNCHANGED <<machine, main>>

\* VMX_TEST_VMEXIT.
EndGuest == exit' = None /\ Finish /\ UNCHANGED <<machine, main, stage, vmcs, cpu, mem>>

TestCtrlPatExitHandler ==
    /\ Handling("PAT") /\ exit.reason = VMX_VMCALL
    /\ Report(/\ "save" \in machine.clr => vmcs.guest = "6"
              /\ "hload" \in machine.clr => cpu.reg = "ia32")
    /\ Resume([vmcs EXCEPT !.guest = "ia32"], cpu.reg)
    /\ UNCHANGED <<stage, mem>>

\* GUEST_PAT, which the handler writes at last, has no effect.
TestCtrlEferExitHandler ==
    /\ Handling("EFER") /\ exit.reason = VMX_VMCALL
    /\ Report(/\ "save" \in machine.clr => vmcs.guest = "ia32"
              /\ "hload" \in machine.clr => cpu.reg = "flip")
    /\ Resume(IF "save" \in machine.clr THEN vmcs ELSE [vmcs EXCEPT !.guest = "ia32"],
              IF "hload" \in machine.clr THEN cpu.reg ELSE "flip")
    /\ UNCHANGED <<stage, mem>>

\* Stages for CR0 and CR4 alternate.
StageCr == IF stage % 2 = 0 THEN 0 ELSE 4

CrShadowingVmcall ==
    /\ Handling("CR shadowing") /\ exit.reason = VMX_VMCALL
    /\ \/ /\ stage \in 0..3 /\ Report(mem.guest_cr[StageCr] = cpu.cr[StageCr])
          /\ Resume(vmcs, cpu.reg) /\ UNCHANGED <<stage, mem>>
       \/ /\ stage = 4
          /\ LET other == [c \in Crs |-> Xor(cpu.cr[c], Bits[c])]
             IN /\ mem' = [mem EXCEPT !.guest_cr = other]
                /\ Resume([vmcs EXCEPT !.mask = Bits,
                                       !.shadow = [c \in Crs |-> other[c] \cap Bits[c]]], cpu.reg)
          /\ UNCHANGED <<stage, failed>>
       \/ /\ stage \in 6..7
          /\ Report(mem.guest_cr[StageCr] = Xor(cpu.cr[StageCr], Bits[StageCr]))
          /\ Resume(vmcs, cpu.reg) /\ UNCHANGED <<stage, mem>>
       \/ stage \notin (0..7) \ {5} /\ Report(FALSE) /\ EndGuest

CrShadowingCr ==
    /\ Handling("CR shadowing") /\ exit.reason = VMX_CR
    /\ \/ stage \in 4..7 /\ Report(FALSE) /\ stage' = stage + 1 /\ Resume(vmcs, cpu.reg) /\ UNCHANGED mem
       \/ /\ stage \in 8..11
          /\ stage' = IF exit.qual = <<"to", IF stage \in 8..9 THEN 0 ELSE 4>> THEN stage + 1 ELSE stage
          /\ Resume(vmcs, cpu.reg) /\ UNCHANGED <<mem, failed>>
       \/ stage \notin 4..11 /\ Report(FALSE) /\ EndGuest

\* The port that the handler waits for at stages 5 to 8.
StagePort == [n \in 5..8 |-> <<Port5000, Port9000, Port4FFF, PortFFFF>>[n - 4]]

IobmpIo ==
    /\ Handling("I/O bitmap") /\ exit.reason = VMX_IO
    /\ \/ /\ stage \in 0..10
          /\ Report(CASE stage = 2 -> exit.qual.size = 1 /\ exit.qual.in
                      [] stage = 3 -> exit.qual.size = 2 /\ ~exit.qual.in
                      [] stage = 4 -> exit.qual.size = 4
                      [] OTHER -> TRUE)
          /\ stage' = IF stage \in 5..8 /\ exit.qual.port # StagePort[stage] THEN stage ELSE stage + 1
          /\ Resume(IF stage \in 9..10 THEN [vmcs EXCEPT !.ctl = @ \ {"io"}] ELSE vmcs, cpu.reg)
          /\ UNCHANGED mem
       \/ stage > 10 /\ Report(FALSE) /\ EndGuest

IobmpVmcall ==
    /\ Handling("I/O bitmap") /\ exit.reason = VMX_VMCALL
    /\ \/ stage = 9 /\ Resume([vmcs EXCEPT !.ctl = @ \cup {"io", "bitmap"}], cpu.reg) /\ UNCHANGED <<stage, mem, failed>>
       \/ stage = 10 /\ Resume([vmcs EXCEPT !.ctl = (@ \ {"bitmap"}) \cup {"io"}], cpu.reg) /\ UNCHANGED <<stage, mem, failed>>
       \/ stage \notin 9..10 /\ Report(FALSE) /\ EndGuest

InsnInterceptExitHandler ==
    /\ Handling("instruction intercept")
    /\ LET ctl == IF stage % 2 = 1 THEN vmcs.ctl \ {Cur.flag} ELSE vmcs.ctl \cup {Cur.flag}
           pass == /\ stage = 2 * (mem.cur_insn - 1) /\ exit.reason = Cur.reason
                   /\ Cur.qual # 0 => exit.qual = Cur.qual
       IN \/ /\ exit.reason = VMX_VMCALL
             /\ Resume(IF Cur.type = "always" THEN vmcs
                       ELSE [vmcs EXCEPT !.ctl = ctl \cup machine.set], cpu.reg)
             /\ UNCHANGED stage
          \/ /\ exit.reason # VMX_VMCALL
             /\ stage' = IF pass THEN stage + 1 ELSE stage
             /\ Resume(vmcs, cpu.reg)
    /\ UNCHANGED <<mem, failed>>

DbgctlsExitHandler ==
    /\ Handling("debug controls") /\ exit.reason = VMX_VMCALL
    /\ LET saved(v) == cpu.reg = "400" /\ vmcs.guest = v
       IN \/ /\ stage \in {0, 3}
             /\ stage' = IF saved(IF stage = 0 THEN "408" ELSE "404") THEN stage + 1 ELSE stage
             /\ Resume(vmcs, cpu.reg)
          \/ /\ stage = 2
             /\ Resume([vmcs EXCEPT !.guest = "404", !.ctl = {"hload"}], "402")
             /\ UNCHANGED stage
          \/ stage \notin {0, 2, 3} /\ Resume(vmcs, cpu.reg) /\ UNCHANGED stage
    /\ UNCHANGED <<mem, failed>>

\* The type of INVVPID at stages 0, 2 and 4: a single address, a context and
\* all.  The processor should take the types that it lists.
StageType == (0 :> "ADDR") @@ (2 :> "CONTEXT") @@ (4 :> "ALL")
Invvpid(type) ==
    IF machine.insn = type THEN machine.defect = "accepted" ELSE type \in machine.clr

\* invvpid_test, which returns false if all is well.
InvvpidTest(type) == ~(Invvpid(type) <=> type \in machine.clr)

VpidExitHandler ==
    /\ Handling("VPID") /\ exit.reason = VMX_VMCALL
    /\ \/ /\ stage \in DOMAIN StageType
          /\ stage' = IF InvvpidTest(StageType[stage]) THEN stage ELSE stage + 1
          /\ Resume(vmcs, cpu.reg) /\ UNCHANGED <<mem, failed>>
       \/ stage \notin DOMAIN StageType /\ Report(FALSE) /\ EndGuest

\* The default of the handlers, for a reason that they do not know: those of
\* PAT, EFER and the I/O bitmap print an error without a report.  The handler
\* of the instruction intercept has none.
UnknownExitReason ==
    /\ exit.reason = Other /\ machine.test # "instruction intercept"
    /\ Report(machine.test \in {"PAT", "EFER", "I/O bitmap"}) /\ EndGuest

Next ==
    \/ GuestSetStage \/ GuestReportStage \/ GuestVmcall
    \/ GuestReadCr \/ GuestCompareCr \/ GuestToggleCrs \/ GuestWriteCr
    \/ GuestBitmap \/ GuestIo \/ GuestCurInsn \/ GuestInsn
    \/ GuestWriteReg \/ GuestExpect \/ GuestCheckReg
    \/ TestCtrlPatExitHandler \/ TestCtrlEferExitHandler
    \/ CrShadowingVmcall \/ CrShadowingCr \/ IobmpIo \/ IobmpVmcall
    \/ InsnInterceptExitHandler \/ DbgctlsExitHandler \/ VpidExitHandler
    \/ UnknownExitReason

Spec == Init /\ [][Next]_vars

-----------------------------------------------------------------------------
(* Properties. *)

\* A guest that has run to its end, or that its handler has ended, has
\* reported no failure on a right processor, and a failure on each of the
\* defective ones: at every stage the handler knows which of the guest's
\* instructions has exited, and what it changes for one check (masks,
\* bitmaps, controls, fields) does not spoil the next.
StagesVerdict ==
    exit = None /\ at > Len(main) => (failed <=> machine.defect # "none")
=============================================================================
