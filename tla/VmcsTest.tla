------------------------------ MODULE VmcsTest ------------------------------
(***************************************************************************)
(* The tests of x86/vmx.c that need no guest, in the order of main: how    *)
(* VMX is enabled and what VMXON, VMPTRLD and VMCLEAR refuse; what VMCLEAR *)
(* writes back, and that each VMCS keeps its own contents while others     *)
(* become current and are cleared.                                         *)
(*                                                                         *)
(* A test is a straight line of VMX instructions and checks, written as a  *)
(* sequence of operations.  The processor is external: it may hold the     *)
(* contents of an active VMCS in a cache of its own, and it may have one   *)
(* of the defects that the tests look for.                                 *)
(***************************************************************************)
EXTENDS Naturals, Sequences

CONSTANTS Defects   \* those of the processors under test; "none" is one

\* Regions of memory that a test allocates; those of test_vmptrld and
\* test_vmptrst, 3 and 4, are never freed.
Region == 0..4
\* What all the fields of a VMCS hold: the cookie of set_all_vmcs_fields, or
\* Zero from memset.
Zero == 0
None == 1000

VARIABLES
    defect,     \* of this processor
    bios,       \* MSR_IA32_FEATURE_CONTROL at the start: "clear", "locked" with
                \* VMX enabled, or "locked out"
    feature_control,
    wanted,     \* test_wanted for the tests of FEATURE_CONTROL and VMXON
    prog,       \* the tests that are still to run, the current one first
    at,         \* the operation of the current test that is next
    memory,     \* contents of each region in memory
    cache,      \* contents of an active VMCS in the processor, or "none"
    current,    \* the current VMCS
    failed      \* whether a report or an assertion failed

vars == <<defect, bios, feature_control, wanted, prog, at, memory, cache, current, failed>>

Clear(i) == [op |-> "vmclear", i |-> i]
Load(i) == [op |-> "vmptrld", i |-> i]
Set(cookie) == [op |-> "set", i |-> cookie]
Check(cookie) == [op |-> "check", i |-> cookie]
Copy(from, to) == [op |-> "memcpy", i |-> from, to |-> to]
Free(i) == [op |-> "free", i |-> i]
Wrmsr(v) == [op |-> "wrmsr", i |-> v]
\* An instruction with an operand that it must refuse, or must not.
Refuse(insn) == [op |-> "refuse", i |-> insn]
Accept(insn) == [op |-> "accept", i |-> insn]
\* Something else that a report looks at.
Report(what) == [op |-> "report", i |-> what]
Exit == [op |-> "exit", i |-> 0]

TestVmxFeatureControl ==
    CASE bios = "locked" -> <<>>
      [] bios = "locked out" -> <<Exit>>
      [] OTHER -> <<Wrmsr("clear"), Report("vmxon when clear"), Wrmsr("no lock"), Report("vmxon unlocked"),
                    Wrmsr("locked"), Report("enabled"), Report("lock bit")>>

TestVmxon == <<Refuse("vmxon unaligned"), Refuse("vmxon wide"), Refuse("vmxon revision"), Accept("vmxon")>>

TestVmptrld == <<Refuse("vmptrld unaligned"), Refuse("vmptrld wide"), Load(3), Refuse("vmptrld vmxon"),
                 Report("vmptrld error"), Load(3)>>

TestVmclear == <<Refuse("vmclear unaligned"), Refuse("vmclear wide"), Refuse("vmclear vmxon"),
                 Accept("vmclear")>>

TestVmptrst == <<Clear(4), Load(4), Report("vmptrst")>>

TestVmcsHigh == <<Clear(0), Load(0), Report("high half"), Clear(0), Free(0)>>

TestVmclearFlushing == <<
    Clear(0), Load(0), Set(86), Clear(0), Copy(0, 1), Load(1), Check(86),
    Set(87), Load(0), Clear(1), Copy(1, 2), Load(2), Check(87),
    Clear(0), Free(0), Clear(1), Free(1), Clear(2), Free(2)>>

TestVmwriteVmread == <<Clear(0), Load(0), Set(42), Check(42), Clear(0), Free(0)>>

\* Mutant: no VMCS is loaded again while it is active.
TestVmcsLifecycle_NoReload == <<
    Clear(0), Load(0), Set(100), Check(100), Clear(0), Load(0), Check(100),
    Clear(1), Check(100), Load(1), Set(101), Check(101),
    Clear(0), Check(101), Set(102), Check(102),
    Clear(0), Free(0), Clear(1), Free(1)>>

\* The cookies 0 to 2 of the code are 100 to 102 here.
TestVmcsLifecycle == <<
    Clear(0), Load(0), Set(100), Check(100), Clear(0), Load(0), Check(100),
    Clear(1), Check(100), Load(1), Set(101), Check(101),
    Load(0), Check(100), Load(1), Check(101), Load(1), Check(101),
    Clear(0), Check(101), Set(102), Load(1), Check(102),
    Clear(0), Free(0), Clear(1), Free(1)>>

\* What is left of the test that runs.
Op == Head(prog)[at]
Do(op) == prog # <<>> /\ at <= Len(Head(prog)) /\ Op.op = op
Machine == <<defect, bios, wanted>>
Forward == at' = at + 1 /\ UNCHANGED <<Machine, feature_control, prog>>

\* main: when they are not wanted, VMX is enabled without the first tests.
Main ==
    (IF wanted THEN <<TestVmxFeatureControl, TestVmxon>>
     ELSE <<IF bios = "locked" THEN <<>> ELSE <<Wrmsr("locked")>>, <<Accept("vmxon")>> >>)
    \o <<TestVmptrld, TestVmclear \o TestVmclearFlushing, TestVmptrst, TestVmwriteVmread, TestVmcsHigh,
         TestVmcsLifecycle>>

Init ==
    /\ defect \in Defects /\ wanted \in BOOLEAN
    /\ bios \in {"clear", "locked", "locked out"} /\ feature_control = bios
    /\ prog = Main /\ at = 1
    /\ memory = [r \in Region |-> Zero]
    /\ cache = [r \in Region |-> None]
    /\ current = None /\ failed = FALSE

-----------------------------------------------------------------------------
(* The processor. *)

\* VMCLEAR: the contents are in memory afterwards, and the VMCS is neither
\* active nor current.
WritesBack(i) ==
    /\ cache[i] # None
    /\ defect # (IF current = i THEN "no flush" ELSE "no flush of others")

Vmclear ==
    /\ Do("vmclear")
    /\ memory' = IF WritesBack(Op.i) THEN [memory EXCEPT ![Op.i] = cache[Op.i]] ELSE memory
    /\ cache' = [cache EXCEPT ![Op.i] = None]
    /\ current' = IF current = Op.i \/ defect = "clears current" THEN None ELSE current
    /\ Forward /\ UNCHANGED failed

\* VMPTRLD: the VMCS becomes active, and current.
Vmptrld ==
    /\ Do("vmptrld")
    /\ cache' = [r \in Region |->
           IF r = Op.i /\ (cache[r] = None \/ defect = "loads again") THEN memory[r]
           ELSE IF r # Op.i /\ defect = "one cache" THEN None ELSE cache[r]]
    /\ current' = Op.i
    /\ Forward /\ UNCHANGED <<memory, failed>>

\* VMWRITE goes to the current VMCS.
SetAllVmcsFields ==
    /\ Do("set")
    /\ cache' = [r \in Region |->
           IF r = current \/ (defect = "writes all" /\ cache[r] # None) THEN Op.i ELSE cache[r]]
    /\ Forward /\ UNCHANGED <<memory, current, failed>>

-----------------------------------------------------------------------------
(* The rest of the program. *)

\* The program ends, or main goes to exit.
Stop == prog' = <<>> /\ UNCHANGED <<Machine, feature_control, at>>

\* Nobody catches the exception of a write to the locked register.
WriteFeatureControl ==
    LET locked == feature_control \in {"locked", "locked out"} IN
    /\ Do("wrmsr")
    /\ IF locked THEN Stop
       ELSE /\ feature_control' = IF Op.i = "locked" /\ defect = "enabled" THEN "clear" ELSE Op.i
            /\ at' = at + 1 /\ UNCHANGED <<Machine, prog>>
    /\ failed' = (failed \/ locked)
    /\ UNCHANGED <<memory, cache, current>>

\* An operand that VMXON should have refused, or VMXON that fails, ends the
\* tests; where VMX is not enabled, VMXON raises an exception.
Vmxons == {"vmxon unaligned", "vmxon wide", "vmxon revision", "vmxon"}
Operand ==
    LET wrong == defect = Op.i \/ (Op.i \in Vmxons /\ feature_control # "locked") IN
    /\ Do("refuse") \/ Do("accept")
    /\ failed' = (failed \/ wrong)
    /\ IF wrong /\ Op.i \in Vmxons THEN Stop ELSE Forward
    /\ UNCHANGED <<memory, cache, current>>

\* test_vmx_feature_control returns !vmx_enabled.
ReportStep ==
    LET wrong == \/ defect = Op.i
                 \/ Op.i = "enabled" /\ feature_control # "locked"
                 \/ Op.i = "vmptrst" /\ current # 4
    IN  /\ Do("report")
        /\ failed' = (failed \/ wrong)
        /\ IF Op.i = "lock bit" /\ feature_control # "locked" THEN Stop ELSE Forward
        /\ UNCHANGED <<memory, cache, current>>

GotoExit == Do("exit") /\ Stop /\ UNCHANGED <<memory, cache, current, failed>>

\* check_all_vmcs_fields: a VMREAD without a current VMCS fails the
\* assertion of check_vmcs_field, which ends the program.
CheckAllVmcsFields ==
    /\ Do("check")
    /\ failed' = (failed \/ current = None \/ cache[current] # Op.i)
    /\ IF current = None THEN Stop ELSE Forward
    /\ UNCHANGED <<memory, cache, current>>

Memcpy ==
    /\ Do("memcpy")
    /\ memory' = [memory EXCEPT ![Op.to] = memory[Op.i]]
    /\ Forward /\ UNCHANGED <<cache, current, failed>>

FreePage == Do("free") /\ Forward /\ UNCHANGED <<memory, cache, current, failed>>

\* The pages of the next test are the ones that were freed, set to zero.
NextTest ==
    /\ prog # <<>> /\ at > Len(Head(prog))
    /\ prog' = Tail(prog) /\ at' = 1
    /\ memory' = [r \in Region |-> IF r < 3 THEN Zero ELSE memory[r]]
    /\ UNCHANGED <<Machine, feature_control, cache, current, failed>>

Next ==
    \/ Vmclear \/ Vmptrld \/ SetAllVmcsFields
    \/ WriteFeatureControl \/ Operand \/ ReportStep \/ GotoExit \/ CheckAllVmcsFields \/ Memcpy \/ FreePage \/ NextTest

Spec == Init /\ [][Next]_vars

-----------------------------------------------------------------------------
(* Properties. *)

\* "VMCLEAR should ensures all VMCS state is flushed to the VMCS region in
\* memory", "VMPTRLD should not erase VMWRITEs to the current VMCS"
\* (x86/vmx.c:622,427): a processor that keeps every VMCS passes, and one
\* with any of the defects fails, because of the order in which the tests
\* load, write, clear and check.  A machine that the BIOS has locked out ends
\* without a failure, or with an exception when VMX is enabled untested.
VmcsVerdict ==
    LET untested == {"vmxon when clear", "vmxon unlocked", "enabled", "lock bit"}
        shows == IF bios = "locked out" THEN ~wanted
                 ELSE IF defect = "enabled" THEN bios = "clear"
                 ELSE IF defect \in untested THEN wanted /\ bios = "clear"
                 ELSE IF defect \in {"vmxon unaligned", "vmxon wide", "vmxon revision"} THEN wanted
                 ELSE defect # "none"
    IN  prog = <<>> => (failed <=> shows)
=============================================================================
