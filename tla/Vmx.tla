--------------------------------- MODULE Vmx ---------------------------------
(***************************************************************************)
(* The framework of the VMX tests: main, test_run, vmx_run and enter_guest *)
(* of x86/vmx.c.  A program that is at once a hypervisor and, between a VM *)
(* entry and a VM exit, its own guest runs a list of tests; each of them   *)
(* may enter the guest many times, fail, skip or abort, on either side.    *)
(*                                                                         *)
(* What a test does is its own choice, within the interface: the body of   *)
(* a V2 test, the init and exit handlers of a V1 test and the guest code   *)
(* are the alternatives of the actions below.  The processor is external:  *)
(* VMX operation, the launch state of the current VMCS, the exit reason.   *)
(***************************************************************************)
EXTENDS Naturals, Sequences

CONSTANTS
    Tests,       \* vmx_tests: [v2, init, onfail], see Test
    MaxTeardown, \* MAX_TEST_TEARDOWN_STEPS
    Faults,      \* what may fail: "early" or "late" VM entries, "vmxon", "vmxoff"
    MaxSteps     \* bound: what a test does on either side

\* struct vmx_test: whether it has the V2 interface, what its init may
\* return ({} if it has none), whether it has an entry_failure_handler.
Test == [v2 : BOOLEAN, init : SUBSET {"start", "exit"}, onfail : BOOLEAN]

VARIABLES
    pc,          \* where the program is
    test,        \* the index of the test in Tests
    steps,       \* what the test has done, for MaxSteps
    failures,    \* failures reported
    \* globals of vmx.c
    in_guest, launched, guest_finished, v2_guest_main, hypercall_field, teardown_steps,
    \* the processor
    vmxon,       \* in VMX operation
    mode,        \* "host" or "guest" (VMX root or non-root)
    launch,      \* launch state of the current VMCS
    reason,      \* its exit reason field
    truth        \* ghost: whether the last entry succeeded, whether one of the
                 \* test failed early, which hypercall the last exit is

flags == <<in_guest, launched, guest_finished, v2_guest_main>>
processor == <<vmxon, mode, launch, reason>>
vars == <<pc, test, steps, failures, flags, hypercall_field, teardown_steps, processor, truth>>

Cur == Tests[test]

Init ==
    /\ pc = "next" /\ test = 0 /\ steps = 0 /\ failures = 0
    /\ in_guest = FALSE /\ launched = FALSE /\ guest_finished = FALSE /\ v2_guest_main = FALSE
    /\ hypercall_field = "none" /\ teardown_steps = <<>>
    /\ vmxon = FALSE /\ mode = "host" /\ launch = "none" /\ reason = "none"
    /\ truth = [entered |-> FALSE, missed |-> FALSE, asked |-> "none"]

-----------------------------------------------------------------------------
(* test_run, up to the test itself. *)

\* Mutant: launched is left as the test before left it.
ResetTest_KeepLaunched ==
    /\ teardown_steps' = <<>>
    /\ v2_guest_main' = FALSE /\ guest_finished' = FALSE
    /\ UNCHANGED <<launched, in_guest>>

\* Mutant: teardown_count is left as the test before left it.
ResetTest_KeepTeardown ==
    /\ v2_guest_main' = FALSE /\ launched' = FALSE /\ guest_finished' = FALSE
    /\ UNCHANGED <<teardown_steps, in_guest>>

ResetTest ==
    /\ teardown_steps' = <<>>
    /\ v2_guest_main' = FALSE /\ launched' = FALSE /\ guest_finished' = FALSE
    /\ UNCHANGED in_guest

\* init_vmcs makes a new VMCS, clear and current.  init comes before the
\* resets, and a test whose init says so is left at once.
StartTest(t) ==
    /\ vmxon' = TRUE /\ launch' = "clear" /\ reason' = "none" /\ UNCHANGED <<mode, failures>>
    /\ \/ "exit" \in t.init /\ pc' = "out" /\ UNCHANGED <<flags, teardown_steps>>
       \/ /\ t.init = {} \/ "start" \in t.init
          /\ ResetTest
          /\ pc' = IF t.v2 THEN "body" ELSE "enter"

\* A V2 test with V1 callbacks ends the program, and so does a vmxon that
\* fails.
TestRun ==
    /\ pc = "next" /\ test < Len(Tests)
    /\ test' = test + 1 /\ steps' = 0
    /\ LET t == Tests[test + 1]
           mixed == t.v2 /\ t.init # {}
       IN \/ ~mixed /\ StartTest(t)
          \/ /\ mixed \/ "vmxon" \in Faults
             /\ failures' = IF mixed THEN failures + 1 ELSE failures
             /\ pc' = "exit" /\ UNCHANGED <<flags, teardown_steps, processor>>
    /\ truth' = [truth EXCEPT !.missed = FALSE]
    /\ UNCHANGED hypercall_field

\* longjmp(abort_target, 1): what the test has set up is left as it is.
LongJmp == pc' = "out"

\* TEST_ASSERT of a condition that does not hold, on the host's side.
AssertFails == failures' = failures + 1 /\ LongJmp

-----------------------------------------------------------------------------
(* The body of a V2 test. *)

BodyStep == pc = "body" /\ steps < MaxSteps /\ steps' = steps + 1

TestSetGuest ==
    /\ BodyStep
    /\ \/ v2_guest_main /\ AssertFails /\ UNCHANGED v2_guest_main
       \/ ~v2_guest_main /\ v2_guest_main' = TRUE /\ UNCHANGED <<pc, failures>>
    /\ UNCHANGED <<test, in_guest, launched, guest_finished, hypercall_field, teardown_steps, processor, truth>>

\* A step carries the number of the test that added it.
TestAddTeardown ==
    /\ BodyStep
    /\ \/ Len(teardown_steps) >= MaxTeardown /\ AssertFails /\ UNCHANGED teardown_steps
       \/ /\ Len(teardown_steps) < MaxTeardown
          /\ teardown_steps' = Append(teardown_steps, test) /\ UNCHANGED <<pc, failures>>
    /\ UNCHANGED <<test, flags, hypercall_field, processor, truth>>

EnterGuest ==
    /\ BodyStep
    /\ IF v2_guest_main /\ ~guest_finished THEN pc' = "enter" /\ UNCHANGED failures
                                          ELSE AssertFails
    /\ UNCHANGED <<test, flags, hypercall_field, teardown_steps, processor, truth>>

\* An assertion of the test fails, or test_skip.
BodyEnds ==
    /\ pc = "body"
    /\ \/ AssertFails
       \/ LongJmp /\ UNCHANGED failures
       \/ pc' = "teardown" /\ UNCHANGED failures
    /\ UNCHANGED <<test, steps, flags, hypercall_field, teardown_steps, processor, truth>>

-----------------------------------------------------------------------------
(* VM entry, the guest, VM exit. *)

\* vmlaunch or vmresume, after launched, with the launch state that either
\* needs.  An entry that fails late has an exit reason; one that fails early
\* goes on after the instruction and leaves the VMCS alone.
VmxEnterGuest ==
    /\ pc = "enter"
    /\ \/ /\ launched <=> launch = "launched"
          /\ pc' = "guest" /\ mode' = "guest" /\ in_guest' = TRUE
          /\ launch' = "launched" /\ truth' = [truth EXCEPT !.entered = TRUE]
          /\ UNCHANGED reason
       \/ /\ "late" \in Faults /\ (launched <=> launch = "launched")
          /\ reason' = "entry failure"
          /\ pc' = "exited" /\ truth' = [truth EXCEPT !.entered = FALSE]
          /\ UNCHANGED <<mode, in_guest, launch>>
       \/ /\ "early" \in Faults \/ ~(launched <=> launch = "launched")
          /\ pc' = "exited" /\ truth' = [truth EXCEPT !.entered = FALSE, !.missed = TRUE]
          /\ UNCHANGED <<mode, in_guest, launch, reason>>
    /\ UNCHANGED <<test, steps, failures, launched, guest_finished, v2_guest_main,
                   hypercall_field, teardown_steps, vmxon>>

\* Control comes back at vmx_return.
VmExit(why) ==
    /\ reason' = why
    /\ pc' = "exited" /\ mode' = "host" /\ in_guest' = FALSE
    /\ UNCHANGED <<test, launched, guest_finished, v2_guest_main, teardown_steps, vmxon, launch>>

\* An exit that the test provokes; it may be a vmcall of its own.
GuestExits ==
    /\ pc = "guest" /\ steps < MaxSteps /\ steps' = steps + 1
    /\ \E why \in {"vmcall", "other"} : VmExit(why)
    /\ truth' = [truth EXCEPT !.asked = "none"]
    /\ UNCHANGED <<failures, hypercall_field>>

Hypercall(no) ==
    /\ hypercall_field' = no
    /\ truth' = [truth EXCEPT !.asked = no]
    /\ VmExit("vmcall")

\* guest_entry, after guest_main has returned.
GuestReturns == pc = "guest" /\ Hypercall("vmexit") /\ UNCHANGED <<steps, failures>>

\* __abort_test and test_skip on the guest's side.
GuestAborts ==
    /\ pc = "guest" /\ in_guest
    /\ failures' \in {failures, failures + 1}
    /\ Hypercall("vmabort")
    /\ UNCHANGED steps

-----------------------------------------------------------------------------
(* What the host does after vmx_enter_guest. *)

\* failure->early, which the assembly means to set after a vmlaunch or a
\* vmresume that falls through: its `movl $1' has failure_flags as its
\* destination.
Early == FALSE

\* What vmx_enter_guest returns.
Entered == ~Early /\ reason # "entry failure"

IsHypercall == reason = "vmcall" /\ hypercall_field # "none"

\* Mutant: handle_hypercall leaves hypercall_field as it is.
HandleHypercall_Kept == UNCHANGED hypercall_field

\* handle_hypercall: the number is the result, and is cleared.
HandleHypercall == hypercall_field' = "none"

\* The rest of enter_guest (V2).
EnterGuestReturns ==
    /\ pc = "exited" /\ Cur.v2
    /\ \/ ~Entered /\ pc' = "abort" /\ UNCHANGED <<launched, guest_finished, hypercall_field>>
       \/ /\ Entered /\ ~IsHypercall
          /\ launched' = TRUE /\ pc' = "body" /\ UNCHANGED <<guest_finished, hypercall_field>>
       \/ /\ Entered /\ IsHypercall
          /\ launched' = TRUE /\ HandleHypercall
          /\ \/ hypercall_field = "vmexit" /\ guest_finished' = TRUE /\ pc' = "body"
             \/ hypercall_field = "vmabort" /\ ~in_guest /\ LongJmp /\ UNCHANGED guest_finished
    /\ UNCHANGED <<test, steps, failures, in_guest, v2_guest_main, teardown_steps, processor, truth>>

\* What vmx_run does with the result of a handler.
Result(ret) ==
    /\ pc' = CASE ret = "resume" -> "enter" [] ret = "vmexit" -> "teardown" [] OTHER -> "abort"
    /\ guest_finished' = (guest_finished \/ ret = "vmexit")

\* The rest of an iteration of vmx_run (V1): exit_handler or
\* entry_failure_handler.
VmxRun ==
    /\ pc = "exited" /\ ~Cur.v2
    /\ \/ /\ ~Entered
          /\ \E ret \in IF Cur.onfail THEN {"resume", "vmexit", "exit"} ELSE {"exit"} : Result(ret)
          /\ UNCHANGED <<launched, hypercall_field, failures>>
       \/ /\ Entered /\ IsHypercall
          /\ launched' = TRUE /\ HandleHypercall /\ Result(hypercall_field)
          /\ UNCHANGED failures
       \/ /\ Entered /\ ~IsHypercall /\ launched' = TRUE
          /\ \/ \E ret \in {"resume", "vmexit", "exit"} : Result(ret) /\ UNCHANGED failures
             \/ AssertFails /\ UNCHANGED guest_finished
          /\ UNCHANGED hypercall_field
    /\ UNCHANGED <<test, steps, in_guest, v2_guest_main, teardown_steps, processor, truth>>

-----------------------------------------------------------------------------
(* The end of test_run, and of main. *)

RunTeardownStep ==
    /\ pc = "teardown" /\ teardown_steps # <<>>
    /\ teardown_steps' = SubSeq(teardown_steps, 1, Len(teardown_steps) - 1)
    /\ UNCHANGED <<pc, failures>> \/ AssertFails
    /\ UNCHANGED <<test, steps, flags, hypercall_field, processor, truth>>

CheckCompletion ==
    /\ pc = "teardown" /\ teardown_steps = <<>>
    /\ failures' = IF launched /\ ~guest_finished THEN failures + 1 ELSE failures
    /\ pc' = "out"
    /\ UNCHANGED <<test, steps, flags, hypercall_field, teardown_steps, processor, truth>>

VmxOff ==
    /\ pc = "out"
    /\ \/ vmxon' = FALSE /\ launch' = "none" /\ pc' = "next"
       \/ "vmxoff" \in Faults /\ pc' = "exit" /\ UNCHANGED <<vmxon, launch>>
    /\ UNCHANGED <<test, steps, failures, flags, hypercall_field, teardown_steps, mode, reason, truth>>

LastTest ==
    /\ pc = "next" /\ test = Len(Tests)
    /\ pc' = "exit"
    /\ UNCHANGED <<test, steps, failures, flags, hypercall_field, teardown_steps, processor, truth>>

Next ==
    \/ TestRun \/ TestSetGuest \/ TestAddTeardown \/ EnterGuest \/ BodyEnds
    \/ VmxEnterGuest \/ GuestExits \/ GuestReturns \/ GuestAborts
    \/ EnterGuestReturns \/ VmxRun
    \/ RunTeardownStep \/ CheckCompletion \/ VmxOff \/ LastTest

Spec == Init /\ [][Next]_vars

-----------------------------------------------------------------------------
(* Properties. *)

\* The program's idea of the processor survives tests that end anywhere:
\* in_guest says on which side code runs (__abort_test, continue_abort),
\* launched which instruction the VMCS needs (as long as no entry of the test
\* has failed early, see EntryReported), and hypercall_field that this
\* exit, and not an earlier one, is a hypercall.
FlagsMatch ==
    /\ in_guest <=> mode = "guest"
    /\ pc = "enter" /\ ~truth.missed => (launched <=> launch = "launched")
    /\ pc = "exited" /\ Entered /\ IsHypercall => truth.asked = hypercall_field

\* "Executed after the test's main function returns" (x86/vmx.c:1738): a
\* teardown step that runs was added by the test that returns, in VMX
\* operation, whatever the tests before it left behind.
TeardownOwn ==
    pc = "teardown" =>
        /\ \A i \in DOMAIN teardown_steps : teardown_steps[i] = test
        /\ vmxon /\ mode = "host"

\* "Tries to enter the guest. Returns true iff entry succeeded"
\* (x86/vmx.c:1584).
EntryReported == pc = "exited" => (Entered <=> truth.entered)
=============================================================================
