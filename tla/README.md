# A TLA+ verification of kvm-unit-tests (acrn-ut)

The repository holds small bare-metal guests that test a hypervisor, the
library they are linked with, and the scripts that start them and judge how
they end. A wrong verdict can come from any of the three: a library whose
cross-CPU calls mix up their arguments reports failures that the hypervisor did
not commit, and a script that misreads an exit status hides the ones it did. The
modules here model the parts on which every test rests. Paths below are relative
to `src/guest/`.

## 1. Inventory

| Part | State it keeps | Operations | What makes it hard | Correct when |
|---|---|---|---|---|
| x86 cross-CPU calls (`lib/x86/smp.c`) | `ipi_lock`, `ipi_function`, `ipi_data`, `ipi_done`, `ipi_wait`, `active_cpus`, `%gs:0` of each CPU, pending and in-service interrupts | `smp_init`, `on_cpu`, `on_cpu_async`, `on_cpus`, the handler `ipi` | one set of globals for all calls, handlers that run with interrupts off, functions that call in turn | arguments of one call stay together, each function runs once, a synchronous call returns after it, `on_cpus` is a barrier, nobody hangs |
| x86 boot (`x86/cstart64.S`, `lib/x86/apic.c`, `fwcfg.c`) | `smp_stacktop`, `cpu_online_count`, `pt_root`, the trampoline at address 0, `apic_ops`, CR3/CR4/APIC mode of each CPU | `start`, INIT/SIPI, `ap_start32`, `ap_start64`, `smp_init`, `setup_5level_page_table` | all other CPUs start at once; the trampoline's page is reused for the IDT | own stacks, no CPU left in the trampoline, `main` is reached |
| Page allocator (`lib/alloc_page.c`) | `freelist`, the link in each free page, `lock` | `free_pages`, `free_page`, `alloc_page`, `alloc_pages`, `page_memalign`, `page_free` | the list is read outside the lock | every page is free, owned or lost, never two of them |
| Physical allocator, malloc (`lib/alloc_phys.c`, `alloc.c`) | `base`, `top`, `align_min`, `regions[]` | `phys_alloc_init`, `phys_alloc_aligned_safe`, `phys_alloc_get_unused`, `memalign`, `malloc`, `calloc` | alignment gaps at the end of memory, a 32-bit limit, metadata in front of a block | regions disjoint and in memory, blocks hold what was asked |
| x86 page tables, virtual allocator (`lib/x86/vm.c`, `lib/vmalloc.c`) | tables in memory, `vfree_top`, CR3 | `install_pte` and callers, `find_pte_level`, `setup_mmu`, `vmap`, `vm_memalign`, `vm_free` | frames change between data, table and free; large and small pages | the CPU's walk finds what was installed; nothing is shared |
| arm CPUs and calls (`lib/arm/smp.c`, `arm/cstart.S`) | `cpu_{present,online,idle}_mask`, `secondary_data`, `on_cpu_info[]`, `lock`, event register of each CPU | `smp_boot_secondary`, `do_idle`, `on_cpu`, `on_cpu_async`, `on_cpus`, `deadlock_check` | masks updated without the lock, sleeping in `wfe`, CPUs that wait in a circle | boots do not mix, calls run once, everything ends or a deadlock is reported |
| Paging test (`x86/access.c`) | the flags of the access under test, the page-table pool, what is expected | `ac_test_bump`, `ac_test_setup_pte`, `ac_set_expected_status`, `ac_test_do_access`, the `check_*` regressions | an enumeration of combinations that skips the illegal ones, state left in tables, TLB and control registers by the access before | a right processor passes, a broken one fails, no combination is left out |
| VMX test framework (`x86/vmx.c`) | `in_guest`, `launched`, `guest_finished`, `hypercall_field`, `teardown_steps`, the current VMCS and its launch state | `test_run`, `vmx_run`, `enter_guest`, `handle_hypercall`, `__abort_test`, the tests of VMCLEAR and VMPTRLD | one program is hypervisor and guest; a test may end anywhere, on either side | every test starts clean, the flags agree with the processor, a processor that loses VMCS data is found |
| VMX tests by stages (`x86/vmx_tests.c`) | the stage, the VMCS's masks, shadows, bitmaps and controls, globals that guest and handler share | the `*_main` and `*_exit_handler` of PAT, EFER, CR shadowing, I/O bitmap, instruction intercept, VPID, debug controls | one number tells the handler which instruction exited; each check starts from what the one before left | a right processor passes, a defective one fails |
| kvmclock (`x86/kvmclock.c`, `kvmclock_test.c`) | the time information that the host writes, `last_value`, the test's counters | `pvclock_clocksource_read`, `pvclock_read_wallclock`, `__div64_32`, `kvm_clock_test` | the host rewrites while the guest reads; CPUs disagree on the time | consistent copies, monotonic reads, right quotients |
| Verdict of a test (`lib/report.c`, `abort.c`, `x86/io.c`, `scripts/arch-run.bash`, `runtime.bash`) | counters and prefixes, the exit code, QEMU's status and stderr | `report*`, `report_summary`, `exit`, `abort`, `run_qemu`, `run_qemu_status`, `run` | a status means several things, two fixups tell them apart | a PASS is a guest that passed |
| Errata (`scripts/arch-run.bash`, `lib/errata.h`) | environment, file, generated variables | `initrd_create`, `env_add_errata`, `env_generate_errata`, `ERRATA` | versions with numbers missing, three sources | the version decides unless the user does |
| Migration runner (`scripts/arch-run.bash`) | two QEMUs, the output file, the fifo | `run_migration`, `qmp` | a script that polls two processes that may end | the guest's status is returned, the script ends |
| Interrupt controllers (`x86/ioapic.c`, `x86/apic.c`, `lib/x86/apic.c`) | redirection entries, remote IRR, TMR, ISR; `apic_ops` and each CPU's APIC mode; counters that handlers and `main` share | one per test of the two programs, the handlers, the modes of the APIC | handlers that interrupt the test that counts them; a line that a second CPU moves; one `apic_ops` for CPUs in different modes | a right controller passes, a defective one fails, no test depends on what the one before left |
| Hyper-V tests (`x86/hyperv_connections.c`, `hyperv_stimer.c`, `hyperv_synic.c`, `hyperv_clock.c`, `hyperv.c`) | message slots and event flags shared with the hypervisor, timers, the reference TSC page, counters of each CPU | post, signal, timer and interrupt tests; handlers; the sequence-guarded copy | the hypervisor writes slots and page while the guest reads; late messages; CPUs that test each other | right verdicts; what is read under one sequence number belongs together |
| Exceptions and the tests of faults (`lib/x86/desc.c`, `usermode.c`, `fault_test.c`; `idt_test.c`, `umip.c`, `pcid.c`, `xsave.c`, `memory.c`, `vmware_backdoors.c`, `smap.c`, `pku.c`) | `exception_handlers`, the fix-up table, `%gs:4`, the `longjmp` buffer, control registers | `handle_exception`, `test_for_exception`, `run_in_user`, the tests | a fault that comes back by one of three ways; a handler or a flag that an earlier test left | each instruction is judged by its own exception |
| Event injection and debug (`x86/eventinj.c`, `taskswitch2.c`, `debug.c`, `syscall.c`) | pending interrupts and NMIs, mappings that the host takes away, task gates, DR6 | the tests and their handlers | an event whose delivery faults; two events at once; an NMI in an NMI handler | nothing lost, doubled or reordered goes unseen |
| Real mode and emulator (`x86/realmode.c`, `emulator.c`) | `inregs`, `outregs`, the stack; a device page, CR0, CR8 | one row per instruction, one step per test function | registers that a row forgets to compare; state that a test leaves for the next | an instruction emulated wrong is reported, and none on a right emulator |
| SVM tests (`x86/svm.c`) | one VMCB, one nested page table, one I/O bitmap, latencies | `prepare`, the guest, `finished`, `succeeded` of each test | preparations that build on what the test before left; an instruction that CPU 1 rewrites | a right processor passes, a defective one fails |
| Extended page tables (`x86/vmx.c:711-1019`) | the tables, accessed and dirty bits | install, split, twiddle and restore, clear and check the bits | large pages that are split for one page; entries changed under a guest | the walk finds what was installed, the check of the bits is right |
| Programs that wait for a wake-up (`x86/init.c`, `s3.c`, `tscdeadline_latency.c`, `asyncpf.c`) | what survives a reset, the table of latencies, the pages that the host has taken | reset by five ways, sleep and alarm, a timer that arms itself, page not present and page ready | the event may come before the sleep | they wake up, once, with the right count |
| PCI (`lib/pci.c`, `pci-host-generic.c`) and IOMMU (`lib/x86/intel-iommu.c`, `x86/intel-iommu.c`) | BARs and windows; root, context, page and interrupt tables | `pci_probe`, `pci_dev_init`, sizes; maps, remapping entries, the test | address spaces that differ by an offset; table pages with what was in them | BARs in their windows and apart; DMA and interrupts go where they were mapped |
| arm GIC, PSCI, timer (`arm/gic.c`, `psci.c`, `timer.c`, `lib/arm/gic*.c`, `psci.c`) | counters of each CPU, affinity masks, power states, timer control and the distributor's bits | the IPI tests, `CPU_ON` from all CPUs, the timer tests | counting while handlers still run; `CPU_ON` races `CPU_OFF` | a right machine passes, a defective one fails |
| virtio console (`lib/virtio.c`, `virtio-mmio.c`, `chr-testdev.c`) | the rings, the list of free descriptors, indices that wrap | search and set-up, `virtqueue_add_outbuf`, `virtqueue_get_buf`, `chr_testdev_exit` | several CPUs exit at once; the device may be late | the ring stays intact; the status sent is one of those given |
| s390x library and tests (`lib/s390x/interrupt.c`, `mmu.c`, `sclp.c`; the programs of `s390x/`) | `pgm_int_expected` and the code in the low core, `ram_size`, page tables, storage keys, the arguments | `expect_pgm_int`, the handlers, `check_pgm_int_code`, `sclp_memory_setup`, `setup_mmu`, `protect_page`, the tests | an expectation is one flag for all interrupts; memory is found by touching it until it faults | a right machine passes, a defective one fails, no interrupt is taken for another |
| Device tree and libfdt, formatting and arguments, spin locks and bit operations, arm MMU and set-up, powerpc, the other VMX test cases, the remaining instruction tests, benchmarks and architecture tests, host API tests, `run_tests.sh` | | | | not modelled, see below |

Not modelled, and why (each is a component of `PROJECT.json`): libfdt is third-party
code; formatting and string functions have no state that outlives a call; the
instruction tests and benchmarks that remain compare one instruction with a literal or
print a time, so that there is no control to check; spin locks and bit operations are
taken as atomic by the modules that use them; start-up assembly and device accessors
appear as the steps of the modules that call them. What could be modelled and is not is
in the plan (section 6).

How they meet: boot gives every CPU its stack and its id; the calls of `smp.c`
then run on those CPUs; tests take memory from `alloc.c`, which stands on
`alloc_phys.c` first and on `alloc_page.c` and `vmalloc.c` after `setup_vm`; the tests
install handlers in the one table of `desc.c`, set the one `apic_ops`, and count in
globals what handlers and other CPUs do; at the end the guest's counters leave through
`exit` (on arm through the virtio console), QEMU and the scripts.

A module of a test program has the program on one side and what it tests on the other.
The latter is external: a right machine, or one with a defect that a test is there to
find. "The verdict is right" then has two halves: no failure on a right machine in any
interleaving, and a failure on each defective one. The first half finds tests that
race or that depend on what an earlier one left, the second tests that cannot see
what they look for. Defects that a test cannot see in any execution, or sees by chance
only, are in section 4.

## 2. Modules

| Module | Models | State and actions |
|---|---|---|
| `X86Smp` | `lib/x86/smp.c` | One action per access to a shared variable. The stack of `main` on CPU 0 and the handlers of each CPU have a program counter each (`Main` and `0..NCpus-1`): a handler interrupts `main`, never another handler. A call is a number; `target`, `sync`, `kind` and the ghost `st` say what it is and how far it is. Functions are abstract, except that one may call in turn (`MayCall`) and that `setup_smp_id` stores the id. |
| `X86SmpProofs` | | The safety proofs of `X86Smp`. |
| `X86Boot` | `x86/cstart64.S`, `smp_init`, `apic.c:137-152,219-229` | One action per step that touches something shared. |
| `X86BootProofs` | | The safety proofs of `X86Boot` and `Wakeup`. |
| `PageStore` | what `alloc_page.c` promises | Pages are free, owned by someone or lost; take, give, lose. |
| `PageAlloc` | `lib/alloc_page.c` | The list with its links; reads of `freelist` outside the lock are actions of their own. Refines `PageStore`. |
| `PhysAlloc` | `lib/alloc_phys.c`, `lib/alloc.c` | Numbers as in the code: `base`, `top`, alignment gaps, the metadata word. |
| `MemoryProofs` | | The proofs of `PageAlloc`, `PageStore` and `PhysAlloc`. |
| `X86Vm` | `lib/x86/vm.c`, `lib/vmalloc.c` | Memory as a function from frames to table contents or data; `Translate` is the processor's walk (external), against which the look-ups are compared. |
| `ArmSmp` | `lib/arm/smp.c`, `arm/cstart.S` | Event registers, masks, `on_cpu_info`; one action per access that another CPU can see. |
| `ArmProofs` | | The safety proofs of `ArmSmp`, `ArmPsci` and `Virtio`. |
| `AccessTest` | `x86/access.c` | The program beside a processor with a TLB (external), either correct or with one of eight faults. One step per combination of flags or part of a regression; the tables are entries in a pool of pages, the flags a set. |
| `Vmx` | `x86/vmx.c` (`test_run`, `vmx_run`, `enter_guest` and what they call) | `test_run` with the V1 and the V2 interface. What a test does between the framework's functions is left open; the processor (external) has VMX operation, the launch state, the exit reason, and may fail an entry early or late. |
| `VmcsTest` | `x86/vmx.c` (the tests that need no guest: FEATURE_CONTROL, VMXON, VMPTRLD, VMCLEAR, VMPTRST, VMWRITE, the life of a VMCS) | Each test as a sequence of VMX instructions and checks, beside a processor (external) that caches active VMCSs and may have one of 24 defects; the BIOS may have locked the register. |
| `Ept` | `x86/vmx.c:711-1019` | Tables of `Fanout` entries at four levels; `setup_ept_range` page by page, then tests that map, split, twiddle, access, clear and check in any order. Two ghosts hold what was asked for and what the bits should be. |
| `VmxTests` | `x86/vmx_tests.c` (seven of the tests with the V1 interface) | The guest's main function as a sequence of operations, the exit that it causes, the handler's answer; the processor (external) decides which operation exits and switches registers, and may have one of the defects that the tests look for. |
| `IoApic`, `ApicTest` | `x86/ioapic.c`, `x86/apic.c`, `lib/x86/apic.c` | `main` and each handler as a sequence of operations; a pending interrupt is taken before the next operation once interrupts are on. In `ApicTest` the mode is each CPU's, `apic_ops` is shared, and the NMI tests are two programs that meet in counters. |
| `HvSynic`, `HvTimer`, `HvClock` | the four Hyper-V tests and `x86/hyperv.c` (`HvSynic` has `hyperv_synic.c` and `hyperv_connections.c`) | Message slots with their pending mark, event flags, auto-EOI; the hypervisor delivers some time after the hypercall. In `HvClock` a version stands for the scale and the offset published with it, and the struct copy reads members in any order; `main` copies the page first and leaves if its sequence is 0. |
| `Faults` | `lib/x86/desc.c`, `usermode.c`, `fault_test.c`, and eight programs | A test is a sequence of instructions, each with the way in which a fault of it comes back (fix-up table, handler, `longjmp`) and with what is expected. |
| `Events` | `x86/eventinj.c`, `taskswitch2.c`, `debug.c`, `syscall.c` | A program is a sequence of operations; before each one the processor delivers what is pending, through pages that may be gone. |
| `Realmode`, `Emulator` | `x86/realmode.c`, `x86/emulator.c` | A row is an instruction with the registers that it sets and those that the report compares; values are abstracted to the same, set right, or bad. `Emulator` has bytes where a test is about their order. |
| `Svm` | `x86/svm.c` | A test is what it prepares, the exits of its guest and its check; VMCB, nested tables and bitmap go from one test to the next. |
| `S390x` | `lib/s390x/interrupt.c`, `mmu.c`, `sclp.c`, and eleven programs of `s390x/` | A test is a sequence of steps (expect an interrupt, execute, check the code, report); the processor (external) is right or has a defect in one instruction. |
| `Wakeup` | `x86/init.c`, `s3.c`, `tscdeadline_latency.c`, `asyncpf.c` | Four programs, each with the machine that resets, wakes or interrupts it. |
| `Pci`, `Iommu` | `lib/pci.c`, `lib/pci-host-generic.c`, `lib/x86/intel-iommu.c`, `x86/intel-iommu.c`, `lib/pci-edu.c` | A BAR keeps the address bits above its size; windows have a CPU and a bus address. IOMMU tables are pages that come with what was in them. |
| `ArmGic`, `ArmPsci`, `ArmTimer` | `arm/gic.c`, `arm/psci.c`, `arm/timer.c` and the library below | The sender checks while handlers run; `CPU_ON` and `CPU_OFF` as separate steps of each CPU; the timer's interrupt changes it while the test looks. |
| `Virtio` | `lib/virtio.c`, `virtio-mmio.c`, `chr-testdev.c` | Descriptors, available and used rings with indices modulo `Wrap`; several CPUs exit. |
| `PvClock` | `x86/kvmclock.c`, `kvmclock_test.c` | The host's update and the guest's read in steps; words modulo `Modulus`. The wall clock and its division come second. |
| `ClockProofs` | | The safety proofs of `PvClock` and `HvClock`. |
| `TestRun` | `lib/report.c`, `exit`, `abort`, `run_qemu`, `run_qemu_status`, `run` | One test from its selection to its verdict. |
| `ArchRun` | `scripts/arch-run.bash`, `lib/errata.h` | The merge of the errata variables; the script beside two QEMUs. |
| `HarnessProofs` | | The safety proofs of `TestRun` and `ArchRun`. |
| `MC*` | | Instances for TLC. Each puts parts that share no state in one run: a variable `part`, chosen at the start, says which one steps, and a property speaks of the part that runs. `MCX86Smp`: cross-CPU calls, interrupt controllers, Hyper-V; `MCX86Cpus`: boot, calls under fairness; `MCArmSmp`: the arm modules and virtio; `MCMemory`: allocators, page tables, PCI, IOMMU; `MCClock`: the clocks; `MCHarness`: verdict, errata, migration; `MCTests`: the test programs of x86 and s390x. The bounds of a part are in its `INSTANCE ... WITH`. |

What is left out everywhere: texts, formatting and logging. Memory accesses are
in program order (x86 stores are seen in order, and the arm code has its
barriers where the model's order matters).

## 3. Runs

| Run | Instance | What it shows |
|---|---|---|
| `x86_smp` | 3 CPUs, 6 calls, interrupts on in `main`, functions on CPU 1 call CPU 2; 13 I/O APICs; 21 local APICs, 2 rounds of NMIs; Hyper-V: 3 CPUs, 7 hypervisors (connections), 3 expirations and 8 hypervisors (timers), 4 interrupts of which 2 are auto-EOI | `ArgumentsMatch`, `RunsOnce`, `ReturnAfterCall`, `OnCpusIsBarrier`; `IoApicVerdict`, `ApicVerdict`; `HyperVVerdict` |
| `x86_cpus` | 4 CPUs, as many as `fwcfg_get_nb_cpus` says, one switch to 5-level paging; or 3 CPUs, 5 calls, no call from a function | `BootMemory` (stacks are disjoint and nobody is left in the trampoline when its page is reused), `CpuStateMatches` (root tables and APIC modes), `BootEnds`: the boot CPU gets to `main` and through `smp_init`; `CallsComplete`: every call completes and `on_cpus` returns |
| `x86_boot_one` (violation) | 1 CPU, `fwcfg_get_nb_cpus` returns 2 | `BootEnds` fails: the boot CPU waits for ever |
| `memory` | 14 units of memory with a 32-bit limit inside, 3 alignments; 4 pages, orders to 2, one CPU with every entry point or two with `alloc_page` and `free_page`; 3 levels of 3 entries, 10 frames; 2 PCI devices and 4 host bridges; 20 pages, 2 maps and 6 IOMMUs | `GrantsDisjoint`, `BlockFits`; `PagesIntact`, and `ImplementsStore`: `PageAlloc` implements `PageStore`; `PageTablesRight` (the walk finds what was installed, nothing is shared, look-ups agree); `BarsPlaced`; `IommuVerdict` |
| `page_alloc_race` (violation) | 2 CPUs that call `alloc_pages` | `ExclusiveOwner` fails: both get the same pages |
| `arm_smp` | 3 CPUs, 3 calls; `main` calls, or all call in a ring; 8 GICs under 6 assignments of MPIDRs; 4 CPUs and 7 firmwares; 8 timers; 3 callers of `exit`, a ring of 2, indices modulo 4, 4 devices | `BootMatches`, `CallsRun` (each function once, a synchronous call returns after it), `DeadlockIsReal`, `CallsEnd`; `PsciVerdict`; `ArmVerdict` (GIC and timer); `RingIntact` |
| `arm_smp_two_callers` (violation) | two CPUs call a third | `CallsComplete` fails: a call is lost and nothing is reported |
| `clock` | 2 CPUs with clocks that differ by 1, one host update each; words of 3 bits for the division; 3 versions of the TSC page, 2 reads | `ClockReads` (copies are consistent, no warps), `Monotonic`, `WallReads` (the wall clock is copied from one update, quotient and remainder are right); `SequenceGuards` |
| `hv_clock` (violation) | the TSC page alone | `ConsistentSet` fails: values of two updates are used together |
| `harness` | 2 reports, all options and statuses; versions of numbers 0 and 1, missing or not; timeouts and aborts | `VerdictMeant` (a pass is earned, a status means what happened); `ScriptsRight` (errata, status of a migration); `ScriptEnds` |
| `tests` | 13 machines, each a processor and the slice of the 27 flags that concern it, a pool of 11 pages; 25 processors, 3 BIOS settings for the VMCS; 83 machines for the tests by stages; 5 VMX tests of 4 steps, 2 teardown steps; 16 guest pages under 4 levels of EPT, 3 processors, 2 operations; 18 processors for SVM; 3 sets of features, 27 instructions wrong either way, stores that are lost; 30 ways to inject an event, one of them right; one wrong row of real mode; 35 emulators; 4 programs that wait | `AccessVerdict`, `AccessLayout`; `VmxVerdict` (the tests of the VMCS and by stages, the flags of the framework, EPT); `SvmVerdict`; `FaultsVerdict`; `EventsVerdict`; `InstructionsVerdict`; `WakesUp` |
| `vmx_entry` (violation) | the same VMX tests | `EntryReported` fails: an entry that fails early is reported as one that succeeded |

Why these bounds are enough to meet the cases: with three CPUs there is a caller,
a target and a third that interferes, and with six calls of which two are
`smp_init`'s there are enough for `on_cpu_async`, a nested call and an `on_cpus`
at once. Four CPUs at boot give three that race for stacks. Four pages with order
2 give a block, a broken run and an exhausted list. Three alignments, one above
the largest size, give gaps that decide whether a request fits. Three entries
at each of three levels give large pages, small pages and absent ones side by side. In
`tests` a slice holds the flags of one aspect (permissions, write protection,
execution, protection keys, reserved bits, large pages, accessed and dirty bits), and 11
pages hold the two mappings that the regressions make at once; the tests by stages meet
every set of supported PAT and EFER controls, and every initial value of the CR bits
that they toggle; four steps let a VMX
test set a guest, add a teardown step and enter the guest twice, and the list has
a test of each interface after one that may have ended anywhere. Two operations on
the extended page tables are enough to split a large page and then map or twiddle one of
the pages beside it; two guest addresses share a table, so that clearing the bits of one
shows in the other. Two
CPUs are enough for clocks, because `last_value` is all they share; one update
during each read is enough for a torn copy. In `harness` two reports tell all,
some and no failures or skips apart. Where programs judge external machines there is one
defect for each check that a program makes, and each is alone, so that no defect hides
behind another. Two rounds are the fewest in which a test meets what the round before
left; three Hyper-V CPUs have an opposite that is not their own; four CPUs under PSCI
race for one target; indices modulo 4 over a ring of 2 wrap within the run; a PCI device
follows one that has used part of a window.

`CHECK_DEADLOCK FALSE` is in every configuration of a passing run because every one of
these programs ends.

### Fairness

`x86_cpus` and `arm_smp` assume weak fairness of each CPU's next
step: a hypervisor runs all its virtual CPUs, and a pending interrupt is taken
once the CPU can take it. Nothing is assumed of locks beyond that (a CPU that
spins may lose the race each time; with a bounded number of calls it gets the
lock). `harness` assumes that the shell goes on, that both QEMUs and the guest
do, and that a migration under way ends; it assumes nothing about timeouts and
aborts. The other runs have no liveness property. In `arm_smp` fairness is of the steps of
the CPUs in `ArmSmp`; the other parts of that run have invariants only.

## 4. Where the code differs from what is said of it

Five runs show it with a counterexample:

* `x86_boot_one`: `lib/x86/fwcfg.c:44` returns 2 on any machine, and the boot
  CPU waits for exactly that many, while `x86/unittests.cfg` says that `smp`
  defaults to one. With more CPUs than two the count can also pass 2 between two
  polls of `cstart64.S:292` (take `Ncpus = 3` in the same configuration).
* `page_alloc_race`: `alloc_pages` reads `freelist` before it takes the lock
  (`lib/alloc_page.c:80`).
* `arm_smp_two_callers`: `do_idle` clears `func` and sets its idle bit in two
  steps without the lock (`lib/arm/smp.c:148-150`).
* `vmx_entry`: after a `vmlaunch` or `vmresume` that falls through, the assembly
  of `vmx_enter_guest` stores 1 in `failure_flags` where `failure_early` is meant
  (`x86/vmx.c:1607`), so that the function judges by the exit reason that the
  VMCS still has, while its comment says "Returns true iff entry succeeded"
  (`x86/vmx.c:1584`).
* `hv_clock`: the loop that should retry when the page has changed compares the copied
  sequence number, not the one in the page (`x86/hyperv_clock.c:46-48`), while the comment
  says "Reads a consistent set of time-base values". With the order in which a compiler
  may copy the members, an update that begins after the number was copied goes unnoticed, and
  values of two updates meet. `SequenceGuards` says what does hold. Both properties leave out
  copies under sequence 0: while the page is updated its number is 0, the loop does not
  take 0 for invalid (lines 44-48), and a copy that lies within an update may be torn whatever
  number is compared.

Others were met while modelling; the modules have the behaviour, and no
property forbids it:

* `alloc_pages` does not try a page that broke a run as the start of the next one
  (`lib/alloc_page.c:117`), and returns NULL with an aligned run on the list.
* `phys_alloc_get_unused` writes its log entry without the test that other
  allocations make (`lib/alloc_phys.c:125`).
* `memalign` does not look at a NULL from the allocator below (`lib/alloc.c:57`).
* `setup_5level_page_table` tests the mask 12 for bit 12 (`x86/cstart64.S:246`).
* `main` of `x86/access.c` overwrites the result of the 4-level run with that of the
  5-level one (`x86/access.c:1011`), so that its exit status is the second's.
* `check_smep_andnot_wp` sets CR0.WP where its comment says 0, and the comment on
  PKRU says 0xFFFFFFFF where 0xFFFFFFFC is written.
* `test_skip` in the guest leaves through the hypercall of an abort
  (`x86/vmx.c`, `__abort_test` and `test_skip`), and a test whose `init` says so, or
  that aborts, leaves without its teardown steps.
* In `x86/vmx_tests.c`, `ept_execute_only_supported` tests `EPT_CAP_WT`, "EPT basic
  framework - remap" is reported with a constant 1, the handlers of PAT, EFER and
  the I/O bitmap end the guest without a report after an exit reason that they do not
  know (`UnknownExitReason`), and that of EFER writes GUEST_PAT at its end. The hlt check of the
  preemption timer test takes its time stamp after the timer was started, and counts on
  the exit to take longer than the guest's way there.
* `run_tests.sh -g nodefault` runs the tests that README.md says need another
  group (`scripts/runtime.bash:71`).
* `run_migration` polls for ever when `timeout` has ended the source QEMU
  (`scripts/arch-run.bash:137,145`); `ScriptEnds` therefore excludes that case.

The test programs:

* Interrupt controllers: `test_enable_x2apic` writes APICBASE with base 0 and the BSP bit
  clear and does not restore it (`x86/apic.c:93,97`); the loop of the one-shot timer test
  cannot see a second interrupt.
* Hyper-V: the auto-enable tests cannot tell a hypervisor that ignores AUTOENABLE
  (`x86/hyperv_stimer.c:177`), and a stale pending mark lets the busy-slot test pass; `main`
  of `hyperv_clock.c` returns a count that nothing increments (line 194).
* Faults: `handle_exception` reads `exception_handlers[v]` before it tests `v < 32`
  (`lib/x86/desc.c:126`); `run_in_user` does not restore the handler; a check of
  `xsave.c` announced as `xgetbv` calls `xsetbv`; a failed `pcid` test leaves CR3
  and CR4 changed.
* Events and debug: the check of the return address in `nested_nmi_isr` is vacuous: it compares
  with a label on the way out of `handle_irq`'s stub, on which no NMI handler returns.
* Real mode: `test_call` puts the stack pointer at the low end of its array; "mul" tests use
  `imul`; `jnz short 1` and `jmp short 1` check nothing; `lahf` and `sahf` rely on the stack
  pointer that `test_jcxz` left. Emulator: comments say "EM, TS" where the mask
  is MP and EM (`x86/emulator.c:664,692,753`); `test_cr8` leaves CR8 = 3.
* SVM: the check "back in long-mode" is never reached; `ioio` passes on any exit code that
  it does not expect; the cr3-intercept-emulate test races CPU 1; GIF stays clear after the
  latency tests; the TLB is not flushed between tests of nested paging.
* VMX: on a machine that the BIOS has locked out, `main` ends without a failed report
  (`x86/vmx.c:1300-1303`); `test_vmclear` runs before `vmcs_root` is allocated; the regions of
  `test_vmptrld` and `test_vmptrst` are not freed. EPT: `split_large_ept_entry` keeps the large
  page's permissions in the entry that leads to the new table, which limits every page
  below it (the tests only split pages that have them all); `check_ept_ad` returns without a report where
  a guest table lies under a large page (`x86/vmx.c:937-940`).
* Waiting: `tscdeadline_latency` sleeps for ever if the last interrupt comes between the
  check and the `hlt`, and with more rounds than its table has entries; a broadcast token
  leaves an `asyncpf` waiter asleep; `s3` without a FACS writes to address 0.
* PCI: the allocated part of each window is not initialised after `malloc`; a BAR without a
  window keeps its address while decoding is switched on; a window for "mem64 prefetch"
  is never matched; `pci_bar_set_addr` stores a bus address where `pci_dev_init` stores a CPU
  address. IOMMU: the page of the interrupt table holds 256 entries where the size field
  says 65536; there is no IOTLB invalidation; the DMA test passes if the word was there
  already.
* s390x: `check_pgm_int_code` does not clear `pgm_int_expected`, so that after a check without an
  interrupt a later one is taken for expected; in `emulator.c` a `report_skip` is
  followed by the check that it should replace; `cstart64.S` gives I/O and supervisor-call
  interrupts the handlers of machine checks and external ones; `get_clock_ms` names its
  result as an input of the assembly.
* GIC: the handler counts an interrupt before it notes a bad sender or number
  (`arm/gic.c:147`), so that a check in between passes; late duplicates can be missed;
  CPUs with affinity 16 and above get no IPI. PSCI: ON_PENDING counts as a failure, and a
  firmware that says SUCCESS to everyone passes. Timer: `set_timer_irq_enabled(false)`
  writes zeros to ISENABLER, which has no effect (`arm/timer.c:107-122`); the check
  for an interrupt can come before its delivery.
* virtio: `virtqueue_get_buf` does not look at `used->idx` (`lib/virtio.c:114`), so that
  the status may be taken for sent before the device has used the buffer; the device is
  recorded before its queues exist.

## 5. Proofs

All proofs hold for every value of the constants that the named assumptions
allow, and for every number of steps.

* `X86SmpProofs`. `Invariance`: `Spec => []IndInv` (proved, not a property of a run), for any number of CPUs and
  calls and any `MayCall`. From it `ArgumentsMatchCorrect`, `RunsOnceCorrect`,
  `ReturnAfterCallCorrect` and `TypeCorrect`. None of the properties is inductive
  alone: that a handler reads the arguments of one call depends on who holds the lock
  (`LockHeld`), on what that holder has stored so far (`Published`), and on there
  being at most one interrupt that has been sent and not acknowledged, which
  belongs to the holder (`Token`). `Handling` and `Apart` say what a handler
  knows of the call it serves and that it is never one still being prepared,
  `Acked` what `ipi_done = 1` tells the caller. `Issued`, `CallerStatus` and
  `Frames` tie the ghost status to program counters. Each action is a
  lemma; each lemma has a step per conjunct.
  `OnCpusIsBarrierCorrect` is an action property and needs `CountInv` on top (`CountInvariance`):
  `active_cpus` is the number of calls between `atomic_inc` and `atomic_dec`, and one more after
  `smp_init` (`ActiveExact`); a call that is not counted yet, or that its caller runs itself, has
  a context inside `__on_cpu` (`Claimed`, `Left`). When `on_cpus` sees a count of 1 nothing is
  counted; a function that made a call of its own would be, so that no call is left at all.
* `X86BootProofs`. `BootMemoryCorrect` and `CpuStateCorrect`, for any number of CPUs, assuming
  `AllCounted`: the machine has at most as many CPUs as `fwcfg_get_nb_cpus` says. The boot CPU
  waits for that many only, and `x86_boot_one` and section 4 say what happens otherwise. The
  inductive invariant has four parts: `Phases` (the boot CPU gets past its wait only when all
  others have left the trampoline, so that the page may be reused), `Stacks` (a stack that a
  CPU has taken lies between the bottom of those handed out and the top, and belongs to nobody
  else), `Tables` (only CPU 0 ever runs with five levels, and `pt_root` is the table of four until
  it does, when the others have loaded theirs) and
  `Apics` (`apic_ops` is what every CPU that has gone online uses).
  `WakesUpCorrect`, for any size of the table of latencies and any number of pages: `WakeInv` has one
  part per program of `Wakeup`. `init.c` judges each reset once and by what survived it; the alarm of `s3.c`
  repeats until it is seen; the timer of `tscdeadline_latency.c` is armed until it hits; of the pages of `asyncpf.c`
  only the one waited for lacks its entry, and unless the host broadcasts, its token is still due.
* `ArmProofs`, `lib/arm/smp.c`. `BootMatchesCorrect`, for any number of CPUs and any programs, from `LockInv`:
  the lock belongs to the CPU that waits for a secondary, from before that one reads
  `secondary_data` until it is online, and while it does the data is the secondary's.
  `CallsRunCorrect`, for any number of CPUs and calls, assuming `OneCaller`: no two CPUs call the
  same one. In the repository `main` on CPU 0 is the only caller of `on_cpus`, so that every
  program satisfies it; with two callers the theorem is false, which `arm_smp_two_callers` shows.
  The invariant `SmpInv` follows a call from its caller (`Caller`: until it is posted the function
  is nowhere, after that `func` holds it or it has run; an idle bit seen by the wait is still set
  when the call is posted) and to its target (`Target`: `func` and the idle bit for each place
  where a CPU can be; an idle CPU has a function only while its caller is about to clear the
  bit). One lemma per action or group of actions; `CallMoves`, `OutsideCalls`, `CallerStays` and
  `TargetStays` carry the CPUs that do not take the step.
  `DeadlockIsRealCorrect`, under `OneCaller` too, from `SmpInv` and `WaitInv`: a bit of `waiters`
  is set before its CPU waits and cleared after, so that while it is set the CPU does wait, or has
  just seen its target idle. `deadlock_check` reads one mask after the other while they change;
  `Linked` says that on its path each CPU still has its bit in the mask of the one before. It has
  (`PathStays`), because a CPU withdraws only from one that is idle, and one that waits is not. The
  path holds for any `MaxDepth`.
* `ArmProofs`, `Virtio`. `RingIntactCorrect`, for any number of CPUs that exit, any ring and any
  modulus of its indices. `chr_testdev_exit` holds its lock over add, notify and wait, so that only
  descriptor 0 is ever out and the free list is the rest in order (`OneOut` in `RingInv`); a buffer that the
  device has yet to read is the one of the CPU that waits or has just left (`Delivery`).
* `ArmProofs`, `ArmPsci`. `PsciCorrect`, for any number of CPUs and any set of defects:
  "cpu-on" is judged when all have called, and as the firmware deserves. `PsciInv` says where each CPU
  is (`Places`), what those that have called stored, and that on a right machine one of them got SUCCESS
  (`Answers`), and what has been reported so far (`PReports`).
* `MemoryProofs`, `PageAlloc`. `ImplementsStoreCorrect`: every step of `alloc_page.c` is a step of
  `PageStore` or none. `PagesIntactCorrect`: no overwritten link is followed, the list goes from `freelist`
  to NULL without repetition, the blocks of `page_memalign` are aligned, large enough and apart.
  `ExclusiveOwnerCorrect` follows from the refinement and `StorePartition`, an invariant of the abstract
  store. All for any heap and any number of CPUs, from the inductive `PageInv`: a ghost ranks the
  pages of the list, and each link leads to the next lower rank (`Linked`), each page is in one place (`Placed`), and what a call
  that is under way has in its variables is still on the list (`Calls`, and `Search` for the run that
  `alloc_pages` is looking at). The theorems assume `Orderly`: one CPU uses the allocator in any way, or several use
  `alloc_page` and `free_page` only, with pages to spare. The reads of `freelist` outside the lock are safe only
  then, and `page_alloc_race` is the counterexample when it does not hold. Both cases occur: most programs
  allocate on CPU 0 only, and the tests of SynIC and its timers call `alloc_page` on all CPUs at once
  (`x86/hyperv_synic.c:97`, `x86/hyperv_stimer.c:45`). `PowersAssumption` is what arithmetic says of powers of two, which the provers do not know;
  TLC evaluates it.
* `MemoryProofs`, `PhysAlloc`. `GrantsDisjointCorrect`, from `IndInv`: the free range is the
  tail of memory above every region (`FreeAboveGrants`). The lemma on `Align` says
  that it rounds up; the gap it adds is part of the region's size test. `BlockFitsCorrect`, from
  `PowerAssumption` (of two alignments, one divides the other, as with powers of two): what
  `memalign` returns is aligned, behind its metadata and inside the region, also where no
  slack was asked for.
* `ClockProofs`, `PvClock`. `MonotonicCorrect` and `LastForwardCorrect`: `last_value` only
  grows, every value read while the TSC is not stable was at most `last_value`
  when it was returned and at least what it was when the read began
  (`Accumulates`). The host is arbitrary. `SnapshotCorrect`: a copy between two equal even
  versions is what the host published (`Snapshot`). `ClockReadsCorrect` adds that the test counts
  no warp, assuming `NoWrap`: neither the TSC nor its scaled value reaches the modulus of their
  words. The code makes the same assumption, since it compares the values as they are; 64 bits of
  nanoseconds last for 584 years. `OneClock` says that with a stable TSC all CPUs read the
  same clock, `Ordered` that the value of the read before is below the one under way.
  `WallReadsCorrect`: the wall clock is copied from one update, and `__div64_32`
  returns quotient and remainder, assuming `Words` (the number of half words is even, as
  2^32 is, and divisors are half words). The invariant of the two loops is Euclid's equation with what is left
  of the dividend, and bounds that exclude each overflow.
* `ClockProofs`, `HvClock`. `SequenceGuardsCorrect`, for any number of CPUs, updates and reads: a sequence that is
  not 0 is the version of all the members that were published with it (`Published`), and what was
  copied before it is not newer (`Copied`).
* `HarnessProofs`. `VerdictMeantCorrect`, for any groups and prefixes and any number of reports: a
  PASS is a guest that passed, and each other verdict means what happened. `VerdictInv` relates how the run
  ended (a ghost) to what can be seen of it: QEMU's status, what is on stderr, the line of the exit status. Two of these
  alone never tell the cases apart; the two fix-ups of `run_qemu` need the third.
  `ScriptsRightCorrect`, for any errata, commits and versions: what a guest sees of an erratum is what the user
  said, or else what the order of versions says (`EInv`), and `run_migration` returns the status of the
  guest that was migrated, or that of `timeout` (`MInv`: a migration that is complete has left the source for good).

Only model-checked, and why:

* all liveness (`BootEnds`, `CallsComplete`, `CallsEnd`, `ScriptEnds`): fairness is out of the
  prover's reach;
* `IoApicVerdict`, `ApicVerdict`, `HyperVVerdict`, `EventsVerdict`, `SvmVerdict`: their models say "the program
  has ended" with ENABLED, and each is about fixed programs and a list of machines, a finite question that
  TLC answers completely;
* `PageTablesRight`, `IommuVerdict`: a walk is a recursive function over the levels, and what it finds after a
  table has changed needs induction over that function;
* `BarsPlaced`: sizes and masks of BARs are powers of two that multiply and divide, which is beyond
  the arithmetic of the provers;
* `ArmVerdict` (GIC and timer), `AccessVerdict`, `AccessLayout`, `VmxVerdict`, `FaultsVerdict`,
  `InstructionsVerdict`: fixed programs and machines again, without a parameter for which a
  proof would say more than the run.

## 6. Plan

In this order:

1. Theorems: the page tables of `X86Vm` and `Iommu`, with the walk unrolled for the number of levels that
   the processor has in place of the recursive function; the handlers of `arm/gic.c` for any number of CPUs.
2. The rest of `vmx_tests.c`: preemption timer and interrupt tests with time, PML, the MSR
   switch, the EPT access and control tests of the V2 interface on top of `Ept`.
3. `run_tests.sh`: the queue of parallel jobs; the dirty-log tests of `api/`, whose guest
   thread races the reader.
4. powerpc: secondaries started by RTAS and the argument buffer behind its lock.
5. The walks over the device tree; the argument vector; the exclusive-access loops of the
   spin locks.
