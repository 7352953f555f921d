------------------------------- MODULE PvClock -------------------------------
(***************************************************************************)
(* The paravirtual clock of x86/kvmclock.c, read by the loop of            *)
(* x86/kvmclock_test.c on several CPUs while the host (external) rewrites  *)
(* each CPU's time information under its version number.                   *)
(*                                                                         *)
(* A read takes a consistent copy of the time information and then makes   *)
(* the result monotonic across CPUs with one global, last_value.           *)
(*                                                                         *)
(* The second part is the wall clock of the same file.  kvmclock_test      *)
(* reads it before its loops start, so it is a state machine of its own.   *)
(***************************************************************************)
EXTENDS Integers

CONSTANTS
    CPU,
    Modulus,        \* 2^64: the arithmetic is unsigned
    Mul, Frac, Div, \* scale_delta: shift delta, times Mul, over 2^32 (Frac)
    Offsets,        \* how far the host's clock of a CPU may be off
    RawCycle,       \* PVCLOCK_RAW_CYCLE_BIT of valid_flags
    MaxTsc,         \* bound: the largest value of the time stamp counter
    MaxUpdates,     \* bound: updates by the host
    Loops           \* loops of the test, on every CPU

ASSUME ModulusAssumption == Modulus \in Nat \ {0}
ASSUME ScaleAssumption == Mul \in Nat /\ Frac \in Nat \ {0} /\ Div \in Nat \ {0}
ASSUME BoundAssumption == MaxTsc \in Nat /\ MaxUpdates \in Nat /\ Loops \in Nat
ASSUME OffsetAssumption == Offsets \subseteq Nat /\ 0 \in Offsets
ASSUME RawAssumption == RawCycle \in BOOLEAN
ASSUME CpuAssumption == "free" \notin CPU

VARIABLES
    tsc, updates,
    stable,         \* the host's flags have PVCLOCK_TSC_STABLE_BIT
    version, stamp, system, \* per CPU: hv_clock[c]
    last_value,
    test_lock, test_last, warps, \* struct test_info
    pc, loop,       \* per CPU: where it is, loops left
    ver, tdelta, ret, last,      \* per CPU: locals of the read
    t1, t0, second, \* per CPU: locals of kvm_clock_test; second: the read into ->last
    good,           \* ghost: per CPU, the host's clock when the TSC was read
    top, floor      \* ghost: largest value returned; its value when a read began

host == <<tsc, updates, stable, version, stamp, system>>
test == <<test_lock, test_last, warps, loop, t1, t0, second>>
vars == <<tsc, updates, stable, version, stamp, system, last_value, test_lock, test_last, warps,
          pc, loop, ver, tdelta, ret, last, t1, t0, second, good, top, floor>>

Free == "free"

\* (delta >> -shift) * mul_frac >> 32
scale_delta(d) == ((d \div Div) * Mul) \div Frac

\* What the host's published values mean at time t.
HostClock(c, t) == (system[c] + scale_delta((t - stamp[c]) % Modulus)) % Modulus

Init ==
    /\ tsc = 0 /\ updates = 0
    /\ stable \in BOOLEAN
    /\ version = [c \in CPU |-> 0]
    /\ stamp = [c \in CPU |-> 0]
    /\ system \in IF stable THEN {[c \in CPU |-> 0]} ELSE [CPU -> Offsets]
    /\ last_value = 0
    /\ test_lock = Free /\ test_last = 0 /\ warps = 0
    /\ pc = [c \in CPU |-> "loop"]
    /\ loop = [c \in CPU |-> Loops]
    /\ ver = [c \in CPU |-> 0]
    /\ tdelta = [c \in CPU |-> 0]
    /\ ret = [c \in CPU |-> 0]
    /\ last = [c \in CPU |-> 0]
    /\ t1 = [c \in CPU |-> 0]
    /\ t0 = [c \in CPU |-> 0]
    /\ second = [c \in CPU |-> FALSE]
    /\ good = [c \in CPU |-> 0]
    /\ top = 0
    /\ floor = [c \in CPU |-> 0]

Goto(c, l) == pc' = [pc EXCEPT ![c] = l]

-----------------------------------------------------------------------------
(* The host. *)

Tick ==
    /\ tsc < MaxTsc
    /\ tsc' = tsc + 1
    /\ UNCHANGED <<updates, stable, version, stamp, system, last_value, test,
                   pc, ver, tdelta, ret, last, good, top, floor>>

\* An update makes the version odd, writes the values and makes it even.
HostBegin(c) ==
    /\ updates < MaxUpdates /\ version[c] % 2 = 0
    /\ version' = [version EXCEPT ![c] = @ + 1]
    /\ updates' = updates + 1
    /\ UNCHANGED <<tsc, stable, stamp, system, last_value, test,
                   pc, ver, tdelta, ret, last, good, top, floor>>

\* A host with a stable TSC gives all CPUs one reference and keeps it.
HostWrite(c) ==
    /\ version[c] % 2 = 1 /\ ~stable /\ stamp[c] # tsc
    /\ stamp' = [stamp EXCEPT ![c] = tsc]
    /\ \E o \in Offsets :
          system' = [system EXCEPT ![c] = (scale_delta(tsc) + o) % Modulus]
    /\ UNCHANGED <<tsc, updates, stable, version, last_value, test,
                   pc, ver, tdelta, ret, last, good, top, floor>>

HostEnd(c) ==
    /\ version[c] % 2 = 1
    /\ version' = [version EXCEPT ![c] = @ + 1]
    /\ UNCHANGED <<tsc, updates, stable, stamp, system, last_value, test,
                   pc, ver, tdelta, ret, last, good, top, floor>>

-----------------------------------------------------------------------------
(* pvclock_clocksource_read *)

\* Mutant: an odd version is taken as it is.
ReadBegin_Odd(c) ==
    /\ pc[c] = "begin"
    /\ ver' = [ver EXCEPT ![c] = version[c]]
    /\ Goto(c, "tsc")
    /\ UNCHANGED <<host, last_value, test, tdelta, ret, last, good, top, floor>>

\* version = src->version & ~1
ReadBegin(c) ==
    /\ pc[c] = "begin"
    /\ ver' = [ver EXCEPT ![c] = version[c] - (version[c] % 2)]
    /\ Goto(c, "tsc")
    /\ UNCHANGED <<host, last_value, test, tdelta, ret, last, good, top, floor>>

\* rdtsc_ordered()
ReadTsc(c) ==
    /\ pc[c] = "tsc"
    /\ tdelta' = [tdelta EXCEPT ![c] = tsc]
    /\ good' = [good EXCEPT ![c] = HostClock(c, tsc)]
    /\ Goto(c, "stamp")
    /\ UNCHANGED <<host, last_value, test, ver, ret, last, top, floor>>

\* delta = what it returned - src->tsc_timestamp
ReadStamp(c) ==
    /\ pc[c] = "stamp"
    /\ tdelta' = [tdelta EXCEPT ![c] = (@ - stamp[c]) % Modulus]
    /\ Goto(c, "system")
    /\ UNCHANGED <<host, last_value, test, ver, ret, last, good, top, floor>>

\* ret = src->system_time + scale_delta(delta)
ReadSystem(c) ==
    /\ pc[c] = "system"
    /\ ret' = [ret EXCEPT ![c] = (system[c] + scale_delta(tdelta[c])) % Modulus]
    /\ Goto(c, "retry")
    /\ UNCHANGED <<host, last_value, test, ver, tdelta, last, good, top, floor>>

\* Again if the version changed; then the flags decide about last_value.
ReadRetry(c) ==
    /\ pc[c] = "retry"
    /\ Goto(c, IF version[c] # ver[c] THEN "begin"
               ELSE IF RawCycle \/ stable THEN "return" ELSE "last")
    /\ UNCHANGED <<host, last_value, test, ver, tdelta, ret, last, good, top, floor>>

\* last = atomic64_read(&last_value)
ReadLast(c) ==
    /\ pc[c] = "last"
    /\ last' = [last EXCEPT ![c] = last_value]
    /\ Goto(c, "compare")
    /\ UNCHANGED <<host, last_value, test, ver, tdelta, ret, good, top, floor>>

\* Mutant: a CPU that is behind returns its own value.
Compare_Own(c) ==
    /\ pc[c] = "compare"
    /\ Goto(c, IF ret[c] < last[c] THEN "return" ELSE "cmpxchg")
    /\ UNCHANGED <<host, last_value, test, ver, tdelta, ret, last, good, top, floor>>

\* if (ret < last) return last
Compare(c) ==
    /\ pc[c] = "compare"
    /\ IF ret[c] < last[c]
       THEN ret' = [ret EXCEPT ![c] = last[c]] /\ Goto(c, "return")
       ELSE Goto(c, "cmpxchg") /\ UNCHANGED ret
    /\ UNCHANGED <<host, last_value, test, ver, tdelta, last, good, top, floor>>

\* Mutant: last_value = ret, whatever it is by now.
Cmpxchg_Store(c) ==
    /\ pc[c] = "cmpxchg"
    /\ last_value' = ret[c]
    /\ Goto(c, "return")
    /\ UNCHANGED <<host, test, ver, tdelta, ret, last, good, top, floor>>

\* last = atomic64_cmpxchg(&last_value, last, ret), until last = ret.  A
\* cmpxchg that succeeds returns the old value: the loop is taken once more.
Cmpxchg(c) ==
    /\ pc[c] = "cmpxchg"
    /\ last_value' = IF last_value = last[c] THEN ret[c] ELSE last_value
    /\ last' = [last EXCEPT ![c] = last_value]
    /\ Goto(c, IF last_value = ret[c] THEN "return" ELSE "compare")
    /\ UNCHANGED <<host, test, ver, tdelta, ret, good, top, floor>>

-----------------------------------------------------------------------------
(* kvm_clock_test: two reads under the lock of the test. *)

LoopBegin(c) ==
    /\ pc[c] = "loop" /\ loop[c] > 0
    /\ test_lock = Free
    /\ test_lock' = c
    /\ loop' = [loop EXCEPT ![c] = @ - 1]
    /\ second' = [second EXCEPT ![c] = FALSE]
    /\ floor' = [floor EXCEPT ![c] = top]
    /\ Goto(c, "begin")
    /\ UNCHANGED <<host, last_value, test_last, warps, t1, t0, ver, tdelta, ret, last, good, top>>

\* check == 0: the loop only reads.
LoopPlain(c) ==
    /\ pc[c] = "loop" /\ loop[c] > 0
    /\ loop' = [loop EXCEPT ![c] = @ - 1]
    /\ floor' = [floor EXCEPT ![c] = top]
    /\ Goto(c, "begin")
    /\ UNCHANGED <<host, last_value, test_lock, test_last, warps, t1, t0, second,
                   ver, tdelta, ret, last, good, top>>

\* A read returns: to a plain loop, into t1, or into hv_test_info->last.
Return(c) ==
    /\ pc[c] = "return"
    /\ top' = IF ret[c] > top THEN ret[c] ELSE top
    /\ IF test_lock # c
       THEN Goto(c, "loop") /\ UNCHANGED <<test, floor>>
       ELSE IF ~second[c]
       THEN /\ t1' = [t1 EXCEPT ![c] = ret[c]]
            /\ t0' = [t0 EXCEPT ![c] = test_last]
            /\ second' = [second EXCEPT ![c] = TRUE]
            /\ floor' = [floor EXCEPT ![c] = top']
            /\ Goto(c, "begin")
            /\ UNCHANGED <<test_lock, test_last, warps, loop>>
       ELSE /\ test_last' = ret[c]
            /\ test_lock' = Free
            /\ Goto(c, "delta")
            /\ UNCHANGED <<warps, loop, t1, t0, second, floor>>
    /\ UNCHANGED <<host, last_value, ver, tdelta, ret, last, good>>

\* delta = t1 - t0; a negative one is a warp, counted under the lock.
CountWarp(c) ==
    /\ pc[c] = "delta"
    /\ t1[c] < t0[c] => test_lock = Free
    /\ warps' = IF t1[c] < t0[c] THEN warps + 1 ELSE warps
    /\ Goto(c, "loop")
    /\ UNCHANGED <<host, last_value, test_lock, test_last, loop, t1, t0, second,
                   ver, tdelta, ret, last, good, top, floor>>

Host == Tick \/ \E c \in CPU : HostBegin(c) \/ HostWrite(c) \/ HostEnd(c)

Read(c) ==
    \/ ReadBegin(c) \/ ReadTsc(c) \/ ReadStamp(c) \/ ReadSystem(c) \/ ReadRetry(c)
    \/ ReadLast(c) \/ Compare(c) \/ Cmpxchg(c)

Loop(c) == LoopBegin(c) \/ LoopPlain(c) \/ Return(c) \/ CountWarp(c)

Next == Host \/ \E c \in CPU : Read(c) \/ Loop(c)

Spec == Init /\ [][Next]_vars

-----------------------------------------------------------------------------
(* Properties. *)

Word == 0..(Modulus - 1)

TypeOK ==
    /\ tsc \in Nat /\ last_value \in Nat /\ top \in Nat /\ test_last \in Nat
    /\ stable \in BOOLEAN
    /\ version \in [CPU -> Nat] /\ stamp \in [CPU -> Nat] /\ system \in [CPU -> Nat]
    /\ pc \in [CPU -> {"loop", "begin", "tsc", "stamp", "system", "retry", "last", "compare",
                       "cmpxchg", "return", "delta"}]
    /\ tdelta \in [CPU -> Nat] /\ ret \in [CPU -> Nat] /\ last \in [CPU -> Nat]
    /\ floor \in [CPU -> Nat]

\* When a read leaves its retry loop, its value is the host's clock at the
\* moment the TSC was read: never a new time stamp with an old system time.
SnapshotConsistent ==
    \A c \in CPU : pc[c] \in {"last", "return"} /\ (pc[c] = "return" => stable)
        => ret[c] = good[c]

\* "last_value, a global accumulator, always goes forward" (kvmclock.c:201),
\* also when two CPUs update it at the same time.
LastForward == [][last_value' >= last_value]_vars

\* Without a stable TSC, a read never returns less than any read, on any CPU,
\* that had ended before it began.
Monotonic == \A c \in CPU : (pc[c] = "return" /\ ~RawCycle /\ ~stable) => ret[c] >= floor[c]

\* Why: last_value is never below what a CPU has returned, and a CPU that is
\* about to write it is not behind the value that it has seen.
Accumulates ==
    /\ \A c \in CPU : pc[c] = "cmpxchg" => last[c] <= ret[c]
    /\ (~stable /\ ~RawCycle) =>
        /\ top <= last_value
        /\ \A c \in CPU :
              /\ floor[c] <= top
              /\ pc[c] \in {"compare", "cmpxchg", "return"} => floor[c] <= last[c]
              /\ pc[c] \in {"compare", "cmpxchg"} => last[c] <= last_value
              /\ pc[c] = "return" => last[c] <= ret[c] /\ ret[c] <= last_value

IndInv == TypeOK /\ Accumulates

\* "Monotonic cycle test" (kvmclock_test.c:142): the test counts no warp.
NoWarps == ~RawCycle => warps = 0

\* Whatever the host rewrites while it is read, a copy of a CPU's time
\* information (kvmclock.c) is one that the host published, and the loop of
\* kvmclock_test sees no clock go back.
ClockReads == SnapshotConsistent /\ NoWarps

\* Why the copies are good: the version that a read began with is even, so
\* while the version is the same the host has written nothing.
Snapshot ==
    /\ ver \in [CPU -> Nat] /\ good \in [CPU -> Nat]
    /\ \A c \in CPU :
        /\ pc[c] \in {"tsc", "stamp", "system", "retry"} => ver[c] % 2 = 0 /\ ver[c] <= version[c]
        /\ pc[c] = "stamp" /\ version[c] = ver[c]
             => good[c] = (system[c] + scale_delta((tdelta[c] - stamp[c]) % Modulus)) % Modulus
        /\ pc[c] = "system" /\ version[c] = ver[c]
             => good[c] = (system[c] + scale_delta(tdelta[c])) % Modulus
        /\ pc[c] = "retry" /\ version[c] = ver[c] => ret[c] = good[c]
        /\ pc[c] = "last" => ret[c] = good[c]
        /\ pc[c] = "return" /\ stable => ret[c] = good[c]
        /\ stable => pc[c] \notin {"last", "compare", "cmpxchg"}

\* Why no CPU sees a stable clock go back: all of them scale one counter.
OneClock ==
    /\ tsc <= MaxTsc
    /\ stable =>
        /\ top <= scale_delta(tsc)
        /\ \A c \in CPU :
            /\ system[c] = 0 /\ stamp[c] = 0 /\ floor[c] <= top
            /\ pc[c] \in {"stamp", "system"} => tdelta[c] <= tsc /\ floor[c] <= scale_delta(tdelta[c])
            /\ pc[c] \in {"retry", "return"} => floor[c] <= ret[c] /\ ret[c] <= scale_delta(tsc)

\* Why the test counts no warp: the read into t1 begins after the one that
\* test_last is from has ended, since both are made under the lock.
Ordered ==
    /\ warps \in Nat /\ test_lock \in CPU \cup {Free}
    /\ t0 \in [CPU -> Nat] /\ t1 \in [CPU -> Nat] /\ second \in [CPU -> BOOLEAN]
    /\ \A c \in CPU : test_lock = c => pc[c] \notin {"loop", "delta"}
    /\ ~RawCycle =>
        /\ warps = 0 /\ test_last <= top
        /\ \A c \in CPU :
            /\ test_lock = c /\ ~second[c] => test_last <= floor[c]
            /\ (test_lock = c /\ second[c]) \/ pc[c] = "delta" => t0[c] <= t1[c]

-----------------------------------------------------------------------------
(***************************************************************************)
(* Reading the wall clock (pvclock_read_wallclock of x86/kvmclock.c): a    *)
(* consistent copy of the host's seconds and nanoseconds, the time since   *)
(* boot added, and the division that turns the sum into a timespec.        *)
(*                                                                         *)
(* The division is __div64_32, in steps, on words of which U32 fit one     *)
(* half: a shift-and-subtract loop whose doubling must stop at the sign    *)
(* bit.                                                                    *)
(***************************************************************************)

CONSTANTS
    U32,        \* how many values a u32 has: 2^32
    Bases,      \* NSEC_PER_SEC and other divisors
    MaxWrites   \* bound: updates of the wall clock by the host

U64 == U32 * U32
Signed(b) == IF b >= U64 \div 2 THEN b - U64 ELSE b    \* (s64) b

VARIABLES
    w_version, sec, nsec,   \* wall_clock, written by the host
    w_pc,
    w_ver, now, nowns,  \* the copy
    base, n,            \* divisor and dividend, as do_div got them
    rem, b, d, res,     \* locals of __div64_32
    w_good              \* ghost: the host's published <<sec, nsec>> when the version was read

wallVars == <<w_version, sec, nsec, w_pc, w_ver, now, nowns, base, n, rem, b, d, res, w_good>>
wall == <<w_version, sec, nsec>>
copy == <<w_ver, now, nowns, w_good>>
div  == <<n, rem, b, d, res>>

WallInit ==
    /\ base \in Bases
    /\ w_version = 0 /\ sec = 0 /\ nsec = 0
    /\ w_pc = "version"
    /\ w_ver = 0 /\ now = 0 /\ nowns = 0 /\ w_good = <<0, 0>>
    /\ n = 0 /\ rem = 0 /\ b = 0 /\ d = 0 /\ res = 0

\* The host: version odd, seconds, nanoseconds, version even.  The seconds
\* count the updates, and so do the nanoseconds.
HostVersion ==
    /\ w_version % 2 = 0 /\ w_version < 2 * MaxWrites /\ w_pc \in {"version", "sec", "nsec", "odd", "check"}
    /\ w_version' = w_version + 1
    /\ UNCHANGED <<sec, nsec, w_pc, copy, base, div>>

HostSec ==
    /\ w_version % 2 = 1 /\ sec = nsec
    /\ sec' = sec + 1
    /\ UNCHANGED <<w_version, nsec, w_pc, copy, base, div>>

HostNsec ==
    /\ w_version % 2 = 1 /\ sec # nsec
    /\ nsec' = nsec + 1
    /\ w_version' = w_version + 1
    /\ UNCHANGED <<sec, w_pc, copy, base, div>>

-----------------------------------------------------------------------------
(* pvclock_read_wallclock *)

ReadVersion ==
    /\ w_pc = "version"
    /\ w_ver' = w_version
    /\ w_good' = <<sec, nsec>>
    /\ w_pc' = "sec"
    /\ UNCHANGED <<wall, now, nowns, base, div>>

ReadSec ==
    /\ w_pc = "sec"
    /\ now' = sec
    /\ w_pc' = "nsec"
    /\ UNCHANGED <<wall, w_ver, nowns, w_good, base, div>>

ReadNsec ==
    /\ w_pc = "nsec"
    /\ nowns' = nsec
    /\ w_pc' = "odd"
    /\ UNCHANGED <<wall, w_ver, now, w_good, base, div>>

\* Mutant: an odd version is not noticed.
CheckOdd_Never ==
    /\ w_pc = "odd" /\ w_pc' = "check"
    /\ UNCHANGED <<wall, copy, base, div>>

\* while ((wall_clock->version & 1) || ...
CheckOdd ==
    /\ w_pc = "odd"
    /\ w_pc' = IF w_version % 2 = 1 THEN "version" ELSE "check"
    /\ UNCHANGED <<wall, copy, base, div>>

\* ... || version != wall_clock->version), which reads it again; then the sum of
\* the copy and of the time since boot, which is any number here, is divided.
Check ==
    /\ w_pc = "check"
    /\ IF w_ver # w_version
       THEN w_pc' = "version" /\ UNCHANGED n
       ELSE \E t \in 0..(U64 - 1) : n' = t /\ w_pc' = "divide"
    /\ UNCHANGED <<wall, copy, base, rem, b, d, res>>

-----------------------------------------------------------------------------
(* do_div and __div64_32 *)

\* A dividend of 32 bits is divided directly; otherwise the high half is
\* reduced first.
Divide ==
    LET high == n \div U32 IN
    /\ w_pc = "divide"
    /\ IF high = 0
       THEN rem' = n % base /\ res' = n \div base /\ w_pc' = "done" /\ UNCHANGED <<b, d>>
       ELSE /\ b' = base /\ d' = 1
            /\ IF high >= base
               THEN /\ res' = ((high \div base) * U32) % U64
                    /\ rem' = n - (((high \div base) * base) % U32) * U32
               ELSE res' = 0 /\ rem' = n
            /\ w_pc' = "grow"
    /\ UNCHANGED <<wall, copy, base, n>>

\* Mutant: the doubling stops when the next step would reach rem.
Grow_Early ==
    /\ w_pc = "grow"
    /\ IF Signed(b) > 0 /\ b + b < rem
       THEN b' = (b + b) % U64 /\ d' = (d + d) % U64 /\ UNCHANGED w_pc
       ELSE w_pc' = "subtract" /\ UNCHANGED <<b, d>>
    /\ UNCHANGED <<wall, copy, base, n, rem, res>>

\* while ((s64)b > 0 && b < rem) double
Grow ==
    /\ w_pc = "grow"
    /\ IF Signed(b) > 0 /\ b < rem
       THEN b' = (b + b) % U64 /\ d' = (d + d) % U64 /\ UNCHANGED w_pc
       ELSE w_pc' = "subtract" /\ UNCHANGED <<b, d>>
    /\ UNCHANGED <<wall, copy, base, n, rem, res>>

\* Mutant: > instead of >=.
Subtract_Strict ==
    /\ w_pc = "subtract"
    /\ rem' = IF rem > b THEN rem - b ELSE rem
    /\ res' = IF rem > b THEN (res + d) % U64 ELSE res
    /\ b' = b \div 2 /\ d' = d \div 2
    /\ w_pc' = IF d \div 2 = 0 THEN "done" ELSE "subtract"
    /\ UNCHANGED <<wall, copy, base, n>>

\* do { if (rem >= b) ...; b >>= 1; d >>= 1; } while (d)
Subtract ==
    /\ w_pc = "subtract"
    /\ rem' = IF rem >= b THEN rem - b ELSE rem
    /\ res' = IF rem >= b THEN (res + d) % U64 ELSE res
    /\ b' = b \div 2 /\ d' = d \div 2
    /\ w_pc' = IF d \div 2 = 0 THEN "done" ELSE "subtract"
    /\ UNCHANGED <<wall, copy, base, n>>

WallNext ==
    \/ HostVersion \/ HostSec \/ HostNsec
    \/ ReadVersion \/ ReadSec \/ ReadNsec \/ CheckOdd \/ Check
    \/ Divide \/ Grow \/ Subtract

WallSpec == WallInit /\ [][WallNext]_wallVars

-----------------------------------------------------------------------------
(* Properties. *)

\* The copy that is used is one the host published: never the seconds of
\* one update with the nanoseconds of another.
CopyConsistent ==
    w_pc \in {"divide", "grow", "subtract", "done"} => w_good = <<now, nowns>> /\ now = nowns

\* do_div leaves the quotient and returns the remainder, for every dividend,
\* so that 0 <= tv_nsec < NSEC_PER_SEC without set_normalized_timespec.
Quotient == w_pc = "done" => res = n \div base /\ rem = n % base

\* pvclock_read_wallclock (kvmclock.c:249) divides a time that the host
\* published, and divides it right.
WallReads == CopyConsistent /\ Quotient
=============================================================================
