----------------------------- MODULE ClockProofs -----------------------------
(***************************************************************************)
(* Proofs about the clocks.                                                *)
(*                                                                         *)
(* PvClock: last_value never goes back, reads of any number of CPUs are    *)
(* monotonic, take copies of one update, and kvmclock_test counts no warp; *)
(* the wall clock is copied from one update and divided right.             *)
(*                                                                         *)
(* HvClock: where the sequence is copied behind the values of the TSC      *)
(* page, an update during the copy shows in it.                            *)
(***************************************************************************)
EXTENDS PvClock, HvClock, TLAPS

-----------------------------------------------------------------------------
(***************************************************************************)
(* Proofs.  The accumulator: last_value never goes back, and reads of any  *)
(* number of CPUs are monotonic whatever the host writes into their time   *)
(* information.  Then the copies: a read that leaves its retry loop has    *)
(* the values of one update.  Last, kvmclock_test: it counts no warp.      *)
(***************************************************************************)

USE ModulusAssumption, ScaleAssumption, BoundAssumption, OffsetAssumption, RawAssumption

\* Scaling yields a natural number.
LEMMA ScaleNat ==
    ASSUME NEW e \in Nat
    PROVE  scale_delta(e) \in Nat
  <1>1. e \div Div \in Nat
    OBVIOUS
  <1>2. (e \div Div) * Mul \in Nat
    BY <1>1
  <1>3. \A x \in Nat : x \div Frac \in Nat
    OBVIOUS
  <1> QED
    BY <1>2, <1>3 DEF scale_delta

\* A sum taken modulo 2^64 is a natural number.
LEMMA WrapNat ==
    ASSUME NEW x \in Int
    PROVE  x % Modulus \in Nat
  OBVIOUS

\* The host's steps and the clock's ticks.
LEMMA HostTypes ==
    ASSUME TypeOK, Host
    PROVE  TypeOK'
  <1>1. CASE Tick
    BY <1>1 DEF Tick, TypeOK, test
  <1>2. ASSUME NEW c \in CPU, HostBegin(c) PROVE TypeOK'
    BY <1>2 DEF HostBegin, TypeOK, test
  <1>3. ASSUME NEW c \in CPU, HostWrite(c) PROVE TypeOK'
    <2>1. PICK o \in Offsets : system' = [system EXCEPT ![c] = (scale_delta(tsc) + o) % Modulus]
      BY <1>3 DEF HostWrite
    <2>2. scale_delta(tsc) + o \in Int
      BY ScaleNat DEF TypeOK
    <2>3. (scale_delta(tsc) + o) % Modulus \in Nat
      BY <2>2, WrapNat
    <2>4. system' \in [CPU -> Nat]
      BY <2>1, <2>3 DEF TypeOK
    <2>5. stamp' \in [CPU -> Nat]
      BY <1>3 DEF HostWrite, TypeOK
    <2> QED
      BY <1>3, <2>4, <2>5 DEF HostWrite, TypeOK, test
  <1>4. ASSUME NEW c \in CPU, HostEnd(c) PROVE TypeOK'
    BY <1>4 DEF HostEnd, TypeOK, test
  <1> QED
    BY <1>1, <1>2, <1>3, <1>4 DEF Host

\* The steps of a read.
LEMMA ReadTypes ==
    ASSUME TypeOK, NEW c \in CPU, Read(c)
    PROVE  TypeOK'
  <1>1. CASE ReadBegin(c)
    BY <1>1 DEF ReadBegin, TypeOK, host, test, Goto
  <1>2. CASE ReadTsc(c) \/ ReadStamp(c)
    <2>1. (tdelta[c] - stamp[c]) % Modulus \in Nat
      <3>1. tdelta[c] - stamp[c] \in Int
        BY DEF TypeOK
      <3> QED
        BY <3>1, WrapNat
    <2> QED
      BY <1>2, <2>1 DEF ReadTsc, ReadStamp, TypeOK, host, test, Goto
  <1>3. CASE ReadSystem(c)
    <2>1. scale_delta(tdelta[c]) \in Nat
      BY ScaleNat DEF TypeOK
    <2>2. (system[c] + scale_delta(tdelta[c])) % Modulus \in Nat
      <3>1. system[c] + scale_delta(tdelta[c]) \in Int
        BY <2>1 DEF TypeOK
      <3> QED
        BY <3>1, WrapNat
    <2> QED
      BY <1>3, <2>2 DEF ReadSystem, TypeOK, host, test, Goto
  <1>4. CASE ReadRetry(c)
    BY <1>4 DEF ReadRetry, TypeOK, host, test, Goto
  <1>5. CASE ReadLast(c)
    BY <1>5 DEF ReadLast, TypeOK, host, test, Goto
  <1>6. CASE Compare(c)
    BY <1>6 DEF Compare, TypeOK, host, test, Goto
  <1>7. CASE Cmpxchg(c)
    BY <1>7 DEF Cmpxchg, TypeOK, host, test, Goto
  <1> QED
    BY <1>1, <1>2, <1>3, <1>4, <1>5, <1>6, <1>7 DEF Read

\* The steps of the test's loop.
LEMMA LoopTypes ==
    ASSUME TypeOK, NEW c \in CPU, Loop(c)
    PROVE  TypeOK'
  <1>1. CASE LoopBegin(c)
    BY <1>1 DEF LoopBegin, TypeOK, host, Goto
  <1>2. CASE LoopPlain(c)
    BY <1>2 DEF LoopPlain, TypeOK, host, Goto
  <1>3. CASE Return(c)
    <2>1. top' \in Nat
      BY <1>3 DEF Return, TypeOK
    <2>2. floor' \in [CPU -> Nat]
      BY <1>3, <2>1 DEF Return, TypeOK
    <2>3. test_last' \in Nat
      BY <1>3 DEF Return, TypeOK, test
    <2>4. pc' \in [CPU -> {"loop", "begin", "tsc", "stamp", "system", "retry", "last", "compare",
                           "cmpxchg", "return", "delta"}]
      BY <1>3 DEF Return, TypeOK, Goto
    <2> QED
      BY <1>3, <2>1, <2>2, <2>3, <2>4 DEF Return, TypeOK, host
  <1>4. CASE CountWarp(c)
    BY <1>4 DEF CountWarp, TypeOK, host, Goto
  <1> QED
    BY <1>1, <1>2, <1>3, <1>4 DEF Loop

\* What a step must leave alone for the accumulator's invariant to be kept
\* trivially: the values, and the phase of every CPU from "compare" on.
LEMMA Untouched ==
    ASSUME IndInv, TypeOK',
           UNCHANGED <<stable, last_value, top, floor, last>>,
           \A e \in CPU : pc'[e] \in {"compare", "cmpxchg", "return"}
                            => pc[e] = pc'[e] /\ ret'[e] = ret[e]
    PROVE  Accumulates'
  BY DEF IndInv, Accumulates, TypeOK

\* The accumulator's invariant is kept by every step.
LEMMA Inductive ==
    ASSUME IndInv, [Next]_vars
    PROVE  IndInv'
  <1> USE DEF IndInv
  <1>1. CASE Host
    <2>1. UNCHANGED <<stable, last_value, top, floor, last, pc, ret>>
      BY <1>1 DEF Host, Tick, HostBegin, HostWrite, HostEnd
    <2>2. TypeOK'
      BY <1>1, HostTypes
    <2> QED
      BY <2>1, <2>2, Untouched
  <1>2. ASSUME NEW c \in CPU, Read(c) PROVE IndInv'
    <2>1. TypeOK'
      BY <1>2, ReadTypes
    <2>2. CASE ReadBegin(c)
      BY <2>1, <2>2, Untouched DEF ReadBegin, TypeOK, host, Goto
    <2>3. CASE ReadTsc(c) \/ ReadStamp(c)
      BY <2>1, <2>3, Untouched DEF ReadTsc, ReadStamp, TypeOK, host, Goto
    <2>4. CASE ReadSystem(c)
      BY <2>1, <2>4, Untouched DEF ReadSystem, TypeOK, host, Goto
    <2>5. CASE ReadRetry(c)
      <3>1. UNCHANGED <<stable, last_value, top, floor, last, ret>>
        BY <2>5 DEF ReadRetry, host
      <3>2. \A e \in CPU : e # c => pc'[e] = pc[e]
        BY <2>5 DEF ReadRetry, Goto, TypeOK
      <3>3. pc'[c] \in {"begin", "last", "return"} /\ (pc'[c] = "return" => RawCycle \/ stable)
        BY <2>5 DEF ReadRetry, Goto, TypeOK
      <3> QED
        BY <2>1, <3>1, <3>2, <3>3 DEF Accumulates, TypeOK
    <2>6. CASE ReadLast(c)
      <3>1. /\ UNCHANGED <<stable, last_value, top, floor, ret>>
            /\ last' = [last EXCEPT ![c] = last_value]
            /\ pc' = [pc EXCEPT ![c] = "compare"]
        BY <2>6 DEF ReadLast, host, Goto
      <3> QED
        BY <2>1, <3>1 DEF Accumulates, TypeOK
    <2>7. CASE Compare(c)
      <3>1. UNCHANGED <<stable, last_value, top, floor, last>> /\ pc[c] = "compare"
        BY <2>7 DEF Compare, host
      <3>2. CASE ret[c] < last[c]
        <4>1. ret' = [ret EXCEPT ![c] = last[c]] /\ pc' = [pc EXCEPT ![c] = "return"]
          BY <2>7, <3>2 DEF Compare, Goto
        <4> QED
          BY <2>1, <3>1, <4>1 DEF Accumulates, TypeOK
      <3>3. CASE ~(ret[c] < last[c])
        <4>1. ret' = ret /\ pc' = [pc EXCEPT ![c] = "cmpxchg"]
          BY <2>7, <3>3 DEF Compare, Goto
        <4> QED
          BY <2>1, <3>1, <3>3, <4>1 DEF Accumulates, TypeOK
      <3> QED
        BY <3>2, <3>3
    <2>8. CASE Cmpxchg(c)
      <3>1. /\ UNCHANGED <<stable, top, floor, ret>>
            /\ pc[c] = "cmpxchg"
            /\ last_value' = IF last_value = last[c] THEN ret[c] ELSE last_value
            /\ last' = [last EXCEPT ![c] = last_value]
            /\ pc' = [pc EXCEPT ![c] = IF last_value = ret[c] THEN "return" ELSE "compare"]
        BY <2>8 DEF Cmpxchg, host, Goto
      <3>2. last_value <= last_value' /\ last_value' \in Nat
        BY <3>1 DEF Accumulates, TypeOK
      <3> QED
        BY <2>1, <3>1, <3>2 DEF Accumulates, TypeOK
    <2> QED
      BY <1>2, <2>1, <2>2, <2>3, <2>4, <2>5, <2>6, <2>7, <2>8 DEF Read
  <1>3. ASSUME NEW c \in CPU, Loop(c) PROVE IndInv'
    <2>1. TypeOK'
      BY <1>3, LoopTypes
    <2>2. CASE LoopBegin(c)
      <3>1. /\ UNCHANGED <<stable, last_value, top, last, ret>>
            /\ floor' = [floor EXCEPT ![c] = top]
            /\ pc' = [pc EXCEPT ![c] = "begin"]
        BY <2>2 DEF LoopBegin, host, Goto
      <3> QED
        BY <2>1, <3>1 DEF Accumulates, TypeOK
    <2>3. CASE LoopPlain(c)
      <3>1. /\ UNCHANGED <<stable, last_value, top, last, ret>>
            /\ floor' = [floor EXCEPT ![c] = top]
            /\ pc' = [pc EXCEPT ![c] = "begin"]
        BY <2>3 DEF LoopPlain, host, Goto
      <3> QED
        BY <2>1, <3>1 DEF Accumulates, TypeOK
    <2>4. CASE Return(c)
      <3>1. /\ UNCHANGED <<stable, last_value, last, ret>>
            /\ pc[c] = "return"
            /\ top' = IF ret[c] > top THEN ret[c] ELSE top
        BY <2>4 DEF Return, host
      <3>2. floor' = floor \/ floor' = [floor EXCEPT ![c] = top']
        BY <2>4 DEF Return
      <3>3. /\ \A e \in CPU : e # c => pc'[e] = pc[e]
            /\ pc'[c] \in {"loop", "begin", "delta"}
        BY <2>4 DEF Return, Goto, TypeOK
      <3>4. top <= top' /\ top' \in Nat
        BY <3>1 DEF TypeOK
      <3>5. \A e \in CPU : e # c => floor'[e] = floor[e]
        BY <3>2 DEF TypeOK
      <3>6. (~stable /\ ~RawCycle) => top' <= last_value
        BY <3>1 DEF Accumulates, TypeOK
      <3>7. (~stable /\ ~RawCycle) => floor'[c] <= top'
        BY <3>2, <3>4 DEF Accumulates, TypeOK
      <3> QED
        BY <2>1, <3>1, <3>3, <3>4, <3>5, <3>6, <3>7 DEF Accumulates, TypeOK
    <2>5. CASE CountWarp(c)
      BY <2>1, <2>5, Untouched DEF CountWarp, TypeOK, host, Goto
    <2> QED
      BY <1>3, <2>1, <2>2, <2>3, <2>4, <2>5 DEF Loop
  <1>4. CASE UNCHANGED vars
    BY <1>4 DEF vars, TypeOK, Accumulates
  <1> QED
    BY <1>1, <1>2, <1>3, <1>4 DEF Next

\* The initial state satisfies the invariant.
LEMMA Initially == Init => IndInv
  <1> SUFFICES ASSUME Init PROVE IndInv
    OBVIOUS
  <1>1. system \in [CPU -> Nat]
    BY DEF Init
  <1>2. stable \in BOOLEAN
    BY DEF Init
  <1>3. TypeOK
    BY <1>1, <1>2 DEF Init, TypeOK
  <1>4. Accumulates
    BY DEF Init, Accumulates
  <1> QED
    BY <1>3, <1>4 DEF IndInv

\* The invariant behind the two theorems below.
THEOREM Invariance == Spec => []IndInv
  BY Initially, Inductive, PTL DEF Spec

\* pvclock_clocksource_read is monotonic over all CPUs while the TSC is not
\* stable: whatever the host publishes, a read that begins after another has
\* ended does not return less.
THEOREM MonotonicCorrect == Spec => []Monotonic
  <1>1. IndInv => Monotonic
    BY DEF IndInv, TypeOK, Accumulates, Monotonic
  <1> QED
    BY <1>1, Invariance, PTL

\* The comment at kvmclock.c:201: last_value always goes forward.
THEOREM LastForwardCorrect == Spec => LastForward
  <1>1. IndInv /\ [Next]_vars => [last_value' >= last_value]_vars
    <2> SUFFICES ASSUME IndInv, [Next]_vars PROVE last_value' >= last_value
      OBVIOUS
    <2>1. CASE Host
      BY <2>1 DEF Host, Tick, HostBegin, HostWrite, HostEnd, IndInv, TypeOK
    <2>2. ASSUME NEW c \in CPU, Cmpxchg(c) PROVE last_value' >= last_value
      BY <2>2 DEF Cmpxchg, IndInv, TypeOK, Accumulates
    <2>3. ASSUME NEW c \in CPU, Read(c), ~Cmpxchg(c) PROVE last_value' >= last_value
      BY <2>3 DEF Read, ReadBegin, ReadTsc, ReadStamp, ReadSystem, ReadRetry, ReadLast, Compare,
                  IndInv, TypeOK
    <2>4. ASSUME NEW c \in CPU, Loop(c) PROVE last_value' >= last_value
      BY <2>4 DEF Loop, LoopBegin, LoopPlain, Return, CountWarp, IndInv, TypeOK
    <2>5. CASE UNCHANGED vars
      BY <2>5 DEF vars, IndInv, TypeOK
    <2> QED
      BY <2>1, <2>2, <2>3, <2>4, <2>5 DEF Next
  <1> QED
    BY <1>1, Invariance, PTL DEF Spec, LastForward

-----------------------------------------------------------------------------
(* The copies. *)

\* The host's steps: a version that grows leaves every read that began before
\* with another one, and the values are written while it is odd.
LEMMA HostSnapshot ==
    ASSUME IndInv, Snapshot, Host
    PROVE  Snapshot'
  <1> USE DEF IndInv, TypeOK
  <1>1. UNCHANGED <<pc, ver, good, ret, tdelta, stable>>
    BY DEF Host, Tick, HostBegin, HostWrite, HostEnd
  <1>2. CASE Tick
    BY <1>1, <1>2 DEF Tick, Snapshot
  <1>3. ASSUME NEW c \in CPU, HostBegin(c) PROVE Snapshot'
    <2>1. /\ UNCHANGED <<system, stamp>> /\ version[c] % 2 = 0
          /\ version' = [version EXCEPT ![c] = @ + 1]
      BY <1>3 DEF HostBegin
    <2>2. version'[c] % 2 = 1
      BY <2>1
    <2> QED
      BY <1>1, <2>1, <2>2 DEF Snapshot
  <1>4. ASSUME NEW c \in CPU, HostWrite(c) PROVE Snapshot'
    <2>1. /\ UNCHANGED version /\ version[c] % 2 = 1
          /\ \A e \in CPU : e # c => system'[e] = system[e] /\ stamp'[e] = stamp[e]
      BY <1>4 DEF HostWrite
    <2> QED
      BY <1>1, <2>1 DEF Snapshot
  <1>5. ASSUME NEW c \in CPU, HostEnd(c) PROVE Snapshot'
    <2>1. /\ UNCHANGED <<system, stamp>> /\ version[c] % 2 = 1
          /\ version' = [version EXCEPT ![c] = @ + 1]
      BY <1>5 DEF HostEnd
    <2>2. pc[c] \in {"tsc", "stamp", "system", "retry"} => ver[c] < version[c]
      BY <2>1 DEF Snapshot
    <2> QED
      BY <1>1, <2>1, <2>2 DEF Snapshot
  <1> QED
    BY <1>2, <1>3, <1>4, <1>5 DEF Host

\* The steps of a read.
LEMMA ReadSnapshot ==
    ASSUME IndInv, Snapshot, NEW c \in CPU, Read(c)
    PROVE  Snapshot'
  <1> USE DEF IndInv, TypeOK
  <1>1. UNCHANGED <<stable, version, stamp, system>>
    BY DEF Read, ReadBegin, ReadTsc, ReadStamp, ReadSystem, ReadRetry, ReadLast, Compare, Cmpxchg, host
  <1>2. CASE ReadBegin(c)
    <2>1. LET v == version[c] - (version[c] % 2) IN v \in Nat /\ v % 2 = 0 /\ v <= version[c]
      OBVIOUS
    <2> QED
      BY <1>1, <1>2, <2>1 DEF ReadBegin, Goto, Snapshot
  <1>3. CASE ReadTsc(c)
    <2>1. HostClock(c, tsc) \in Nat
      <3>1. (tsc - stamp[c]) % Modulus \in Nat
        BY WrapNat
      <3>2. system[c] + scale_delta((tsc - stamp[c]) % Modulus) \in Int
        BY <3>1, ScaleNat
      <3> QED
        BY <3>2, WrapNat DEF HostClock
    <2>2. /\ tdelta' = [tdelta EXCEPT ![c] = tsc]
          /\ good' = [good EXCEPT ![c] = HostClock(c, tsc)]
          /\ pc' = [pc EXCEPT ![c] = "stamp"] /\ pc[c] = "tsc"
          /\ UNCHANGED <<ver, ret>>
      BY <1>3 DEF ReadTsc, Goto
    <2>4. good'[c] = (system[c] + scale_delta((tdelta'[c] - stamp[c]) % Modulus)) % Modulus
      <3>1. good'[c] = HostClock(c, tsc) /\ tdelta'[c] = tsc
        BY <2>2 DEF Snapshot
      <3> QED
        BY <3>1 DEF HostClock
    <2> QED
      BY <1>1, <2>1, <2>2, <2>4 DEF Snapshot
  <1>3a. CASE ReadStamp(c)
    <2>1. /\ tdelta' = [tdelta EXCEPT ![c] = (tdelta[c] - stamp[c]) % Modulus]
          /\ pc' = [pc EXCEPT ![c] = "system"] /\ pc[c] = "stamp"
          /\ UNCHANGED <<ver, ret, good>>
      BY <1>3a DEF ReadStamp, Goto
    <2> QED
      BY <1>1, <2>1 DEF Snapshot
  <1>4. CASE ReadSystem(c)
    BY <1>1, <1>4 DEF ReadSystem, Goto, Snapshot
  <1>5. CASE ReadRetry(c)
    BY <1>1, <1>5 DEF ReadRetry, Goto, Snapshot
  <1>6. CASE ReadLast(c)
    BY <1>1, <1>6 DEF ReadLast, Goto, Snapshot
  <1>7. CASE Compare(c)
    BY <1>1, <1>7 DEF Compare, Goto, Snapshot
  <1>8. CASE Cmpxchg(c)
    BY <1>1, <1>8 DEF Cmpxchg, Goto, Snapshot
  <1> QED
    BY <1>2, <1>3, <1>3a, <1>4, <1>5, <1>6, <1>7, <1>8 DEF Read

\* The loop of the test starts reads and ends them.
LEMMA LoopSnapshot ==
    ASSUME IndInv, Snapshot, NEW c \in CPU, Loop(c)
    PROVE  Snapshot'
  <1>1. UNCHANGED <<stable, version, stamp, system, ver, good, ret, tdelta>>
    BY DEF Loop, LoopBegin, LoopPlain, Return, CountWarp, host
  <1>2. /\ \A e \in CPU : e # c => pc'[e] = pc[e]
        /\ pc'[c] \in {"begin", "loop", "delta"}
    BY DEF Loop, LoopBegin, LoopPlain, Return, CountWarp, Goto, IndInv, TypeOK
  <1> QED
    BY <1>1, <1>2 DEF Snapshot

\* Every copy that a read leaves its retry loop with is one that the host
\* published (kvmclock.c:145-198), for any number of CPUs and updates.
THEOREM SnapshotCorrect == Spec => []SnapshotConsistent
  <1>1. Init => Snapshot
    BY DEF Init, Snapshot
  <1>2. IndInv /\ Snapshot /\ [Next]_vars => Snapshot'
    <2>1. IndInv /\ Snapshot /\ UNCHANGED vars => Snapshot'
      BY DEF vars, Snapshot
    <2> QED
      BY <2>1, HostSnapshot, ReadSnapshot, LoopSnapshot DEF Next
  <1>3. Snapshot => SnapshotConsistent
    BY DEF Snapshot, SnapshotConsistent
  <1> QED
    BY <1>1, <1>2, <1>3, Invariance, PTL DEF Spec

-----------------------------------------------------------------------------
(* The test. *)

\* The counter and the time it stands for stay within a word: at 1 GHz, 2^64
\* nanoseconds are more than five centuries.
NoWrap == MaxTsc < Modulus /\ scale_delta(MaxTsc) < Modulus

\* Division is monotonic.
LEMMA DivMono ==
    ASSUME NEW x \in Nat, NEW y \in Nat, NEW k \in Nat \ {0}, x <= y
    PROVE  x \div k <= y \div k
  <1> DEFINE p == x \div k
             q == y \div k
  <1>1. /\ p \in Int /\ q \in Int /\ x % k \in 0..(k - 1) /\ y % k \in 0..(k - 1)
        /\ x = k * p + (x % k) /\ y = k * q + (y % k)
    OBVIOUS
  <1> HIDE DEF p, q
  <1>2. CASE p >= q + 1
    <2>1. k * p >= k * (q + 1)
      BY <1>1, <1>2
    <2> QED
      BY <1>1, <2>1
  <1> QED
    BY <1>1, <1>2 DEF p, q

\* A later time stamp stands for no earlier time.
LEMMA ScaleMono ==
    ASSUME NEW e \in Nat, NEW f \in Nat, e <= f
    PROVE  scale_delta(e) <= scale_delta(f)
  <1>1. e \div Div <= f \div Div /\ e \div Div \in Nat /\ f \div Div \in Nat
    BY DivMono
  <1>2. (e \div Div) * Mul <= (f \div Div) * Mul
    BY <1>1
  <1>3. (e \div Div) * Mul \in Nat /\ (f \div Div) * Mul \in Nat
    BY <1>1
  <1> QED
    BY <1>2, <1>3, DivMono DEF scale_delta

\* A stable clock is the scaled counter, on every CPU.
LEMMA OneClockKept ==
    ASSUME NoWrap, IndInv, Snapshot, OneClock, [Next]_vars
    PROVE  OneClock'
  <1> USE DEF IndInv, TypeOK
  <1>1. CASE Tick
    <2>1. tsc' = tsc + 1 /\ tsc' <= MaxTsc
      BY <1>1 DEF Tick
    <2>2. UNCHANGED <<stable, stamp, system, pc, tdelta, ret, top, floor>>
      BY <1>1 DEF Tick
    <2>3. scale_delta(tsc) <= scale_delta(tsc') /\ scale_delta(tsc) \in Nat /\ scale_delta(tsc') \in Nat
      BY <2>1, ScaleMono, ScaleNat
    <2> QED
      BY <2>1, <2>2, <2>3 DEF OneClock
  <1>2. ASSUME NEW c \in CPU, HostBegin(c) \/ HostWrite(c) \/ HostEnd(c) PROVE OneClock'
    <2>1. UNCHANGED <<tsc, stable, pc, tdelta, ret, top, floor>> /\ (stable => UNCHANGED <<system, stamp>>)
      BY <1>2 DEF HostBegin, HostWrite, HostEnd
    <2> QED
      BY <2>1 DEF OneClock
  <1>3. ASSUME NEW c \in CPU, Read(c) PROVE OneClock'
    <2>1. UNCHANGED <<tsc, stable, stamp, system, top, floor>>
      BY <1>3 DEF Read, ReadBegin, ReadTsc, ReadStamp, ReadSystem, ReadRetry, ReadLast, Compare, Cmpxchg, host
    <2>2. CASE ~stable
      BY <2>1, <2>2 DEF OneClock
    <2>3. CASE stable /\ ReadBegin(c)
      BY <2>1, <2>3 DEF ReadBegin, Goto, OneClock
    <2>4. CASE stable /\ ReadTsc(c)
      <3>1. /\ tdelta' = [tdelta EXCEPT ![c] = tsc] /\ pc' = [pc EXCEPT ![c] = "stamp"]
            /\ UNCHANGED ret
        BY <2>4 DEF ReadTsc, Goto
      <3>2. scale_delta(tsc) \in Nat
        BY ScaleNat
      <3> QED
        BY <2>1, <2>4, <3>1, <3>2 DEF OneClock
    <2>4a. CASE stable /\ ReadStamp(c)
      <3>1. tdelta[c] - stamp[c] = tdelta[c] /\ tdelta[c] <= tsc /\ tsc <= MaxTsc
        BY <2>4a DEF ReadStamp, OneClock
      <3>2. tdelta[c] % Modulus = tdelta[c]
        BY <3>1 DEF NoWrap
      <3>3. /\ UNCHANGED tdelta /\ pc' = [pc EXCEPT ![c] = "system"] /\ pc[c] = "stamp"
            /\ UNCHANGED ret
        BY <2>4a, <3>1, <3>2 DEF ReadStamp, Goto
      <3> QED
        BY <2>1, <2>4a, <3>3 DEF OneClock
    <2>5. CASE stable /\ ReadSystem(c)
      <3>1. /\ pc[c] = "system" /\ system[c] = 0 /\ tdelta[c] \in Nat /\ tdelta[c] <= tsc
            /\ tsc <= MaxTsc /\ floor[c] <= scale_delta(tdelta[c])
        BY <2>5 DEF ReadSystem, OneClock
      <3>2. /\ scale_delta(tdelta[c]) <= scale_delta(tsc) /\ scale_delta(tsc) <= scale_delta(MaxTsc)
            /\ scale_delta(tdelta[c]) \in Nat /\ scale_delta(tsc) \in Nat /\ scale_delta(MaxTsc) \in Nat
        BY <3>1, ScaleMono, ScaleNat
      <3>3. (system[c] + scale_delta(tdelta[c])) % Modulus = scale_delta(tdelta[c])
        BY <3>1, <3>2 DEF NoWrap
      <3>4. /\ ret' = [ret EXCEPT ![c] = scale_delta(tdelta[c])] /\ pc' = [pc EXCEPT ![c] = "retry"]
            /\ UNCHANGED tdelta
        BY <2>5, <3>3 DEF ReadSystem, Goto
      <3> QED
        BY <2>1, <3>1, <3>2, <3>4 DEF OneClock
    <2>6. CASE stable /\ ReadRetry(c)
      BY <2>1, <2>6 DEF ReadRetry, Goto, OneClock
    <2>7. CASE stable /\ (ReadLast(c) \/ Compare(c) \/ Cmpxchg(c))
      BY <2>7 DEF Snapshot, ReadLast, Compare, Cmpxchg
    <2> QED
      BY <1>3, <2>2, <2>3, <2>4, <2>4a, <2>5, <2>6, <2>7 DEF Read
  <1>4. ASSUME NEW c \in CPU, Loop(c) PROVE OneClock'
    <2>1. UNCHANGED <<tsc, stable, stamp, system, tdelta, ret>>
      BY <1>4 DEF Loop, LoopBegin, LoopPlain, Return, CountWarp, host
    <2>2. /\ \A e \in CPU : e # c => pc'[e] = pc[e] /\ floor'[e] = floor[e]
          /\ pc'[c] \in {"begin", "loop", "delta"}
      BY <1>4 DEF Loop, LoopBegin, LoopPlain, Return, CountWarp, Goto
    <2>3. /\ top' = top \/ (pc[c] = "return" /\ top' = IF ret[c] > top THEN ret[c] ELSE top)
          /\ floor'[c] \in {floor[c], top'}
      BY <1>4 DEF Loop, LoopBegin, LoopPlain, Return, CountWarp
    <2>4. top <= top' /\ top' \in Nat /\ (stable => top' <= scale_delta(tsc))
      BY <2>3 DEF OneClock
    <2> QED
      BY <2>1, <2>2, <2>3, <2>4 DEF OneClock
  <1>5. CASE UNCHANGED vars
    BY <1>5 DEF vars, OneClock
  <1> QED
    BY <1>1, <1>2, <1>3, <1>4, <1>5 DEF Next, Host

\* Under the lock of the test, a later read returns no less.
LEMMA OrderedKept ==
    ASSUME IndInv, OneClock, Ordered, [Next]_vars
    PROVE  Ordered'
  <1> USE DEF IndInv, TypeOK
  <1>1. CASE Host
    BY <1>1 DEF Host, Tick, HostBegin, HostWrite, HostEnd, test, Ordered
  <1>2. ASSUME NEW c \in CPU, Read(c) PROVE Ordered'
    <2>1. UNCHANGED <<test_lock, test_last, warps, t0, t1, second, top, floor>>
      BY <1>2 DEF Read, ReadBegin, ReadTsc, ReadStamp, ReadSystem, ReadRetry, ReadLast, Compare, Cmpxchg, test
    <2>2. /\ \A e \in CPU : e # c => pc'[e] = pc[e]
          /\ pc[c] \notin {"loop", "delta"} /\ pc'[c] \notin {"loop", "delta"}
      BY <1>2 DEF Read, ReadBegin, ReadTsc, ReadStamp, ReadSystem, ReadRetry, ReadLast, Compare, Cmpxchg, Goto
    <2> QED
      BY <2>1, <2>2 DEF Ordered
  <1>3. ASSUME NEW c \in CPU, LoopBegin(c) PROVE Ordered'
    BY <1>3, CpuAssumption DEF LoopBegin, Goto, Ordered, Free
  <1>4. ASSUME NEW c \in CPU, LoopPlain(c) PROVE Ordered'
    <2>1. test_lock # c
      BY <1>4 DEF LoopPlain, Ordered
    <2> QED
      BY <1>4, <2>1 DEF LoopPlain, Goto, Ordered
  <1>5. ASSUME NEW c \in CPU, Return(c) PROVE Ordered'
    <2>1. pc[c] = "return" /\ UNCHANGED <<ret, warps>> /\ ret[c] \in Nat
      BY <1>5 DEF Return, test
    <2>2. ~RawCycle => ret[c] >= floor[c]
      BY <2>1 DEF Accumulates, OneClock
    <2>3. top' \in Nat /\ top <= top' /\ ret[c] <= top'
      BY <1>5 DEF Return
    <2>4. CASE test_lock # c
      <3>1. UNCHANGED <<test_lock, test_last, t0, t1, second, floor>> /\ pc' = [pc EXCEPT ![c] = "loop"]
        BY <1>5, <2>4 DEF Return, test, Goto
      <3> QED
        BY <2>1, <2>3, <2>4, <3>1 DEF Ordered
    <2>5. CASE test_lock = c /\ ~second[c]
      <3>1. /\ t1' = [t1 EXCEPT ![c] = ret[c]] /\ t0' = [t0 EXCEPT ![c] = test_last]
            /\ second' = [second EXCEPT ![c] = TRUE] /\ pc' = [pc EXCEPT ![c] = "begin"]
            /\ UNCHANGED <<test_lock, test_last>>
            /\ \A e \in CPU : e # c => floor'[e] = floor[e]
        BY <1>5, <2>5 DEF Return, Goto
      <3>2. ~RawCycle => test_last <= ret[c]
        BY <2>1, <2>2, <2>5 DEF Ordered
      <3> QED
        BY <2>1, <2>3, <2>5, <3>1, <3>2 DEF Ordered
    <2>6. CASE test_lock = c /\ second[c]
      <3>1. /\ test_last' = ret[c] /\ test_lock' = Free /\ pc' = [pc EXCEPT ![c] = "delta"]
            /\ UNCHANGED <<t0, t1, second, floor>>
        BY <1>5, <2>6 DEF Return, Goto
      <3> QED
        BY <2>1, <2>3, <2>6, <3>1, CpuAssumption DEF Ordered, Free
    <2> QED
      BY <2>4, <2>5, <2>6
  <1>6. ASSUME NEW c \in CPU, CountWarp(c) PROVE Ordered'
    <2>1. /\ UNCHANGED <<test_lock, test_last, t0, t1, second, top, floor>>
          /\ pc[c] = "delta" /\ pc' = [pc EXCEPT ![c] = "loop"]
          /\ warps' = IF t1[c] < t0[c] THEN warps + 1 ELSE warps
      BY <1>6 DEF CountWarp, Goto
    <2>2. test_lock # c /\ t0[c] \in Nat /\ t1[c] \in Nat /\ warps' \in Nat
      BY <2>1 DEF Ordered
    <2>3. ~RawCycle => warps' = 0
      BY <2>1, <2>2 DEF Ordered
    <2> QED
      BY <2>1, <2>2, <2>3 DEF Ordered
  <1>7. CASE UNCHANGED vars
    BY <1>7 DEF vars, Ordered
  <1> QED
    BY <1>1, <1>2, <1>3, <1>4, <1>5, <1>6, <1>7 DEF Next, Loop

\* kvmclock_test on any number of CPUs: reads take copies that the host
\* published, and the "Monotonic cycle test" counts no warp, whether the host
\* says that the TSC is stable or the accumulator has to keep the order.
THEOREM ClockReadsCorrect == ASSUME NoWrap PROVE Spec => []ClockReads
  <1> DEFINE Inv == Snapshot /\ OneClock /\ Ordered
  <1>1. Init => Inv
    <2> SUFFICES ASSUME Init PROVE Inv
      OBVIOUS
    <2>1. Snapshot
      BY DEF Init, Snapshot
    <2>2. OneClock
      <3>1. scale_delta(0) \in Nat
        BY ScaleNat
      <3>2. stable => system = [c \in CPU |-> 0]
        BY DEF Init
      <3> QED
        BY <3>1, <3>2 DEF Init, OneClock
    <2>3. Ordered
      BY CpuAssumption DEF Init, Ordered, Free
    <2> QED
      BY <2>1, <2>2, <2>3
  <1>2. IndInv /\ Inv /\ [Next]_vars => Inv'
    <2>1. IndInv /\ Snapshot /\ UNCHANGED vars => Snapshot'
      BY DEF vars, Snapshot
    <2>2. IndInv /\ Snapshot /\ [Next]_vars => Snapshot'
      BY <2>1, HostSnapshot, ReadSnapshot, LoopSnapshot DEF Next
    <2> QED
      BY <2>2, OneClockKept, OrderedKept
  <1>3. Inv => ClockReads
    BY DEF Snapshot, SnapshotConsistent, Ordered, NoWarps, ClockReads
  <1> QED
    BY <1>1, <1>2, <1>3, Invariance, PTL DEF Spec

-----------------------------------------------------------------------------
(***************************************************************************)
(* Proofs.  The copy: between updates the seconds and the nanoseconds are  *)
(* those of one update, and a version that is even and has not changed     *)
(* says that there was none.                                               *)
(***************************************************************************)

Same == w_ver = w_version /\ w_version % 2 = 0
CopyInv ==
    /\ w_version \in Nat /\ sec \in Nat /\ nsec \in Nat
    /\ w_version % 2 = 0 => sec = nsec
    /\ w_version % 2 = 1 => sec = nsec \/ sec = nsec + 1
    /\ w_pc \in {"sec", "nsec", "odd", "check"} => w_ver \in Nat /\ w_ver <= w_version
    /\ w_pc \in {"sec", "nsec", "odd", "check"} /\ Same => w_good = <<sec, nsec>>
    /\ w_pc \in {"nsec", "odd", "check"} /\ Same => now = sec
    /\ w_pc \in {"odd", "check"} /\ Same => nowns = nsec
    /\ w_pc = "check" /\ w_ver = w_version => Same
    /\ CopyConsistent

\* Steps of the host.
LEMMA HostKeepsCopy ==
    ASSUME CopyInv, HostVersion \/ HostSec \/ HostNsec
    PROVE  CopyInv'
  <1>1. CASE HostVersion
    BY <1>1 DEF HostVersion, copy, CopyInv, Same, CopyConsistent
  <1>2. CASE HostSec
    BY <1>2 DEF HostSec, copy, CopyInv, Same, CopyConsistent
  <1>3. CASE HostNsec
    BY <1>3 DEF HostNsec, copy, CopyInv, Same, CopyConsistent
  <1> QED
    BY <1>1, <1>2, <1>3

\* Steps of the read and of the division.
LEMMA ReadKeepsCopy ==
    ASSUME CopyInv, ReadVersion \/ ReadSec \/ ReadNsec \/ CheckOdd \/ Check \/ Divide \/ Grow \/ Subtract
    PROVE  CopyInv'
  <1>1. CASE ReadVersion
    BY <1>1 DEF ReadVersion, wall, CopyInv, Same, CopyConsistent
  <1>2. CASE ReadSec
    BY <1>2 DEF ReadSec, wall, CopyInv, Same, CopyConsistent
  <1>3. CASE ReadNsec
    BY <1>3 DEF ReadNsec, wall, CopyInv, Same, CopyConsistent
  <1>3a. CASE CheckOdd
    BY <1>3a DEF CheckOdd, wall, copy, CopyInv, Same, CopyConsistent
  <1>4. CASE Check
    <2>1. CASE w_ver # w_version
      BY <1>4, <2>1 DEF Check, wall, copy, CopyInv, Same, CopyConsistent
    <2>2. CASE w_ver = w_version
      <3>1. Same
        BY <1>4, <2>2 DEF Check, CopyInv
      <3>2. w_good = <<now, nowns>> /\ now = nowns
        BY <1>4, <3>1 DEF Check, CopyInv, Same
      <3>3. w_pc' = "divide"
        BY <1>4, <2>2 DEF Check
      <3> QED
        BY <1>4, <3>2, <3>3 DEF Check, wall, copy, CopyInv, Same, CopyConsistent
    <2> QED
      BY <2>1, <2>2
  <1>5. CASE Divide \/ Grow \/ Subtract
    BY <1>5 DEF Divide, Grow, Subtract, wall, copy, CopyInv, Same, CopyConsistent
  <1> QED
    BY <1>1, <1>2, <1>3, <1>3a, <1>4, <1>5

\* pvclock_read_wallclock never mixes two updates of the wall clock, however
\* often the host rewrites it.
THEOREM CopyConsistentCorrect == WallSpec => []CopyConsistent
  <1>1. WallInit => CopyInv
    BY DEF WallInit, CopyInv, Same, CopyConsistent
  <1>2. CopyInv /\ [WallNext]_wallVars => CopyInv'
    <2>1. CopyInv /\ UNCHANGED wallVars => CopyInv'
      BY DEF wallVars, CopyInv, Same, CopyConsistent
    <2> QED
      BY <2>1, HostKeepsCopy, ReadKeepsCopy DEF WallNext
  <1>3. CopyInv => CopyConsistent
    BY DEF CopyInv
  <1> QED
    BY <1>1, <1>2, <1>3, PTL DEF WallSpec

-----------------------------------------------------------------------------
(***************************************************************************)
(* The division.  d is a power of two and b is base times d; the dividend  *)
(* is always res * base + rem; and when the subtraction begins, rem is     *)
(* less than twice b: either the doubling went that far, or it stopped at  *)
(* the sign bit, and twice b does not fit a word.                          *)
(***************************************************************************)

\* The least set with 1 and the double of each of its elements.
Powers == {x \in Nat : \A S \in SUBSET Nat : 1 \in S /\ (\A y \in S : 2 * y \in S) => x \in S}

DivInv ==
    /\ base \in Bases
    /\ n \in 0..(U64 - 1)
    /\ w_pc \in {"grow", "subtract"} =>
        /\ res \in Nat /\ rem \in Nat
        /\ n = res * base + rem
        /\ d \in Powers /\ b = base * d /\ b < U64
    /\ w_pc = "subtract" => rem < b + b
    /\ Quotient

LEMMA OneIsPower == 1 \in Powers
  BY DEF Powers

LEMMA DoubleIsPower ==
    ASSUME NEW x \in Powers
    PROVE  2 * x \in Powers
  BY DEF Powers

\* A power of two other than 1 is the double of one.
LEMMA HalfIsPower ==
    ASSUME NEW x \in Powers, x # 1
    PROVE  \E y \in Powers : x = 2 * y
  <1> DEFINE S == {1} \cup {z \in Nat : \E y \in Powers : z = 2 * y}
  <1>1. S \in SUBSET Nat /\ 1 \in S
    OBVIOUS
  <1>2. S \subseteq Powers
    BY OneIsPower, DoubleIsPower
  <1>3. ASSUME NEW y \in S PROVE 2 * y \in S
    <2>1. y \in Powers /\ y \in Nat
      BY <1>2 DEF Powers
    <2> QED
      BY <2>1
  <1>4. x \in S
    BY <1>1, <1>3 DEF Powers
  <1> QED
    BY <1>4

LEMMA PowerPositive ==
    ASSUME NEW x \in Powers
    PROVE  x > 0
  <1> DEFINE S == Nat \ {0}
  <1>1. S \in SUBSET Nat /\ 1 \in S /\ \A y \in S : 2 * y \in S
    OBVIOUS
  <1>2. x \in S
    BY <1>1 DEF Powers
  <1> QED
    BY <1>2

\* A number and its quotient and remainder determine one another.
IsDivision(x, a, q, r) == x = q * a + r /\ r < a

LEMMA DivisionUnique ==
    ASSUME NEW q \in Nat, NEW r \in Nat, NEW a \in Nat \ {0}, NEW x \in Nat, IsDivision(x, a, q, r)
    PROVE  q = x \div a /\ r = x % a
  <1> USE DEF IsDivision
  <1> DEFINE p == x \div a
             m == x % a
  <1>1. p \in Int /\ m \in 0..(a - 1) /\ x = a * p + m
    OBVIOUS
  <1> HIDE DEF p, m
  <1>2. CASE q >= p + 1
    <2>1. q * a >= (p + 1) * a
      BY <1>1, <1>2
    <2> QED
      BY <1>1, <2>1
  <1>3. CASE p >= q + 1
    <2>1. p * a >= (q + 1) * a
      BY <1>1, <1>3
    <2> QED
      BY <1>1, <2>1
  <1>4. CASE p = q
    <2>1. a * p = q * a /\ a * p \in Int
      BY <1>1, <1>4
    <2> QED
      BY <1>1, <1>4, <2>1 DEF p, m
  <1> QED
    BY <1>1, <1>2, <1>3, <1>4

\* Words: U32 is even (2^32), divisors are of type u32.
Words == U32 \in Nat \ {0} /\ U32 % 2 = 0 /\ Bases \subseteq 1..(U32 - 1)

LEMMA WordFacts ==
    ASSUME Words
    PROVE  /\ U64 \in Nat \ {0} /\ U32 < U64
           /\ U64 \div 2 \in Nat /\ U64 = 2 * (U64 \div 2)
           /\ \A a \in Bases : a \in Nat \ {0} /\ a < U32
  <1>1. PICK h \in Int : U32 = 2 * h
    <2>1. U32 = 2 * (U32 \div 2) + (U32 % 2) /\ U32 \div 2 \in Int
      BY DEF Words
    <2> QED
      BY <2>1 DEF Words
  <1>2. h >= 1
    BY <1>1 DEF Words
  <1>3. U64 = 2 * (h * U32) /\ h * U32 \in Int
    BY <1>1 DEF U64, Words
  <1>4. U64 >= 2 * U32
    <2>1. U32 * U32 >= 2 * U32
      BY <1>1, <1>2 DEF Words
    <2> QED
      BY <2>1 DEF U64
  <1>5. U64 \div 2 = h * U32
    BY <1>3
  <1> QED
    BY <1>3, <1>4, <1>5 DEF Words

\* The high half is reduced first: what is taken off the dividend is a
\* multiple of the divisor, and nothing overflows.
LEMMA DivideKeeps ==
    ASSUME Words, DivInv, Divide
    PROVE  DivInv'
  <1> DEFINE high == n \div U32
             q == high \div base
  <1>1. /\ base \in Nat \ {0} /\ base < U32 /\ n \in Nat /\ n < U64 /\ base' = base /\ n' = n
        /\ U32 \in Nat \ {0} /\ U64 \in Nat \ {0} /\ w_pc = "divide" /\ base \in Bases
    BY WordFacts DEF DivInv, Divide, Words
  <1>2. high \in Nat /\ U32 * high <= n
    BY <1>1
  <1>3. high < U32
    BY <1>1, <1>2 DEF U64
  <1>4. q \in Nat /\ q * base <= high
    BY <1>1, <1>2
  <1>5. CASE high = 0
    <2>1. res' = n \div base /\ rem' = n % base /\ w_pc' = "done"
      BY <1>5 DEF Divide
    <2> QED
      BY <1>1, <2>1 DEF DivInv, Quotient
  <1>6. CASE high # 0
    <2>1. b' = base /\ d' = 1 /\ w_pc' = "grow"
      BY <1>6 DEF Divide
    <2>2. d' \in Powers /\ b' = base' * d' /\ b' < U64
      BY <1>1, <2>1, WordFacts, OneIsPower
    <2>3. CASE high >= base
      <3>1. res' = (q * U32) % U64 /\ rem' = n - ((q * base) % U32) * U32
        BY <1>6, <2>3 DEF Divide
      <3> HIDE DEF q, high
      <3>2. q * base < U32 /\ q * base \in Nat
        BY <1>1, <1>2, <1>3, <1>4
      <3>3. (q * base) % U32 = q * base
        BY <1>1, <3>2
      <3>4. q <= q * base
        BY <1>1, <1>4
      <3>5. q < U32
        BY <1>1, <1>4, <3>2, <3>4
      <3>6. q * U32 < U64 /\ q * U32 \in Nat
        BY <1>1, <1>4, <3>5 DEF U64
      <3>7. res' = q * U32
        BY <1>1, <3>1, <3>6
      <3>8. (q * base) * U32 <= high * U32 /\ high * U32 <= n
        BY <1>1, <1>2, <1>4, <3>2
      <3>9. rem' = n - (q * base) * U32 /\ rem' \in Nat
        BY <1>1, <1>2, <3>1, <3>2, <3>3, <3>8
      <3>10. res' * base = (q * base) * U32
        BY <1>1, <1>4, <3>7
      <3>11. n' = res' * base' + rem' /\ res' \in Nat
        BY <1>1, <3>2, <3>6, <3>7, <3>9, <3>10
      <3> QED
        BY <1>1, <2>1, <2>2, <3>9, <3>11 DEF DivInv, Quotient
    <2>4. CASE ~(high >= base)
      <3>1. res' = 0 /\ rem' = n
        BY <1>6, <2>4 DEF Divide
      <3>2. n' = res' * base' + rem'
        BY <1>1, <3>1
      <3> QED
        BY <1>1, <2>1, <2>2, <3>1, <3>2 DEF DivInv, Quotient
    <2> QED
      BY <2>3, <2>4
  <1> QED
    BY <1>5, <1>6

\* The doubling stops before it overflows.
LEMMA GrowKeeps ==
    ASSUME Words, DivInv, Grow
    PROVE  DivInv'
  <1>1. /\ base \in Nat \ {0} /\ base \in Bases /\ n \in Nat /\ n < U64 /\ base' = base /\ n' = n
        /\ U64 \in Nat \ {0} /\ res \in Nat /\ rem \in Nat /\ n = res * base + rem
        /\ d \in Powers /\ d \in Nat /\ b = base * d /\ b \in Nat /\ b < U64
        /\ res' = res /\ rem' = rem /\ w_pc = "grow"
        /\ U64 \div 2 \in Nat /\ U64 = 2 * (U64 \div 2)
    BY WordFacts DEF DivInv, Grow, Powers
  <1>2. CASE Signed(b) > 0 /\ b < rem
    <2>1. b + b < U64
      BY <1>1, <1>2 DEF Signed
    <2>2. d <= b
      BY <1>1
    <2>3. b' = (b + b) % U64 /\ d' = (d + d) % U64 /\ w_pc' = "grow"
      BY <1>1, <1>2 DEF Grow
    <2>4. b' = b + b
      BY <1>1, <2>1, <2>3
    <2>5. d' = 2 * d
      BY <1>1, <2>1, <2>2, <2>3
    <2>6. d' \in Powers
      BY <1>1, <2>5, DoubleIsPower
    <2>7. b' = base' * d'
      BY <1>1, <2>4, <2>5
    <2>8. b' < U64
      BY <2>1, <2>4
    <2> QED
      BY <1>1, <2>3, <2>6, <2>7, <2>8 DEF DivInv, Quotient
  <1>3. CASE ~(Signed(b) > 0 /\ b < rem)
    <2>1. b' = b /\ d' = d /\ w_pc' = "subtract"
      BY <1>3 DEF Grow
    <2>2. b > 0
      BY <1>1, OneIsPower, PowerPositive
    <2>3. CASE b < rem
      <3>1. b >= U64 \div 2
        BY <1>1, <1>3, <2>2, <2>3 DEF Signed
      <3>2. res * base \in Nat
        BY <1>1
      <3>3. rem < U64
        BY <1>1, <3>2
      <3>4. rem < b + b
        BY <1>1, <3>1, <3>3
      <3> QED
        BY <1>1, <2>1, <3>4 DEF DivInv, Quotient
    <2>4. CASE rem <= b
      <3>1. rem < b + b
        BY <1>1, <2>2, <2>4
      <3> QED
        BY <1>1, <2>1, <3>1 DEF DivInv, Quotient
    <2> QED
      BY <1>1, <2>3, <2>4
  <1> QED
    BY <1>2, <1>3

\* A subtraction keeps the sum, and leaves less than b.
LEMMA SubtractKeeps ==
    ASSUME Words, DivInv, Subtract
    PROVE  DivInv'
  <1>1. /\ base \in Nat \ {0} /\ base \in Bases /\ n \in Nat /\ n < U64 /\ base' = base /\ n' = n
        /\ U64 \in Nat \ {0} /\ res \in Nat /\ rem \in Nat /\ n = res * base + rem
        /\ d \in Powers /\ d \in Nat /\ b = base * d /\ b \in Nat /\ b < U64
        /\ rem < b + b /\ w_pc = "subtract"
    BY WordFacts DEF DivInv, Subtract, Powers
  <1>2. res' \in Nat /\ rem' \in Nat /\ n = res' * base + rem' /\ rem' < b
    <2>1. CASE rem >= b
      <3>1. rem' = rem - b /\ res' = (res + d) % U64
        BY <2>1 DEF Subtract
      <3>2. (res + d) * base = res * base + b /\ res * base \in Nat
        BY <1>1
      <3>3. n = (res + d) * base + (rem - b)
        BY <1>1, <3>2
      <3>4. res + d <= (res + d) * base
        BY <1>1
      <3>5. res + d < U64
        BY <1>1, <2>1, <3>2, <3>3, <3>4
      <3>6. res' = res + d
        BY <1>1, <3>1, <3>5
      <3> QED
        BY <1>1, <2>1, <3>1, <3>3, <3>6
    <2>2. CASE ~(rem >= b)
      BY <1>1, <2>2 DEF Subtract
    <2> QED
      BY <2>1, <2>2
  <1>3. b' = b \div 2 /\ d' = d \div 2 /\ w_pc' = IF d \div 2 = 0 THEN "done" ELSE "subtract"
    BY DEF Subtract
  <1>4. CASE d = 1
    <2>1. w_pc' = "done"
      BY <1>3, <1>4
    <2>2. rem' < base
      BY <1>1, <1>2, <1>4
    <2>3. PICK q \in Nat, r \in Nat : q = res' /\ r = rem' /\ IsDivision(n, base, q, r)
      BY <1>1, <1>2, <2>2 DEF IsDivision
    <2>4. q = n \div base /\ r = n % base
      BY <1>1, <2>3, DivisionUnique
    <2>5. res' = n \div base /\ rem' = n % base
      BY <2>3, <2>4
    <2> QED
      BY <1>1, <2>1, <2>5 DEF DivInv, Quotient
  <1>5. CASE d # 1
    <2>1. PICK y \in Powers : d = 2 * y
      BY <1>1, <1>5, HalfIsPower
    <2>2. y \in Nat /\ y > 0
      BY PowerPositive DEF Powers
    <2>3. d' = y /\ w_pc' = "subtract"
      BY <1>3, <2>1, <2>2
    <2>4. b = 2 * (base * y) /\ base * y \in Nat
      BY <1>1, <2>1, <2>2
    <2>5. b' = base * y
      BY <1>3, <2>4
    <2>6. b' < U64 /\ rem' < b' + b'
      BY <1>1, <1>2, <2>4, <2>5
    <2> QED
      BY <1>1, <1>2, <2>3, <2>5, <2>6 DEF DivInv, Quotient
  <1> QED
    BY <1>4, <1>5

\* __div64_32 and do_div (kvmclock.c): for every dividend and every divisor
\* of half a word, the quotient and the remainder are right, and no addition,
\* product or shift on the way overflows a word.
THEOREM QuotientCorrect == ASSUME Words PROVE WallSpec => []Quotient
  <1>1. WallInit => DivInv
    <2>1. U64 >= 1
      BY WordFacts
    <2> QED
      BY <2>1, WordFacts DEF WallInit, DivInv, Quotient
  <1>2. DivInv /\ [WallNext]_wallVars => DivInv'
    <2> SUFFICES ASSUME DivInv, [WallNext]_wallVars PROVE DivInv'
      OBVIOUS
    <2>1. CASE HostVersion \/ HostSec \/ HostNsec \/ ReadVersion \/ ReadSec \/ ReadNsec
      BY <2>1 DEF HostVersion, HostSec, HostNsec, ReadVersion, ReadSec, ReadNsec, div, DivInv, Quotient
    <2>2. CASE CheckOdd \/ Check
      BY <2>2 DEF CheckOdd, Check, div, DivInv, Quotient
    <2>3. CASE UNCHANGED wallVars
      BY <2>3 DEF wallVars, DivInv, Quotient
    <2> QED
      BY <2>1, <2>2, <2>3, DivideKeeps, GrowKeeps, SubtractKeeps DEF WallNext
  <1>3. DivInv => Quotient
    BY DEF DivInv
  <1> QED
    BY <1>1, <1>2, <1>3, PTL DEF WallSpec

\* What pvclock_read_wallclock works with and what it returns are right,
\* whatever the host writes meanwhile and whatever is divided by what.
THEOREM WallReadsCorrect == ASSUME Words PROVE WallSpec => []WallReads
  BY CopyConsistentCorrect, QuotientCorrect, PTL DEF WallReads

-----------------------------------------------------------------------------
(***************************************************************************)
(* Proof of SequenceGuards.  A sequence other than 0 is the version of all *)
(* values in the page.  If it is read again behind the values, the version *)
(* is still the one that the loop began with, and what was copied          *)
(* meanwhile is of that version.                                           *)
(***************************************************************************)

PageTypes ==
    /\ h_version \in Nat /\ page \in [Members -> Nat] /\ writing \in SUBSET {"scale", "offset"}
    /\ c_pc \in [HvCpus -> {"seq", "copy", "test", "done"}] /\ c_seq \in [HvCpus -> Nat]
    /\ shadow \in [HvCpus -> [Members -> Nat]] /\ left \in [HvCpus -> SUBSET Members]
    /\ h_last \in [HvCpus -> Members]

\* What the hypervisor has published.
Published ==
    /\ \A m \in {"scale", "offset"} \ writing : page[m] = h_version
    /\ page["sequence"] = IF writing = {} THEN h_version ELSE 0

\* What a CPU that is in the loop knows.
Copied(c) ==
    /\ c_seq[c] <= h_version
    /\ c_seq[c] # 0 /\ c_seq[c] = h_version =>
        writing = {} /\ \A m \in Members \ left[c] : shadow[c][m] = h_version
    /\ c_pc[c] = "test" /\ h_last[c] = "sequence" /\ shadow[c]["sequence"] = c_seq[c] /\ c_seq[c] # 0 =>
        \A m \in Members : shadow[c][m] = c_seq[c]

GuardInv ==
    /\ PageTypes /\ Published
    /\ \A c \in HvCpus : c_pc[c] \in {"copy", "test"} => Copied(c)

\* The hypervisor's steps leave what was copied alone, and a step that starts
\* an update makes every sequence read before an old one.
LEMMA HypervisorKeeps ==
    ASSUME GuardInv, Update \/ Store
    PROVE  GuardInv'
  <1> USE DEF GuardInv, PageTypes, Members
  <1>1. UNCHANGED <<c_pc, c_seq, shadow, left, h_last>>
    BY DEF Update, Store
  <1>2. CASE Update
    <2>1. h_version' = h_version + 1 /\ writing' = {"scale", "offset"} /\ page' = [page EXCEPT !["sequence"] = 0]
      BY <1>2 DEF Update
    <2> QED
      BY <1>1, <2>1 DEF Published, Copied
  <1>3. CASE Store
    <2>1. PICK m \in writing :
            /\ page' = [page EXCEPT ![m] = h_version, !["sequence"] = IF writing = {m} THEN h_version ELSE 0]
            /\ writing' = writing \ {m}
      BY <1>3 DEF Store
    <2>2. UNCHANGED h_version
      BY <1>3 DEF Store
    <2>3. PageTypes'
      BY <1>1, <2>1, <2>2
    <2>4. Published'
      <3>1. m \in {"scale", "offset"} /\ page'[m] = h_version
        BY <2>1
      <3>2. \A k \in {"scale", "offset"} \ {m} : page'[k] = page[k]
        BY <2>1
      <3>3. page'["sequence"] = IF writing = {m} THEN h_version ELSE 0
        BY <2>1
      <3>4. (writing = {m}) <=> (writing' = {})
        BY <2>1
      <3> QED
        BY <2>1, <2>2, <3>1, <3>2, <3>3, <3>4 DEF Published
    <2>5. \A c \in HvCpus : c_pc[c] \in {"copy", "test"} => c_seq[c] = 0 \/ c_seq[c] # h_version
      BY <2>1 DEF Copied
    <2> QED
      BY <1>1, <2>1, <2>2, <2>3, <2>4, <2>5 DEF Copied
  <1> QED
    BY <1>2, <1>3

\* The copy.
LEMMA CopyKeeps ==
    ASSUME GuardInv, NEW c \in HvCpus, Copy(c)
    PROVE  GuardInv'
  <1> USE DEF GuardInv, PageTypes, Members
  <1>1. PICK m \in left[c] :
            /\ shadow' = [shadow EXCEPT ![c][m] = page[m]]
            /\ left' = [left EXCEPT ![c] = @ \ {m}]
            /\ h_last' = [h_last EXCEPT ![c] = m]
            /\ c_pc' = [c_pc EXCEPT ![c] = IF left[c] = {m} THEN "test" ELSE "copy"]
    BY DEF Copy
  <1>2. UNCHANGED <<page, writing, h_version, c_seq>> /\ c_pc[c] = "copy" /\ m \in Members
    BY DEF Copy
  <1>3. PageTypes'
    BY <1>1, <1>2
  <1>4. Copied(c)'
    <2>1. c_seq[c] # 0 /\ c_seq[c] = h_version =>
             writing = {} /\ \A k \in Members \ left'[c] : shadow'[c][k] = h_version
      BY <1>1, <1>2 DEF Copied, Published
    <2>2. ASSUME c_pc'[c] = "test", h_last'[c] = "sequence", shadow'[c]["sequence"] = c_seq[c], c_seq[c] # 0
          PROVE  \A k \in Members : shadow'[c][k] = c_seq[c]
      <3>1. m = "sequence" /\ left'[c] = {}
        BY <1>1, <2>2
      <3>2. page["sequence"] = c_seq[c]
        BY <1>1, <2>2, <3>1
      <3>3. c_seq[c] = h_version
        BY <2>2, <3>2 DEF Published
      <3> QED
        BY <2>1, <2>2, <3>1, <3>3
    <2>3. c_seq'[c] <= h_version'
      BY <1>2 DEF Copied
    <2> QED
      BY <1>2, <2>1, <2>2, <2>3 DEF Copied
  <1>5. ASSUME NEW e \in HvCpus, e # c, c_pc'[e] \in {"copy", "test"} PROVE Copied(e)'
    BY <1>1, <1>2, <1>5 DEF Copied
  <1> QED
    BY <1>2, <1>3, <1>4, <1>5 DEF Published

\* hvclock_get_time_values (hyperv_clock.c:40-52), for any number of CPUs,
\* updates and rounds: where the sequence is copied behind the values, an
\* update during the copy shows in it.
THEOREM SequenceGuardsCorrect == HvSpec => []SequenceGuards
  <1> USE DEF GuardInv, PageTypes, Members
  <1>1. HvInit => GuardInv
    BY DEF HvInit, Published
  <1>2. ASSUME GuardInv, [HvNext]_hvVars PROVE GuardInv'
    <2>1. ASSUME NEW c \in HvCpus, ReadSeq(c) PROVE GuardInv'
      <3>1. /\ c_seq' = [c_seq EXCEPT ![c] = page["sequence"]]
            /\ left' = [left EXCEPT ![c] = Members] /\ c_pc' = [c_pc EXCEPT ![c] = "copy"]
            /\ UNCHANGED <<page, writing, h_version, shadow, h_last>>
        BY <2>1 DEF ReadSeq
      <3>2. PageTypes' /\ Published'
        BY <1>2, <3>1 DEF Published
      <3>3. Copied(c)'
        BY <1>2, <3>1 DEF Copied, Published
      <3>4. ASSUME NEW e \in HvCpus, e # c, c_pc'[e] \in {"copy", "test"} PROVE Copied(e)'
        BY <1>2, <3>1, <3>4 DEF Copied
      <3> QED
        BY <3>2, <3>3, <3>4
    <2>2. ASSUME NEW c \in HvCpus, Retry(c) \/ Probe(c) \/ Test(c) PROVE GuardInv'
      <3>1. /\ UNCHANGED <<page, writing, h_version, c_seq, shadow, left, h_last>>
            /\ c_pc' = [c_pc EXCEPT ![c] = "seq"] \/ c_pc' = [c_pc EXCEPT ![c] = "done"]
        BY <2>2 DEF Retry, Probe, Test
      <3>2. \A e \in HvCpus : c_pc'[e] \in {"copy", "test"} => e # c /\ c_pc[e] = c_pc'[e]
        BY <1>2, <3>1
      <3> QED
        BY <1>2, <3>1, <3>2 DEF Published, Copied
    <2>3. CASE CheckTest \/ UNCHANGED hvVars
      <3>1. UNCHANGED <<page, writing, h_version, c_pc, c_seq, shadow, left, h_last>>
        BY <2>3 DEF CheckTest, hvVars
      <3> QED
        BY <1>2, <3>1 DEF Published, Copied
    <2> QED
      BY <1>2, <2>1, <2>2, <2>3, HypervisorKeeps, CopyKeeps DEF HvNext, Exited
  <1>3. GuardInv => SequenceGuards
    BY DEF SequenceGuards, Taken, Accept, Torn, Copied
  <1> QED
    BY <1>1, <1>2, <1>3, PTL DEF HvSpec
=============================================================================
