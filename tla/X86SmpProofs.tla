---------------------------- MODULE X86SmpProofs ----------------------------
(***************************************************************************)
(* TLAPS proofs about X86Smp, for any number of CPUs and calls.            *)
(***************************************************************************)
EXTENDS X86Smp, FiniteSetTheorems, TLAPS

\* The types the leaves below need, without those that only TypeOK needs.
Types ==
    /\ pc \in [Proc -> PcValues]
    /\ cur \in [Proc -> CallId \cup {NoCall}]
    /\ hf \in [CPU -> CallId \cup {NoCall}]
    /\ hd \in [CPU -> CallId \cup {NoCall}]
    /\ hw \in [CPU -> BOOLEAN]
    /\ irr \in [CPU -> BOOLEAN]
    /\ target \in [CallId -> CPU]
    /\ sync \in [CallId -> BOOLEAN]
    /\ st \in [CallId -> Status]
    /\ ipi_wait \in BOOLEAN

\* The caller p has its acknowledgement.
Answered(p) == pc[p] = "unlock" \/ (pc[p] = "spin" /\ ipi_done = 1)

\* TypeOK implies the types the leaves use.
LEMMA TypesLemma == TypeOK => Types
  BY DEF TypeOK, Types

USE NCpusAssumption, MaxCallsAssumption, BspIFAssumption
USE DEF Goto, At, shared, apic, locals, args, loop, InCall, CallerPc, NoCall,
        Proc, CPU, Main, Unlocked, HandlingAt, TokenAt


\* Taking ipi_lock.
LEMMA SpinLockStep ==
  ASSUME IndInv, NEW p \in Proc, SpinLock(p)
  PROVE  IndInv'
<1>t. Types
  BY TypesLemma DEF IndInv
<1>1. TypeOK'
  BY <1>t DEF IndInv, TypeOK, PcValues, HandlerPc, Status, CallId, SpinLock
<1>2. Frames'
  BY DEF IndInv, TypeOK, Frames, HandlerPc, SpinLock
<1>3. LockHeld'
  BY <1>t DEF IndInv, Types, LockHeld, SpinLock
<1>4. CallerStatus'
  BY <1>t DEF IndInv, Types, Issued, CallerStatus, Handling, Serving, Apart,
      SpinLock
<1>5. Published'
  BY <1>t DEF IndInv, Types, LockHeld, Issued, Published, Token, PreAck,
      SpinLock
<1>6. Token'
  BY <1>t DEF IndInv, Types, LockHeld, Issued, CallerStatus, Published, Token,
      PreAck, Handling, Serving, SpinLock
<1>7. Handling'
  BY <1>t DEF IndInv, Types, LockHeld, Issued, CallerStatus, Published, Token,
      PreAck, Handling, Serving, Apart, SpinLock
<1>8. Apart'
  BY <1>t DEF IndInv, Types, LockHeld, Issued, Token, PreAck, Handling,
      Serving, Apart, SpinLock
<1>9. Issued'
  <2>1. \A q \in Proc : InCall(q)' <=> cur'[q] # NoCall
    BY <1>t DEF IndInv, Types, Issued, SpinLock
  <2>2. \A q, r \in Proc : cur'[q] = cur'[r] /\ cur'[q] # NoCall => q = r
    BY <1>t DEF IndInv, Types, Issued, SpinLock
  <2>3. \A i \in CallId : st'[i] = "free" <=> i > ncalls'
    BY <1>t DEF IndInv, Types, Issued, CallerStatus, Handling, Serving,
        SpinLock
  <2>. QED BY <2>1, <2>2, <2>3 DEF Issued
<1>10. Acked'
  <2>. SUFFICES ASSUME NEW q \in Proc, Answered(q)' PROVE AckMeans(q)'
    BY DEF Acked, Answered
  <2>1. CASE Answered(q)
    <3>1. AckMeans(q) /\ cur[q] \in CallId /\ ipi_lock = q
      BY <1>t, <2>1 DEF IndInv, Types, Issued, LockHeld, Acked, Answered, CallId
    <3>. QED BY <1>t, <2>1, <3>1 DEF IndInv, Types, LockHeld, CallerStatus,
          Published, Token, PreAck, Handling, Serving, AckMeans, Answered,
          SpinLock
  <2>2. CASE ~Answered(q)
    BY <1>t, <2>2 DEF IndInv, Types, LockHeld, Issued, CallerStatus, Token,
        PreAck, Handling, Serving, Acked, AckMeans, Answered, SpinLock
  <2>. QED BY <2>1, <2>2
<1>. QED
  BY <1>1, <1>2, <1>3, <1>4, <1>5, <1>6, <1>7, <1>8, <1>9, <1>10 DEF IndInv

\* The branch on cpu == smp_id().
LEMMA CallSelfStep ==
  ASSUME IndInv, NEW p \in Proc, CallSelf(p)
  PROVE  IndInv'
<1>t. Types
  BY TypesLemma DEF IndInv
<1>1. TypeOK'
  BY <1>t DEF IndInv, TypeOK, PcValues, HandlerPc, Status, CallId, CallSelf
<1>2. Frames'
  BY DEF IndInv, TypeOK, Frames, HandlerPc, CallSelf
<1>3. LockHeld'
  BY <1>t DEF IndInv, Types, LockHeld, CallSelf
<1>4. CallerStatus'
  BY <1>t DEF IndInv, Types, Issued, CallerStatus, Handling, Serving, Apart,
      CallSelf
<1>5. Published'
  BY <1>t DEF IndInv, Types, LockHeld, Issued, Published, Token, PreAck,
      CallSelf
<1>6. Token'
  BY <1>t DEF IndInv, Types, LockHeld, Issued, CallerStatus, Published, Token,
      PreAck, Handling, Serving, CallSelf
<1>7. Handling'
  BY <1>t DEF IndInv, Types, LockHeld, Issued, CallerStatus, Published, Token,
      PreAck, Handling, Serving, Apart, CallSelf
<1>8. Apart'
  BY <1>t DEF IndInv, Types, LockHeld, Issued, Token, PreAck, Handling,
      Serving, Apart, CallSelf
<1>9. Issued'
  <2>1. \A q \in Proc : InCall(q)' <=> cur'[q] # NoCall
    BY <1>t DEF IndInv, Types, Issued, CallSelf
  <2>2. \A q, r \in Proc : cur'[q] = cur'[r] /\ cur'[q] # NoCall => q = r
    BY <1>t DEF IndInv, Types, Issued, CallSelf
  <2>3. \A i \in CallId : st'[i] = "free" <=> i > ncalls'
    BY <1>t DEF IndInv, Types, Issued, CallerStatus, Handling, Serving,
        CallSelf
  <2>. QED BY <2>1, <2>2, <2>3 DEF Issued
<1>10. Acked'
  <2>. SUFFICES ASSUME NEW q \in Proc, Answered(q)' PROVE AckMeans(q)'
    BY DEF Acked, Answered
  <2>1. CASE Answered(q)
    <3>1. AckMeans(q) /\ cur[q] \in CallId /\ ipi_lock = q
      BY <1>t, <2>1 DEF IndInv, Types, Issued, LockHeld, Acked, Answered, CallId
    <3>. QED BY <1>t, <2>1, <3>1 DEF IndInv, Types, LockHeld, CallerStatus,
          Published, Token, PreAck, Handling, Serving, AckMeans, Answered,
          CallSelf
  <2>2. CASE ~Answered(q)
    BY <1>t, <2>2 DEF IndInv, Types, LockHeld, Issued, CallerStatus, Token,
        PreAck, Handling, Serving, Acked, AckMeans, Answered, CallSelf
  <2>. QED BY <2>1, <2>2
<1>. QED
  BY <1>1, <1>2, <1>3, <1>4, <1>5, <1>6, <1>7, <1>8, <1>9, <1>10 DEF IndInv

\* A local call ends.
LEMMA SelfReturnStep ==
  ASSUME IndInv, NEW p \in Proc, SelfReturn(p)
  PROVE  IndInv'
<1>t. Types
  BY TypesLemma DEF IndInv
<1>1. TypeOK'
  BY <1>t DEF IndInv, TypeOK, PcValues, HandlerPc, Status, CallId, SelfReturn
<1>2. Frames'
  BY DEF IndInv, TypeOK, Frames, HandlerPc, SelfReturn
<1>3. LockHeld'
  BY <1>t DEF IndInv, Types, LockHeld, SelfReturn
<1>4. CallerStatus'
  BY <1>t DEF IndInv, Types, Issued, CallerStatus, Handling, Serving, Apart,
      SelfReturn
<1>5. Published'
  BY <1>t DEF IndInv, Types, LockHeld, Issued, Published, Token, PreAck,
      SelfReturn
<1>6. Token'
  BY <1>t DEF IndInv, Types, LockHeld, Issued, CallerStatus, Published, Token,
      PreAck, Handling, Serving, SelfReturn
<1>7. Handling'
  BY <1>t DEF IndInv, Types, LockHeld, Issued, CallerStatus, Published, Token,
      PreAck, Handling, Serving, Apart, SelfReturn
<1>8. Apart'
  BY <1>t DEF IndInv, Types, LockHeld, Issued, Token, PreAck, Handling,
      Serving, Apart, SelfReturn
<1>9. Issued'
  <2>1. \A q \in Proc : InCall(q)' <=> cur'[q] # NoCall
    BY <1>t DEF IndInv, Types, Issued, SelfReturn
  <2>2. \A q, r \in Proc : cur'[q] = cur'[r] /\ cur'[q] # NoCall => q = r
    BY <1>t DEF IndInv, Types, Issued, SelfReturn
  <2>3. \A i \in CallId : st'[i] = "free" <=> i > ncalls'
    BY <1>t DEF IndInv, Types, Issued, CallerStatus, Handling, Serving,
        SelfReturn
  <2>. QED BY <2>1, <2>2, <2>3 DEF Issued
<1>10. Acked'
  <2>. SUFFICES ASSUME NEW q \in Proc, Answered(q)' PROVE AckMeans(q)'
    BY DEF Acked, Answered
  <2>1. CASE Answered(q)
    <3>1. AckMeans(q) /\ cur[q] \in CallId /\ ipi_lock = q
      BY <1>t, <2>1 DEF IndInv, Types, Issued, LockHeld, Acked, Answered, CallId
    <3>. QED BY <1>t, <2>1, <3>1 DEF IndInv, Types, LockHeld, CallerStatus,
          Published, Token, PreAck, Handling, Serving, AckMeans, Answered,
          SelfReturn
  <2>2. CASE ~Answered(q)
    BY <1>t, <2>2 DEF IndInv, Types, LockHeld, Issued, CallerStatus, Token,
        PreAck, Handling, Serving, Acked, AckMeans, Answered, SelfReturn
  <2>. QED BY <2>1, <2>2
<1>. QED
  BY <1>1, <1>2, <1>3, <1>4, <1>5, <1>6, <1>7, <1>8, <1>9, <1>10 DEF IndInv

\* The call is counted in active_cpus.
LEMMA IncActiveStep ==
  ASSUME IndInv, NEW p \in Proc, IncActive(p)
  PROVE  IndInv'
<1>t. Types
  BY TypesLemma DEF IndInv
<1>1. TypeOK'
  <2>1. active_cpus' \in Int
    BY DEF IndInv, TypeOK, IncActive
  <2>. QED BY <1>t, <2>1 DEF IndInv, TypeOK, PcValues, HandlerPc, Status,
        CallId, IncActive
<1>2. Frames'
  BY DEF IndInv, TypeOK, Frames, HandlerPc, IncActive
<1>3. LockHeld'
  BY <1>t DEF IndInv, Types, LockHeld, IncActive
<1>4. CallerStatus'
  BY <1>t DEF IndInv, Types, Issued, CallerStatus, Handling, Serving, Apart,
      IncActive
<1>5. Published'
  BY <1>t DEF IndInv, Types, LockHeld, Issued, Published, Token, PreAck,
      IncActive
<1>6. Token'
  BY <1>t DEF IndInv, Types, LockHeld, Issued, CallerStatus, Published, Token,
      PreAck, Handling, Serving, IncActive
<1>7. Handling'
  BY <1>t DEF IndInv, Types, LockHeld, Issued, CallerStatus, Published, Token,
      PreAck, Handling, Serving, Apart, IncActive
<1>8. Apart'
  BY <1>t DEF IndInv, Types, LockHeld, Issued, Token, PreAck, Handling,
      Serving, Apart, IncActive
<1>9. Issued'
  <2>1. \A q \in Proc : InCall(q)' <=> cur'[q] # NoCall
    BY <1>t DEF IndInv, Types, Issued, IncActive
  <2>2. \A q, r \in Proc : cur'[q] = cur'[r] /\ cur'[q] # NoCall => q = r
    BY <1>t DEF IndInv, Types, Issued, IncActive
  <2>3. \A i \in CallId : st'[i] = "free" <=> i > ncalls'
    BY <1>t DEF IndInv, Types, Issued, CallerStatus, Handling, Serving,
        IncActive
  <2>. QED BY <2>1, <2>2, <2>3 DEF Issued
<1>10. Acked'
  <2>. SUFFICES ASSUME NEW q \in Proc, Answered(q)' PROVE AckMeans(q)'
    BY DEF Acked, Answered
  <2>1. CASE Answered(q)
    <3>1. AckMeans(q) /\ cur[q] \in CallId /\ ipi_lock = q
      BY <1>t, <2>1 DEF IndInv, Types, Issued, LockHeld, Acked, Answered, CallId
    <3>. QED BY <1>t, <2>1, <3>1 DEF IndInv, Types, LockHeld, CallerStatus,
          Published, Token, PreAck, Handling, Serving, AckMeans, Answered,
          IncActive
  <2>2. CASE ~Answered(q)
    BY <1>t, <2>2 DEF IndInv, Types, LockHeld, Issued, CallerStatus, Token,
        PreAck, Handling, Serving, Acked, AckMeans, Answered, IncActive
  <2>. QED BY <2>1, <2>2
<1>. QED
  BY <1>1, <1>2, <1>3, <1>4, <1>5, <1>6, <1>7, <1>8, <1>9, <1>10 DEF IndInv

\* ipi_done = 0.
LEMMA ClearDoneStep ==
  ASSUME IndInv, NEW p \in Proc, ClearDone(p)
  PROVE  IndInv'
<1>t. Types
  BY TypesLemma DEF IndInv
<1>1. TypeOK'
  BY <1>t DEF IndInv, TypeOK, PcValues, HandlerPc, Status, CallId, ClearDone
<1>2. Frames'
  BY DEF IndInv, TypeOK, Frames, HandlerPc, ClearDone
<1>3. LockHeld'
  BY <1>t DEF IndInv, Types, LockHeld, ClearDone
<1>4. CallerStatus'
  BY <1>t DEF IndInv, Types, Issued, CallerStatus, Handling, Serving, Apart,
      ClearDone
<1>5. Published'
  BY <1>t DEF IndInv, Types, LockHeld, Issued, Published, Token, PreAck,
      ClearDone
<1>6. Token'
  BY <1>t DEF IndInv, Types, LockHeld, Issued, CallerStatus, Published, Token,
      PreAck, Handling, Serving, ClearDone
<1>7. Handling'
  BY <1>t DEF IndInv, Types, LockHeld, Issued, CallerStatus, Published, Token,
      PreAck, Handling, Serving, Apart, ClearDone
<1>8. Apart'
  BY <1>t DEF IndInv, Types, LockHeld, Issued, Token, PreAck, Handling,
      Serving, Apart, ClearDone
<1>9. Issued'
  <2>1. \A q \in Proc : InCall(q)' <=> cur'[q] # NoCall
    BY <1>t DEF IndInv, Types, Issued, ClearDone
  <2>2. \A q, r \in Proc : cur'[q] = cur'[r] /\ cur'[q] # NoCall => q = r
    BY <1>t DEF IndInv, Types, Issued, ClearDone
  <2>3. \A i \in CallId : st'[i] = "free" <=> i > ncalls'
    BY <1>t DEF IndInv, Types, Issued, CallerStatus, Handling, Serving,
        ClearDone
  <2>. QED BY <2>1, <2>2, <2>3 DEF Issued
<1>10. Acked'
  <2>. SUFFICES ASSUME NEW q \in Proc, Answered(q)' PROVE AckMeans(q)'
    BY DEF Acked, Answered
  <2>1. CASE Answered(q)
    <3>1. AckMeans(q) /\ cur[q] \in CallId /\ ipi_lock = q
      BY <1>t, <2>1 DEF IndInv, Types, Issued, LockHeld, Acked, Answered, CallId
    <3>. QED BY <1>t, <2>1, <3>1 DEF IndInv, Types, LockHeld, CallerStatus,
          Published, Token, PreAck, Handling, Serving, AckMeans, Answered,
          ClearDone
  <2>2. CASE ~Answered(q)
    BY <1>t, <2>2 DEF IndInv, Types, LockHeld, Issued, CallerStatus, Token,
        PreAck, Handling, Serving, Acked, AckMeans, Answered, ClearDone
  <2>. QED BY <2>1, <2>2
<1>. QED
  BY <1>1, <1>2, <1>3, <1>4, <1>5, <1>6, <1>7, <1>8, <1>9, <1>10 DEF IndInv

\* ipi_function = function.
LEMMA SetFunctionStep ==
  ASSUME IndInv, NEW p \in Proc, SetFunction(p)
  PROVE  IndInv'
<1>t. Types
  BY TypesLemma DEF IndInv
<1>1. TypeOK'
  BY <1>t DEF IndInv, TypeOK, PcValues, HandlerPc, Status, CallId, SetFunction
<1>2. Frames'
  BY DEF IndInv, TypeOK, Frames, HandlerPc, SetFunction
<1>3. LockHeld'
  BY <1>t DEF IndInv, Types, LockHeld, SetFunction
<1>4. CallerStatus'
  BY <1>t DEF IndInv, Types, Issued, CallerStatus, Handling, Serving, Apart,
      SetFunction
<1>5. Published'
  BY <1>t DEF IndInv, Types, LockHeld, Issued, Published, Token, PreAck,
      SetFunction
<1>6. Token'
  BY <1>t DEF IndInv, Types, LockHeld, Issued, CallerStatus, Published, Token,
      PreAck, Handling, Serving, SetFunction
<1>7. Handling'
  BY <1>t DEF IndInv, Types, LockHeld, Issued, CallerStatus, Published, Token,
      PreAck, Handling, Serving, Apart, SetFunction
<1>8. Apart'
  BY <1>t DEF IndInv, Types, LockHeld, Issued, Token, PreAck, Handling,
      Serving, Apart, SetFunction
<1>9. Issued'
  <2>1. \A q \in Proc : InCall(q)' <=> cur'[q] # NoCall
    BY <1>t DEF IndInv, Types, Issued, SetFunction
  <2>2. \A q, r \in Proc : cur'[q] = cur'[r] /\ cur'[q] # NoCall => q = r
    BY <1>t DEF IndInv, Types, Issued, SetFunction
  <2>3. \A i \in CallId : st'[i] = "free" <=> i > ncalls'
    BY <1>t DEF IndInv, Types, Issued, CallerStatus, Handling, Serving,
        SetFunction
  <2>. QED BY <2>1, <2>2, <2>3 DEF Issued
<1>10. Acked'
  <2>. SUFFICES ASSUME NEW q \in Proc, Answered(q)' PROVE AckMeans(q)'
    BY DEF Acked, Answered
  <2>1. CASE Answered(q)
    <3>1. AckMeans(q) /\ cur[q] \in CallId /\ ipi_lock = q
      BY <1>t, <2>1 DEF IndInv, Types, Issued, LockHeld, Acked, Answered, CallId
    <3>. QED BY <1>t, <2>1, <3>1 DEF IndInv, Types, LockHeld, CallerStatus,
          Published, Token, PreAck, Handling, Serving, AckMeans, Answered,
          SetFunction
  <2>2. CASE ~Answered(q)
    BY <1>t, <2>2 DEF IndInv, Types, LockHeld, Issued, CallerStatus, Token,
        PreAck, Handling, Serving, Acked, AckMeans, Answered, SetFunction
  <2>. QED BY <2>1, <2>2
<1>. QED
  BY <1>1, <1>2, <1>3, <1>4, <1>5, <1>6, <1>7, <1>8, <1>9, <1>10 DEF IndInv

\* ipi_data = data.
LEMMA SetDataStep ==
  ASSUME IndInv, NEW p \in Proc, SetData(p)
  PROVE  IndInv'
<1>t. Types
  BY TypesLemma DEF IndInv
<1>1. TypeOK'
  BY <1>t DEF IndInv, TypeOK, PcValues, HandlerPc, Status, CallId, SetData
<1>2. Frames'
  BY DEF IndInv, TypeOK, Frames, HandlerPc, SetData
<1>3. LockHeld'
  BY <1>t DEF IndInv, Types, LockHeld, SetData
<1>4. CallerStatus'
  BY <1>t DEF IndInv, Types, Issued, CallerStatus, Handling, Serving, Apart,
      SetData
<1>5. Published'
  BY <1>t DEF IndInv, Types, LockHeld, Issued, Published, Token, PreAck,
      SetData
<1>6. Token'
  BY <1>t DEF IndInv, Types, LockHeld, Issued, CallerStatus, Published, Token,
      PreAck, Handling, Serving, SetData
<1>7. Handling'
  BY <1>t DEF IndInv, Types, LockHeld, Issued, CallerStatus, Published, Token,
      PreAck, Handling, Serving, Apart, SetData
<1>8. Apart'
  BY <1>t DEF IndInv, Types, LockHeld, Issued, Token, PreAck, Handling,
      Serving, Apart, SetData
<1>9. Issued'
  <2>1. \A q \in Proc : InCall(q)' <=> cur'[q] # NoCall
    BY <1>t DEF IndInv, Types, Issued, SetData
  <2>2. \A q, r \in Proc : cur'[q] = cur'[r] /\ cur'[q] # NoCall => q = r
    BY <1>t DEF IndInv, Types, Issued, SetData
  <2>3. \A i \in CallId : st'[i] = "free" <=> i > ncalls'
    BY <1>t DEF IndInv, Types, Issued, CallerStatus, Handling, Serving,
        SetData
  <2>. QED BY <2>1, <2>2, <2>3 DEF Issued
<1>10. Acked'
  <2>. SUFFICES ASSUME NEW q \in Proc, Answered(q)' PROVE AckMeans(q)'
    BY DEF Acked, Answered
  <2>1. CASE Answered(q)
    <3>1. AckMeans(q) /\ cur[q] \in CallId /\ ipi_lock = q
      BY <1>t, <2>1 DEF IndInv, Types, Issued, LockHeld, Acked, Answered, CallId
    <3>. QED BY <1>t, <2>1, <3>1 DEF IndInv, Types, LockHeld, CallerStatus,
          Published, Token, PreAck, Handling, Serving, AckMeans, Answered,
          SetData
  <2>2. CASE ~Answered(q)
    BY <1>t, <2>2 DEF IndInv, Types, LockHeld, Issued, CallerStatus, Token,
        PreAck, Handling, Serving, Acked, AckMeans, Answered, SetData
  <2>. QED BY <2>1, <2>2
<1>. QED
  BY <1>1, <1>2, <1>3, <1>4, <1>5, <1>6, <1>7, <1>8, <1>9, <1>10 DEF IndInv

\* ipi_wait = wait.
LEMMA SetWaitStep ==
  ASSUME IndInv, NEW p \in Proc, SetWait(p)
  PROVE  IndInv'
<1>t. Types
  BY TypesLemma DEF IndInv
<1>1. TypeOK'
  <2>1. ipi_wait' \in BOOLEAN
    BY <1>t DEF IndInv, Types, Issued, SetWait
  <2>. QED BY <1>t, <2>1 DEF IndInv, TypeOK, PcValues, HandlerPc, Status,
        CallId, SetWait
<1>2. Frames'
  BY DEF IndInv, TypeOK, Frames, HandlerPc, SetWait
<1>3. LockHeld'
  BY <1>t DEF IndInv, Types, LockHeld, SetWait
<1>4. CallerStatus'
  BY <1>t DEF IndInv, Types, Issued, CallerStatus, Handling, Serving, Apart,
      SetWait
<1>5. Published'
  BY <1>t DEF IndInv, Types, LockHeld, Issued, Published, Token, PreAck,
      SetWait
<1>6. Token'
  BY <1>t DEF IndInv, Types, LockHeld, Issued, CallerStatus, Published, Token,
      PreAck, Handling, Serving, SetWait
<1>7. Handling'
  BY <1>t DEF IndInv, Types, LockHeld, Issued, CallerStatus, Published, Token,
      PreAck, Handling, Serving, Apart, SetWait
<1>8. Apart'
  BY <1>t DEF IndInv, Types, LockHeld, Issued, Token, PreAck, Handling,
      Serving, Apart, SetWait
<1>9. Issued'
  <2>1. \A q \in Proc : InCall(q)' <=> cur'[q] # NoCall
    BY <1>t DEF IndInv, Types, Issued, SetWait
  <2>2. \A q, r \in Proc : cur'[q] = cur'[r] /\ cur'[q] # NoCall => q = r
    BY <1>t DEF IndInv, Types, Issued, SetWait
  <2>3. \A i \in CallId : st'[i] = "free" <=> i > ncalls'
    BY <1>t DEF IndInv, Types, Issued, CallerStatus, Handling, Serving,
        SetWait
  <2>. QED BY <2>1, <2>2, <2>3 DEF Issued
<1>10. Acked'
  <2>. SUFFICES ASSUME NEW q \in Proc, Answered(q)' PROVE AckMeans(q)'
    BY DEF Acked, Answered
  <2>1. CASE Answered(q)
    <3>1. AckMeans(q) /\ cur[q] \in CallId /\ ipi_lock = q
      BY <1>t, <2>1 DEF IndInv, Types, Issued, LockHeld, Acked, Answered, CallId
    <3>. QED BY <1>t, <2>1, <3>1 DEF IndInv, Types, LockHeld, CallerStatus,
          Published, Token, PreAck, Handling, Serving, AckMeans, Answered,
          SetWait
  <2>2. CASE ~Answered(q)
    BY <1>t, <2>2 DEF IndInv, Types, LockHeld, Issued, CallerStatus, Token,
        PreAck, Handling, Serving, Acked, AckMeans, Answered, SetWait
  <2>. QED BY <2>1, <2>2
<1>. QED
  BY <1>1, <1>2, <1>3, <1>4, <1>5, <1>6, <1>7, <1>8, <1>9, <1>10 DEF IndInv

\* The IPI makes the token: irr of the target.
LEMMA SendIpiStep ==
  ASSUME IndInv, NEW p \in Proc, SendIpi(p)
  PROVE  IndInv'
<1>t. Types
  BY TypesLemma DEF IndInv
<1>1. TypeOK'
  BY <1>t DEF IndInv, TypeOK, PcValues, HandlerPc, Status, CallId, SendIpi
<1>2. Frames'
  BY DEF IndInv, TypeOK, Frames, HandlerPc, SendIpi
<1>3. LockHeld'
  BY <1>t DEF IndInv, Types, LockHeld, SendIpi
<1>4. CallerStatus'
  BY <1>t DEF IndInv, Types, Issued, CallerStatus, Handling, Serving, Apart,
      SendIpi
<1>5. Published'
  BY <1>t DEF IndInv, Types, LockHeld, Issued, Published, Token, PreAck,
      SendIpi
<1>6. Token'
  BY <1>t DEF IndInv, Types, LockHeld, Issued, CallerStatus, Published, Token,
      PreAck, Handling, Serving, SendIpi
<1>7. Handling'
  BY <1>t DEF IndInv, Types, LockHeld, Issued, CallerStatus, Published, Token,
      PreAck, Handling, Serving, Apart, SendIpi
<1>8. Apart'
  BY <1>t DEF IndInv, Types, LockHeld, Issued, Token, PreAck, Handling,
      Serving, Apart, SendIpi
<1>9. Issued'
  <2>1. \A q \in Proc : InCall(q)' <=> cur'[q] # NoCall
    BY <1>t DEF IndInv, Types, Issued, SendIpi
  <2>2. \A q, r \in Proc : cur'[q] = cur'[r] /\ cur'[q] # NoCall => q = r
    BY <1>t DEF IndInv, Types, Issued, SendIpi
  <2>3. \A i \in CallId : st'[i] = "free" <=> i > ncalls'
    BY <1>t DEF IndInv, Types, Issued, CallerStatus, Handling, Serving,
        SendIpi
  <2>. QED BY <2>1, <2>2, <2>3 DEF Issued
<1>10. Acked'
  <2>. SUFFICES ASSUME NEW q \in Proc, Answered(q)' PROVE AckMeans(q)'
    BY DEF Acked, Answered
  <2>1. CASE Answered(q)
    <3>1. AckMeans(q) /\ cur[q] \in CallId /\ ipi_lock = q
      BY <1>t, <2>1 DEF IndInv, Types, Issued, LockHeld, Acked, Answered, CallId
    <3>. QED BY <1>t, <2>1, <3>1 DEF IndInv, Types, LockHeld, CallerStatus,
          Published, Token, PreAck, Handling, Serving, AckMeans, Answered,
          SendIpi
  <2>2. CASE ~Answered(q)
    <3>1. ipi_done = 0 /\ ipi_done' = ipi_done
      BY <1>t DEF IndInv, Types, Published, SendIpi
    <3>. QED BY <1>t, <2>2, <3>1 DEF Types, Answered, SendIpi
  <2>. QED BY <2>1, <2>2
<1>. QED
  BY <1>1, <1>2, <1>3, <1>4, <1>5, <1>6, <1>7, <1>8, <1>9, <1>10 DEF IndInv

\* The caller sees ipi_done.
LEMMA SpinDoneStep ==
  ASSUME IndInv, NEW p \in Proc, SpinDone(p)
  PROVE  IndInv'
<1>t. Types
  BY TypesLemma DEF IndInv
<1>1. TypeOK'
  BY <1>t DEF IndInv, TypeOK, PcValues, HandlerPc, Status, CallId, SpinDone
<1>2. Frames'
  BY DEF IndInv, TypeOK, Frames, HandlerPc, SpinDone
<1>3. LockHeld'
  BY <1>t DEF IndInv, Types, LockHeld, SpinDone
<1>4. CallerStatus'
  BY <1>t DEF IndInv, Types, Issued, CallerStatus, Handling, Serving, Apart,
      SpinDone
<1>5. Published'
  BY <1>t DEF IndInv, Types, LockHeld, Issued, Published, Token, PreAck,
      SpinDone
<1>6. Token'
  BY <1>t DEF IndInv, Types, LockHeld, Issued, CallerStatus, Published, Token,
      PreAck, Handling, Serving, SpinDone
<1>7. Handling'
  BY <1>t DEF IndInv, Types, LockHeld, Issued, CallerStatus, Published, Token,
      PreAck, Handling, Serving, Apart, SpinDone
<1>8. Apart'
  BY <1>t DEF IndInv, Types, LockHeld, Issued, Token, PreAck, Handling,
      Serving, Apart, SpinDone
<1>9. Issued'
  <2>1. \A q \in Proc : InCall(q)' <=> cur'[q] # NoCall
    BY <1>t DEF IndInv, Types, Issued, SpinDone
  <2>2. \A q, r \in Proc : cur'[q] = cur'[r] /\ cur'[q] # NoCall => q = r
    BY <1>t DEF IndInv, Types, Issued, SpinDone
  <2>3. \A i \in CallId : st'[i] = "free" <=> i > ncalls'
    BY <1>t DEF IndInv, Types, Issued, CallerStatus, Handling, Serving,
        SpinDone
  <2>. QED BY <2>1, <2>2, <2>3 DEF Issued
<1>10. Acked'
  <2>. SUFFICES ASSUME NEW q \in Proc, Answered(q)' PROVE AckMeans(q)'
    BY DEF Acked, Answered
  <2>1. CASE Answered(q)
    <3>1. AckMeans(q) /\ cur[q] \in CallId /\ ipi_lock = q
      BY <1>t, <2>1 DEF IndInv, Types, Issued, LockHeld, Acked, Answered, CallId
    <3>. QED BY <1>t, <2>1, <3>1 DEF IndInv, Types, LockHeld, CallerStatus,
          Published, Token, PreAck, Handling, Serving, AckMeans, Answered,
          SpinDone
  <2>2. CASE ~Answered(q)
    BY <1>t, <2>2 DEF IndInv, Types, LockHeld, Issued, CallerStatus, Token,
        PreAck, Handling, Serving, Acked, AckMeans, Answered, SpinDone
  <2>. QED BY <2>1, <2>2
<1>. QED
  BY <1>1, <1>2, <1>3, <1>4, <1>5, <1>6, <1>7, <1>8, <1>9, <1>10 DEF IndInv

\* Releasing ipi_lock.
LEMMA SpinUnlockStep ==
  ASSUME IndInv, NEW p \in Proc, SpinUnlock(p)
  PROVE  IndInv'
<1>t. Types
  BY TypesLemma DEF IndInv
<1>1. TypeOK'
  BY <1>t DEF IndInv, TypeOK, PcValues, HandlerPc, Status, CallId, SpinUnlock
<1>2. Frames'
  BY DEF IndInv, TypeOK, Frames, HandlerPc, SpinUnlock
<1>3. LockHeld'
  <2>1. ipi_lock = p /\ ipi_lock' = Unlocked
    BY <1>t DEF IndInv, Types, LockHeld, SpinUnlock
  <2>2. \A q \in Proc : q # p => pc'[q] = pc[q]
    BY <1>t DEF Types, SpinUnlock
  <2>3. ~InCall(p)'
    BY <1>t DEF Types, SpinUnlock
  <2>. QED BY <2>1, <2>2, <2>3 DEF IndInv, LockHeld
<1>4. CallerStatus'
  BY <1>t DEF IndInv, Types, Issued, CallerStatus, Handling, Serving, Apart,
      SpinUnlock
<1>5. Published'
  BY <1>t DEF IndInv, Types, LockHeld, Issued, Published, Token, PreAck,
      SpinUnlock
<1>6. Token'
  <2>1. ipi_lock = p /\ pc[p] = "unlock"
    BY <1>t DEF IndInv, Types, LockHeld, SpinUnlock
  <2>2. \A c \in CPU : ~irr[c] /\ ~PreAck(c)
    BY <2>1 DEF IndInv, Token
  <2>3. \A c \in CPU : PreAck(c)' => PreAck(c) \/ (c = p /\ hw[p])
    BY <1>t DEF Types, PreAck, SpinUnlock
  <2>4. p \in CPU => ~hw[p]
    BY <1>t, <2>1 DEF IndInv, Types, Handling
  <2>. QED BY <2>2, <2>3, <2>4 DEF Token, SpinUnlock
<1>7. Handling'
  BY <1>t DEF IndInv, Types, LockHeld, Issued, CallerStatus, Published, Token,
      PreAck, Handling, Serving, Apart, SpinUnlock
<1>8. Apart'
  <2>1. \A c \in CPU : ~irr[c]
    BY <1>t DEF IndInv, Types, LockHeld, Token, SpinUnlock
  <2>2. ~InCall(p)' /\ \A q \in Proc : q # p => pc'[q] = pc[q] /\ cur'[q] = cur[q]
    BY <1>t DEF Types, SpinUnlock
  <2>3. \A c \in CPU : Serving(c)' => Serving(c)
    BY <1>t DEF Types, Serving, SpinUnlock
  <2>. QED BY <1>t, <2>1, <2>2, <2>3 DEF IndInv, Apart, SpinUnlock
<1>9. Issued'
  <2>1. \A q \in Proc : InCall(q)' <=> cur'[q] # NoCall
    BY <1>t DEF IndInv, Types, Issued, SpinUnlock
  <2>2. \A q, r \in Proc : cur'[q] = cur'[r] /\ cur'[q] # NoCall => q = r
    BY <1>t DEF IndInv, Types, Issued, SpinUnlock
  <2>3. \A i \in CallId : st'[i] = "free" <=> i > ncalls'
    BY <1>t DEF IndInv, Types, Issued, CallerStatus, Handling, Serving,
        SpinUnlock
  <2>. QED BY <2>1, <2>2, <2>3 DEF Issued
<1>10. Acked'
  <2>. SUFFICES ASSUME NEW q \in Proc, Answered(q)' PROVE AckMeans(q)'
    BY DEF Acked, Answered
  <2>1. CASE Answered(q)
    <3>1. AckMeans(q) /\ cur[q] \in CallId /\ ipi_lock = q
      BY <1>t, <2>1 DEF IndInv, Types, Issued, LockHeld, Acked, Answered, CallId
    <3>. QED BY <1>t, <2>1, <3>1 DEF IndInv, Types, LockHeld, CallerStatus,
          Published, Token, PreAck, Handling, Serving, AckMeans, Answered,
          SpinUnlock
  <2>2. CASE ~Answered(q)
    BY <1>t, <2>2 DEF IndInv, Types, LockHeld, Issued, CallerStatus, Token,
        PreAck, Handling, Serving, Acked, AckMeans, Answered, SpinUnlock
  <2>. QED BY <2>1, <2>2
<1>. QED
  BY <1>1, <1>2, <1>3, <1>4, <1>5, <1>6, <1>7, <1>8, <1>9, <1>10 DEF IndInv

\* The token moves from irr to the handler.
LEMMA DeliverStep ==
  ASSUME IndInv, NEW c \in CPU, Deliver(c)
  PROVE  IndInv'
<1>t. Types
  BY TypesLemma DEF IndInv
<1>1. TypeOK'
  BY <1>t DEF IndInv, TypeOK, PcValues, HandlerPc, Status, CallId, Deliver
<1>2. Frames'
  <2>1. pc'[c] = "rdf" /\ \A q \in Proc : q # c => pc'[q] = pc[q]
    BY <1>t DEF Types, Deliver
  <2>2. stage' = stage /\ idx' = idx
    BY DEF Deliver
  <2>. QED BY <2>1, <2>2 DEF IndInv, Frames, HandlerPc
<1>3. LockHeld'
  BY <1>t DEF IndInv, Types, LockHeld, Deliver
<1>4. CallerStatus'
  BY <1>t DEF IndInv, Types, Issued, CallerStatus, Handling, Serving, Apart,
      Deliver
<1>5. Published'
  BY <1>t DEF IndInv, Types, LockHeld, Issued, Published, Token, PreAck,
      Deliver
<1>6. Token'
  BY <1>t DEF IndInv, Types, LockHeld, Issued, CallerStatus, Published, Token,
      PreAck, Handling, Serving, Deliver
<1>7. Handling'
  BY <1>t DEF IndInv, Types, LockHeld, Issued, CallerStatus, Published, Token,
      PreAck, Handling, Serving, Apart, Deliver
<1>8. Apart'
  BY <1>t DEF IndInv, Types, LockHeld, Issued, Token, PreAck, Handling,
      Serving, Apart, Deliver
<1>9. Issued'
  <2>1. \A q \in Proc : InCall(q)' <=> cur'[q] # NoCall
    BY <1>t DEF IndInv, Types, Issued, Deliver
  <2>2. \A q, r \in Proc : cur'[q] = cur'[r] /\ cur'[q] # NoCall => q = r
    BY <1>t DEF IndInv, Types, Issued, Deliver
  <2>3. \A i \in CallId : st'[i] = "free" <=> i > ncalls'
    BY <1>t DEF IndInv, Types, Issued, CallerStatus, Handling, Serving,
        Deliver
  <2>. QED BY <2>1, <2>2, <2>3 DEF Issued
<1>10. Acked'
  <2>. SUFFICES ASSUME NEW q \in Proc, Answered(q)' PROVE AckMeans(q)'
    BY DEF Acked, Answered
  <2>1. CASE Answered(q)
    <3>1. AckMeans(q) /\ cur[q] \in CallId /\ ipi_lock = q
      BY <1>t, <2>1 DEF IndInv, Types, Issued, LockHeld, Acked, Answered, CallId
    <3>. QED BY <1>t, <2>1, <3>1 DEF IndInv, Types, LockHeld, CallerStatus,
          Published, Token, PreAck, Handling, Serving, AckMeans, Answered,
          Deliver
  <2>2. CASE ~Answered(q)
    BY <1>t, <2>2 DEF IndInv, Types, LockHeld, Issued, CallerStatus, Token,
        PreAck, Handling, Serving, Acked, AckMeans, Answered, Deliver
  <2>. QED BY <2>1, <2>2
<1>. QED
  BY <1>1, <1>2, <1>3, <1>4, <1>5, <1>6, <1>7, <1>8, <1>9, <1>10 DEF IndInv

\* ipi() reads ipi_function.
LEMMA ReadFunctionStep ==
  ASSUME IndInv, NEW c \in CPU, ReadFunction(c)
  PROVE  IndInv'
<1>t. Types
  BY TypesLemma DEF IndInv
<1>1. TypeOK'
  BY <1>t DEF IndInv, TypeOK, PcValues, HandlerPc, Status, CallId,
      ReadFunction
<1>2. Frames'
  BY DEF IndInv, TypeOK, Frames, HandlerPc, ReadFunction
<1>3. LockHeld'
  BY <1>t DEF IndInv, Types, LockHeld, ReadFunction
<1>4. CallerStatus'
  BY <1>t DEF IndInv, Types, Issued, CallerStatus, Handling, Serving, Apart,
      ReadFunction
<1>5. Published'
  BY <1>t DEF IndInv, Types, LockHeld, Issued, Published, Token, PreAck,
      ReadFunction
<1>6. Token'
  BY <1>t DEF IndInv, Types, LockHeld, Issued, CallerStatus, Published, Token,
      PreAck, Handling, Serving, ReadFunction
<1>7. Handling'
  BY <1>t DEF IndInv, Types, LockHeld, Issued, CallerStatus, Published, Token,
      PreAck, Handling, Serving, Apart, ReadFunction
<1>8. Apart'
  BY <1>t DEF IndInv, Types, LockHeld, Issued, Token, PreAck, Handling,
      Serving, Apart, ReadFunction
<1>9. Issued'
  <2>1. \A q \in Proc : InCall(q)' <=> cur'[q] # NoCall
    BY <1>t DEF IndInv, Types, Issued, ReadFunction
  <2>2. \A q, r \in Proc : cur'[q] = cur'[r] /\ cur'[q] # NoCall => q = r
    BY <1>t DEF IndInv, Types, Issued, ReadFunction
  <2>3. \A i \in CallId : st'[i] = "free" <=> i > ncalls'
    BY <1>t DEF IndInv, Types, Issued, CallerStatus, Handling, Serving,
        ReadFunction
  <2>. QED BY <2>1, <2>2, <2>3 DEF Issued
<1>10. Acked'
  <2>. SUFFICES ASSUME NEW q \in Proc, Answered(q)' PROVE AckMeans(q)'
    BY DEF Acked, Answered
  <2>1. CASE Answered(q)
    <3>1. AckMeans(q) /\ cur[q] \in CallId /\ ipi_lock = q
      BY <1>t, <2>1 DEF IndInv, Types, Issued, LockHeld, Acked, Answered, CallId
    <3>. QED BY <1>t, <2>1, <3>1 DEF IndInv, Types, LockHeld, CallerStatus,
          Published, Token, PreAck, Handling, Serving, AckMeans, Answered,
          ReadFunction
  <2>2. CASE ~Answered(q)
    BY <1>t, <2>2 DEF IndInv, Types, LockHeld, Issued, CallerStatus, Token,
        PreAck, Handling, Serving, Acked, AckMeans, Answered, ReadFunction
  <2>. QED BY <2>1, <2>2
<1>. QED
  BY <1>1, <1>2, <1>3, <1>4, <1>5, <1>6, <1>7, <1>8, <1>9, <1>10 DEF IndInv

\* ipi() reads ipi_data.
LEMMA ReadDataStep ==
  ASSUME IndInv, NEW c \in CPU, ReadData(c)
  PROVE  IndInv'
<1>t. Types
  BY TypesLemma DEF IndInv
<1>1. TypeOK'
  BY <1>t DEF IndInv, TypeOK, PcValues, HandlerPc, Status, CallId, ReadData
<1>2. Frames'
  BY DEF IndInv, TypeOK, Frames, HandlerPc, ReadData
<1>3. LockHeld'
  BY <1>t DEF IndInv, Types, LockHeld, ReadData
<1>4. CallerStatus'
  BY <1>t DEF IndInv, Types, Issued, CallerStatus, Handling, Serving, Apart,
      ReadData
<1>5. Published'
  BY <1>t DEF IndInv, Types, LockHeld, Issued, Published, Token, PreAck,
      ReadData
<1>6. Token'
  BY <1>t DEF IndInv, Types, LockHeld, Issued, CallerStatus, Published, Token,
      PreAck, Handling, Serving, ReadData
<1>7. Handling'
  <2>1. hf[c] = cur[ipi_lock] /\ ipi_lock \in Proc /\ pc[ipi_lock] = "spin"
    BY DEF IndInv, Token, PreAck, ReadData
  <2>2. hd'[c] = hf[c]
    BY <1>t, <2>1 DEF IndInv, Types, Published, ReadData
  <2>. QED BY <1>t, <2>2 DEF IndInv, Types, Handling, Serving, ReadData
<1>8. Apart'
  BY <1>t DEF IndInv, Types, LockHeld, Issued, Token, PreAck, Handling,
      Serving, Apart, ReadData
<1>9. Issued'
  <2>1. \A q \in Proc : InCall(q)' <=> cur'[q] # NoCall
    BY <1>t DEF IndInv, Types, Issued, ReadData
  <2>2. \A q, r \in Proc : cur'[q] = cur'[r] /\ cur'[q] # NoCall => q = r
    BY <1>t DEF IndInv, Types, Issued, ReadData
  <2>3. \A i \in CallId : st'[i] = "free" <=> i > ncalls'
    BY <1>t DEF IndInv, Types, Issued, CallerStatus, Handling, Serving,
        ReadData
  <2>. QED BY <2>1, <2>2, <2>3 DEF Issued
<1>10. Acked'
  <2>. SUFFICES ASSUME NEW q \in Proc, Answered(q)' PROVE AckMeans(q)'
    BY DEF Acked, Answered
  <2>1. CASE Answered(q)
    <3>1. AckMeans(q) /\ cur[q] \in CallId /\ ipi_lock = q
      BY <1>t, <2>1 DEF IndInv, Types, Issued, LockHeld, Acked, Answered, CallId
    <3>. QED BY <1>t, <2>1, <3>1 DEF IndInv, Types, LockHeld, CallerStatus,
          Published, Token, PreAck, Handling, Serving, AckMeans, Answered,
          ReadData
  <2>2. CASE ~Answered(q)
    BY <1>t, <2>2 DEF IndInv, Types, LockHeld, Issued, CallerStatus, Token,
        PreAck, Handling, Serving, Acked, AckMeans, Answered, ReadData
  <2>. QED BY <2>1, <2>2
<1>. QED
  BY <1>1, <1>2, <1>3, <1>4, <1>5, <1>6, <1>7, <1>8, <1>9, <1>10 DEF IndInv

\* ipi() reads ipi_wait.
LEMMA ReadWaitStep ==
  ASSUME IndInv, NEW c \in CPU, ReadWait(c)
  PROVE  IndInv'
<1>t. Types
  BY TypesLemma DEF IndInv
<1>1. TypeOK'
  BY <1>t DEF IndInv, TypeOK, PcValues, HandlerPc, Status, CallId, ReadWait
<1>2. Frames'
  BY DEF IndInv, TypeOK, Frames, HandlerPc, ReadWait
<1>3. LockHeld'
  BY <1>t DEF IndInv, Types, LockHeld, ReadWait
<1>4. CallerStatus'
  BY <1>t DEF IndInv, Types, Issued, CallerStatus, Handling, Serving, Apart,
      ReadWait
<1>5. Published'
  BY <1>t DEF IndInv, Types, LockHeld, Issued, Published, Token, PreAck,
      ReadWait
<1>6. Token'
  BY <1>t DEF IndInv, Types, LockHeld, Issued, CallerStatus, Published, Token,
      PreAck, Handling, Serving, ReadWait
<1>7. Handling'
  <2>1. /\ ipi_lock \in Proc /\ pc[ipi_lock] = "spin" /\ hf[c] = cur[ipi_lock]
        /\ target[hf[c]] = c /\ st[hf[c]] = "posted"
    BY DEF IndInv, Token, PreAck, ReadWait
  <2>2. hf[c] \in CallId /\ hd[c] = hf[c] /\ ipi_wait = sync[hf[c]]
    BY <1>t, <2>1 DEF IndInv, Types, Issued, Published, Handling, ReadWait
  <2>3. /\ pc'[c] = (IF ipi_wait THEN "call" ELSE "ack0")
        /\ hw'[c] = ipi_wait
        /\ \A d \in CPU : d # c => pc'[d] = pc[d] /\ hw'[d] = hw[d]
    BY <1>t DEF Types, ReadWait
  <2>. SUFFICES ASSUME NEW d \in CPU PROVE HandlingAt(d)'
    BY DEF Handling, HandlingAt
  <2>4. CASE d = c
    <3>1. UNCHANGED <<hf, hd, sync, target, st>> /\ ~InCall(c)'
      BY <2>3 DEF ReadWait
    <3>2. \/ pc'[c] = "call" /\ hw'[c] /\ hw'[c] = sync[hf[c]]
          \/ pc'[c] = "ack0" /\ ~hw'[c] /\ hw'[c] = sync[hf[c]]
      BY <1>t, <2>2, <2>3 DEF Types
    <3>3. hf[c] # NoCall
      BY <2>2 DEF CallId
    <3>. QED BY <2>1, <2>2, <2>4, <3>1, <3>2, <3>3
  <2>5. CASE d # c
    BY <1>t, <2>3, <2>5 DEF IndInv, Types, Handling, Serving, HandlingAt, ReadWait
  <2>. QED BY <2>4, <2>5
<1>8. Apart'
  <2>1. /\ hf[c] = cur[ipi_lock] /\ ipi_lock \in Proc
        /\ pc[ipi_lock] = "spin" /\ ~irr[c]
    BY DEF IndInv, Token, PreAck, ReadWait
  <2>2. /\ hf' = hf /\ cur' = cur /\ irr' = irr /\ ipi_lock' = ipi_lock
        /\ \A q \in Proc : q # c => pc'[q] = pc[q]
    BY <1>t DEF Types, ReadWait
  <2>3. ~InCall(c) /\ ~InCall(c)'
    BY <1>t DEF Types, ReadWait
  <2>4. \A q \in Proc : InCall(q)' /\ pc'[q] \notin {"spin", "unlock"} => hf[c] # cur[q]
    BY <1>t, <2>1, <2>2, <2>3 DEF IndInv, Types, Issued
  <2>5. \A d \in CPU : d # c => (Serving(d)' <=> Serving(d))
    BY <2>2 DEF Serving
  <2>6. \A q \in Proc : InCall(q)' <=> InCall(q)
    BY <2>2, <2>3
  <2>. SUFFICES ASSUME NEW d \in CPU, NEW q \in Proc
                PROVE  /\ (Serving(d) /\ InCall(q) /\ pc[q] \notin {"spin", "unlock"}
                             => hf[d] # cur[q])'
                       /\ (InCall(d) => cur[d] # hf[d])'
                       /\ (irr[d] /\ Serving(d) => hf[d] # cur[ipi_lock])'
    BY DEF Apart
  <2>7. CASE d = c
    BY <2>1, <2>2, <2>3, <2>4, <2>7
  <2>8. CASE d # c
    BY <2>2, <2>3, <2>5, <2>6, <2>8 DEF IndInv, Apart
  <2>. QED BY <2>7, <2>8
<1>9. Issued'
  <2>1. \A q \in Proc : InCall(q)' <=> cur'[q] # NoCall
    BY <1>t DEF IndInv, Types, Issued, ReadWait
  <2>2. \A q, r \in Proc : cur'[q] = cur'[r] /\ cur'[q] # NoCall => q = r
    BY <1>t DEF IndInv, Types, Issued, ReadWait
  <2>3. \A i \in CallId : st'[i] = "free" <=> i > ncalls'
    BY <1>t DEF IndInv, Types, Issued, CallerStatus, Handling, Serving,
        ReadWait
  <2>. QED BY <2>1, <2>2, <2>3 DEF Issued
<1>10. Acked'
  <2>. SUFFICES ASSUME NEW q \in Proc, Answered(q)' PROVE AckMeans(q)'
    BY DEF Acked, Answered
  <2>1. CASE Answered(q)
    <3>1. AckMeans(q) /\ cur[q] \in CallId /\ ipi_lock = q
      BY <1>t, <2>1 DEF IndInv, Types, Issued, LockHeld, Acked, Answered, CallId
    <3>. QED BY <1>t, <2>1, <3>1 DEF IndInv, Types, LockHeld, CallerStatus,
          Published, Token, PreAck, Handling, Serving, AckMeans, Answered,
          ReadWait
  <2>2. CASE ~Answered(q)
    BY <1>t, <2>2 DEF IndInv, Types, LockHeld, Issued, CallerStatus, Token,
        PreAck, Handling, Serving, Acked, AckMeans, Answered, ReadWait
  <2>. QED BY <2>1, <2>2
<1>. QED
  BY <1>1, <1>2, <1>3, <1>4, <1>5, <1>6, <1>7, <1>8, <1>9, <1>10 DEF IndInv

\* ipi_done = 1 consumes the token.
LEMMA AcknowledgeStep ==
  ASSUME IndInv, NEW c \in CPU, Acknowledge(c)
  PROVE  IndInv'
<1>t. Types
  BY TypesLemma DEF IndInv
<1>1. TypeOK'
  BY <1>t DEF IndInv, TypeOK, PcValues, HandlerPc, Status, CallId, Acknowledge
<1>2. Frames'
  BY DEF IndInv, TypeOK, Frames, HandlerPc, Acknowledge
<1>3. LockHeld'
  BY <1>t DEF IndInv, Types, LockHeld, Acknowledge
<1>4. CallerStatus'
  BY <1>t DEF IndInv, Types, Issued, CallerStatus, Handling, Serving, Apart,
      Acknowledge
<1>5. Published'
  BY <1>t DEF IndInv, Types, LockHeld, Issued, Published, Token, PreAck,
      Acknowledge
<1>6. Token'
  BY <1>t DEF IndInv, Types, LockHeld, Issued, CallerStatus, Published, Token,
      PreAck, Handling, Serving, Acknowledge
<1>7. Handling'
  BY <1>t DEF IndInv, Types, LockHeld, Issued, CallerStatus, Published, Token,
      PreAck, Handling, Serving, Apart, Acknowledge
<1>8. Apart'
  BY <1>t DEF IndInv, Types, LockHeld, Issued, Token, PreAck, Handling,
      Serving, Apart, Acknowledge
<1>9. Issued'
  <2>1. \A q \in Proc : InCall(q)' <=> cur'[q] # NoCall
    BY <1>t DEF IndInv, Types, Issued, Acknowledge
  <2>2. \A q, r \in Proc : cur'[q] = cur'[r] /\ cur'[q] # NoCall => q = r
    BY <1>t DEF IndInv, Types, Issued, Acknowledge
  <2>3. \A i \in CallId : st'[i] = "free" <=> i > ncalls'
    BY <1>t DEF IndInv, Types, Issued, CallerStatus, Handling, Serving,
        Acknowledge
  <2>. QED BY <2>1, <2>2, <2>3 DEF Issued
<1>10. Acked'
  <2>. SUFFICES ASSUME NEW q \in Proc, Answered(q)' PROVE AckMeans(q)'
    BY DEF Acked, Answered
  <2>1. /\ PreAck(c)
        /\ ipi_lock \in Proc /\ pc[ipi_lock] = "spin"
        /\ target[cur[ipi_lock]] = c /\ hf[c] = cur[ipi_lock]
    BY DEF IndInv, Token, PreAck, Acknowledge
  <2>2. q = ipi_lock /\ InCall(q) /\ cur[q] \in CallId
    BY <1>t, <2>1 DEF IndInv, Types, LockHeld, Issued, Answered, Acknowledge
  <2>3. sync[hf[c]] => st[hf[c]] = "done"
    BY <1>t DEF IndInv, Types, Handling, Serving, Acknowledge
  <2>. QED BY <1>t, <2>1, <2>2, <2>3 DEF Types, AckMeans, Acknowledge
<1>. QED
  BY <1>1, <1>2, <1>3, <1>4, <1>5, <1>6, <1>7, <1>8, <1>9, <1>10 DEF IndInv

\* The EOI.
LEMMA EndOfInterruptStep ==
  ASSUME IndInv, NEW c \in CPU, EndOfInterrupt(c)
  PROVE  IndInv'
<1>t. Types
  BY TypesLemma DEF IndInv
<1>1. TypeOK'
  BY <1>t DEF IndInv, TypeOK, PcValues, HandlerPc, Status, CallId,
      EndOfInterrupt
<1>2. Frames'
  BY DEF IndInv, TypeOK, Frames, HandlerPc, EndOfInterrupt
<1>3. LockHeld'
  BY <1>t DEF IndInv, Types, LockHeld, EndOfInterrupt
<1>4. CallerStatus'
  BY <1>t DEF IndInv, Types, Issued, CallerStatus, Handling, Serving, Apart,
      EndOfInterrupt
<1>5. Published'
  BY <1>t DEF IndInv, Types, LockHeld, Issued, Published, Token, PreAck,
      EndOfInterrupt
<1>6. Token'
  BY <1>t DEF IndInv, Types, LockHeld, Issued, CallerStatus, Published, Token,
      PreAck, Handling, Serving, EndOfInterrupt
<1>7. Handling'
  BY <1>t DEF IndInv, Types, LockHeld, Issued, CallerStatus, Published, Token,
      PreAck, Handling, Serving, Apart, EndOfInterrupt
<1>8. Apart'
  BY <1>t DEF IndInv, Types, LockHeld, Issued, Token, PreAck, Handling,
      Serving, Apart, EndOfInterrupt
<1>9. Issued'
  <2>1. \A q \in Proc : InCall(q)' <=> cur'[q] # NoCall
    BY <1>t DEF IndInv, Types, Issued, EndOfInterrupt
  <2>2. \A q, r \in Proc : cur'[q] = cur'[r] /\ cur'[q] # NoCall => q = r
    BY <1>t DEF IndInv, Types, Issued, EndOfInterrupt
  <2>3. \A i \in CallId : st'[i] = "free" <=> i > ncalls'
    BY <1>t DEF IndInv, Types, Issued, CallerStatus, Handling, Serving,
        EndOfInterrupt
  <2>. QED BY <2>1, <2>2, <2>3 DEF Issued
<1>10. Acked'
  <2>. SUFFICES ASSUME NEW q \in Proc, Answered(q)' PROVE AckMeans(q)'
    BY DEF Acked, Answered
  <2>1. CASE Answered(q)
    <3>1. AckMeans(q) /\ cur[q] \in CallId /\ ipi_lock = q
      BY <1>t, <2>1 DEF IndInv, Types, Issued, LockHeld, Acked, Answered, CallId
    <3>. QED BY <1>t, <2>1, <3>1 DEF IndInv, Types, LockHeld, CallerStatus,
          Published, Token, PreAck, Handling, Serving, AckMeans, Answered,
          EndOfInterrupt
  <2>2. CASE ~Answered(q)
    BY <1>t, <2>2 DEF IndInv, Types, LockHeld, Issued, CallerStatus, Token,
        PreAck, Handling, Serving, Acked, AckMeans, Answered, EndOfInterrupt
  <2>. QED BY <2>1, <2>2
<1>. QED
  BY <1>1, <1>2, <1>3, <1>4, <1>5, <1>6, <1>7, <1>8, <1>9, <1>10 DEF IndInv

\* function(data) starts.
LEMMA FunctionStartStep ==
  ASSUME IndInv, NEW c \in CPU, FunctionStart(c)
  PROVE  IndInv'
<1>t. Types
  BY TypesLemma DEF IndInv
<1>1. TypeOK'
  BY <1>t DEF IndInv, TypeOK, PcValues, HandlerPc, Status, CallId,
      FunctionStart
<1>2. Frames'
  BY DEF IndInv, TypeOK, Frames, HandlerPc, FunctionStart
<1>3. LockHeld'
  BY <1>t DEF IndInv, Types, LockHeld, FunctionStart
<1>4. CallerStatus'
  BY <1>t DEF IndInv, Types, Issued, CallerStatus, Handling, Serving, Apart,
      FunctionStart
<1>5. Published'
  BY <1>t DEF IndInv, Types, LockHeld, Issued, Published, Token, PreAck,
      FunctionStart
<1>6. Token'
  <2>1. hf[c] \in CallId /\ target[hf[c]] = c /\ Serving(c)
    BY <1>t DEF IndInv, Types, Handling, Serving, FunctionStart
  <2>2. \A d \in CPU : PreAck(d)' <=> PreAck(d)
    BY <1>t DEF Types, PreAck, FunctionStart
  <2>3. \A q \in Proc : q # c => pc'[q] = pc[q]
    BY <1>t DEF Types, FunctionStart
  <2>4. \A i \in CallId : i # hf[c] => st'[i] = st[i]
    BY <1>t DEF Types, FunctionStart
  <2>5. pc[c] = "call" /\ pc'[c] = "body"
    BY <1>t DEF Types, FunctionStart
  <2>6. irr[c] => hf[c] # cur[ipi_lock]
    BY <2>1 DEF IndInv, Apart
  <2>. SUFFICES ASSUME NEW d \in CPU, irr[d] \/ PreAck(d) PROVE TokenAt(d)'
    BY <2>2 DEF Token, TokenAt, FunctionStart
  <2>7. TokenAt(d) /\ ipi_lock # c /\ cur[ipi_lock] \in CallId
    BY <1>t, <2>5 DEF IndInv, Types, Token, TokenAt, Issued
  <2>8. CASE d = c
    BY <1>t, <2>1, <2>2, <2>3, <2>4, <2>5, <2>6, <2>7, <2>8
        DEF TokenAt, FunctionStart, PreAck
  <2>9. CASE d # c
    BY <1>t, <2>1, <2>2, <2>3, <2>4, <2>5, <2>7, <2>9
        DEF Types, TokenAt, FunctionStart
  <2>. QED BY <2>8, <2>9
<1>7. Handling'
  BY <1>t DEF IndInv, Types, LockHeld, Issued, CallerStatus, Published, Token,
      PreAck, Handling, Serving, Apart, FunctionStart
<1>8. Apart'
  BY <1>t DEF IndInv, Types, LockHeld, Issued, Token, PreAck, Handling,
      Serving, Apart, FunctionStart
<1>9. Issued'
  <2>1. \A q \in Proc : InCall(q)' <=> cur'[q] # NoCall
    BY <1>t DEF IndInv, Types, Issued, FunctionStart
  <2>2. \A q, r \in Proc : cur'[q] = cur'[r] /\ cur'[q] # NoCall => q = r
    BY <1>t DEF IndInv, Types, Issued, FunctionStart
  <2>3. \A i \in CallId : st'[i] = "free" <=> i > ncalls'
    BY <1>t DEF IndInv, Types, Issued, CallerStatus, Handling, Serving,
        FunctionStart
  <2>. QED BY <2>1, <2>2, <2>3 DEF Issued
<1>10. Acked'
  <2>. SUFFICES ASSUME NEW q \in Proc, Answered(q)' PROVE AckMeans(q)'
    BY DEF Acked, Answered
  <2>1. CASE Answered(q)
    <3>1. AckMeans(q) /\ cur[q] \in CallId /\ ipi_lock = q
      BY <1>t, <2>1 DEF IndInv, Types, Issued, LockHeld, Acked, Answered, CallId
    <3>. QED BY <1>t, <2>1, <3>1 DEF IndInv, Types, LockHeld, CallerStatus,
          Published, Token, PreAck, Handling, Serving, AckMeans, Answered,
          FunctionStart
  <2>2. CASE ~Answered(q)
    BY <1>t, <2>2 DEF IndInv, Types, LockHeld, Issued, CallerStatus, Token,
        PreAck, Handling, Serving, Acked, AckMeans, Answered, FunctionStart
  <2>. QED BY <2>1, <2>2
<1>. QED
  BY <1>1, <1>2, <1>3, <1>4, <1>5, <1>6, <1>7, <1>8, <1>9, <1>10 DEF IndInv

\* function(data) returns.
LEMMA FunctionReturnStep ==
  ASSUME IndInv, NEW c \in CPU, FunctionReturn(c)
  PROVE  IndInv'
<1>t. Types
  BY TypesLemma DEF IndInv
<1>1. TypeOK'
  BY <1>t DEF IndInv, TypeOK, PcValues, HandlerPc, Status, CallId,
      FunctionReturn
<1>2. Frames'
  BY DEF IndInv, TypeOK, Frames, HandlerPc, FunctionReturn
<1>3. LockHeld'
  BY <1>t DEF IndInv, Types, LockHeld, FunctionReturn
<1>4. CallerStatus'
  BY <1>t DEF IndInv, Types, Issued, CallerStatus, Handling, Serving, Apart,
      FunctionReturn
<1>5. Published'
  BY <1>t DEF IndInv, Types, LockHeld, Issued, Published, Token, PreAck,
      FunctionReturn
<1>6. Token'
  BY <1>t DEF IndInv, Types, LockHeld, Issued, CallerStatus, Published, Token,
      PreAck, Handling, Serving, FunctionReturn
<1>7. Handling'
  BY <1>t DEF IndInv, Types, LockHeld, Issued, CallerStatus, Published, Token,
      PreAck, Handling, Serving, Apart, FunctionReturn
<1>8. Apart'
  BY <1>t DEF IndInv, Types, LockHeld, Issued, Token, PreAck, Handling,
      Serving, Apart, FunctionReturn
<1>9. Issued'
  <2>1. \A q \in Proc : InCall(q)' <=> cur'[q] # NoCall
    BY <1>t DEF IndInv, Types, Issued, FunctionReturn
  <2>2. \A q, r \in Proc : cur'[q] = cur'[r] /\ cur'[q] # NoCall => q = r
    BY <1>t DEF IndInv, Types, Issued, FunctionReturn
  <2>3. \A i \in CallId : st'[i] = "free" <=> i > ncalls'
    BY <1>t DEF IndInv, Types, Issued, CallerStatus, Handling, Serving,
        FunctionReturn
  <2>. QED BY <2>1, <2>2, <2>3 DEF Issued
<1>10. Acked'
  <2>. SUFFICES ASSUME NEW q \in Proc, Answered(q)' PROVE AckMeans(q)'
    BY DEF Acked, Answered
  <2>1. CASE Answered(q)
    <3>1. AckMeans(q) /\ cur[q] \in CallId /\ ipi_lock = q
      BY <1>t, <2>1 DEF IndInv, Types, Issued, LockHeld, Acked, Answered, CallId
    <3>. QED BY <1>t, <2>1, <3>1 DEF IndInv, Types, LockHeld, CallerStatus,
          Published, Token, PreAck, Handling, Serving, AckMeans, Answered,
          FunctionReturn
  <2>2. CASE ~Answered(q)
    BY <1>t, <2>2 DEF IndInv, Types, LockHeld, Issued, CallerStatus, Token,
        PreAck, Handling, Serving, Acked, AckMeans, Answered, FunctionReturn
  <2>. QED BY <2>1, <2>2
<1>. QED
  BY <1>1, <1>2, <1>3, <1>4, <1>5, <1>6, <1>7, <1>8, <1>9, <1>10 DEF IndInv

\* The call is uncounted.
LEMMA DecActiveStep ==
  ASSUME IndInv, NEW c \in CPU, DecActive(c)
  PROVE  IndInv'
<1>t. Types
  BY TypesLemma DEF IndInv
<1>1. TypeOK'
  <2>1. active_cpus' \in Int
    BY DEF IndInv, TypeOK, DecActive
  <2>. QED BY <1>t, <2>1 DEF IndInv, TypeOK, PcValues, HandlerPc, Status,
        CallId, DecActive
<1>2. Frames'
  BY DEF IndInv, TypeOK, Frames, HandlerPc, DecActive
<1>3. LockHeld'
  BY <1>t DEF IndInv, Types, LockHeld, DecActive
<1>4. CallerStatus'
  BY <1>t DEF IndInv, Types, Issued, CallerStatus, Handling, Serving, Apart,
      DecActive
<1>5. Published'
  BY <1>t DEF IndInv, Types, LockHeld, Issued, Published, Token, PreAck,
      DecActive
<1>6. Token'
  BY <1>t DEF IndInv, Types, LockHeld, Issued, CallerStatus, Published, Token,
      PreAck, Handling, Serving, DecActive
<1>7. Handling'
  BY <1>t DEF IndInv, Types, LockHeld, Issued, CallerStatus, Published, Token,
      PreAck, Handling, Serving, Apart, DecActive
<1>8. Apart'
  BY <1>t DEF IndInv, Types, LockHeld, Issued, Token, PreAck, Handling,
      Serving, Apart, DecActive
<1>9. Issued'
  <2>1. \A q \in Proc : InCall(q)' <=> cur'[q] # NoCall
    BY <1>t DEF IndInv, Types, Issued, DecActive
  <2>2. \A q, r \in Proc : cur'[q] = cur'[r] /\ cur'[q] # NoCall => q = r
    BY <1>t DEF IndInv, Types, Issued, DecActive
  <2>3. \A i \in CallId : st'[i] = "free" <=> i > ncalls'
    BY <1>t DEF IndInv, Types, Issued, CallerStatus, Handling, Serving,
        DecActive
  <2>. QED BY <2>1, <2>2, <2>3 DEF Issued
<1>10. Acked'
  <2>. SUFFICES ASSUME NEW q \in Proc, Answered(q)' PROVE AckMeans(q)'
    BY DEF Acked, Answered
  <2>1. CASE Answered(q)
    <3>1. AckMeans(q) /\ cur[q] \in CallId /\ ipi_lock = q
      BY <1>t, <2>1 DEF IndInv, Types, Issued, LockHeld, Acked, Answered, CallId
    <3>. QED BY <1>t, <2>1, <3>1 DEF IndInv, Types, LockHeld, CallerStatus,
          Published, Token, PreAck, Handling, Serving, AckMeans, Answered,
          DecActive
  <2>2. CASE ~Answered(q)
    BY <1>t, <2>2 DEF IndInv, Types, LockHeld, Issued, CallerStatus, Token,
        PreAck, Handling, Serving, Acked, AckMeans, Answered, DecActive
  <2>. QED BY <2>1, <2>2
<1>. QED
  BY <1>1, <1>2, <1>3, <1>4, <1>5, <1>6, <1>7, <1>8, <1>9, <1>10 DEF IndInv

\* The handler's frame ends.
LEMMA IretStep ==
  ASSUME IndInv, NEW c \in CPU, Iret(c)
  PROVE  IndInv'
<1>t. Types
  BY TypesLemma DEF IndInv
<1>1. TypeOK'
  BY <1>t DEF IndInv, TypeOK, PcValues, HandlerPc, Status, CallId, Iret
<1>2. Frames'
  BY DEF IndInv, TypeOK, Frames, HandlerPc, Iret
<1>3. LockHeld'
  BY <1>t DEF IndInv, Types, LockHeld, Iret
<1>4. CallerStatus'
  BY <1>t DEF IndInv, Types, Issued, CallerStatus, Handling, Serving, Apart,
      Iret
<1>5. Published'
  BY <1>t DEF IndInv, Types, LockHeld, Issued, Published, Token, PreAck, Iret
<1>6. Token'
  BY <1>t DEF IndInv, Types, LockHeld, Issued, CallerStatus, Published, Token,
      PreAck, Handling, Serving, Iret
<1>7. Handling'
  BY <1>t DEF IndInv, Types, LockHeld, Issued, CallerStatus, Published, Token,
      PreAck, Handling, Serving, Apart, Iret
<1>8. Apart'
  BY <1>t DEF IndInv, Types, LockHeld, Issued, Token, PreAck, Handling,
      Serving, Apart, Iret
<1>9. Issued'
  <2>1. \A q \in Proc : InCall(q)' <=> cur'[q] # NoCall
    BY <1>t DEF IndInv, Types, Issued, Iret
  <2>2. \A q, r \in Proc : cur'[q] = cur'[r] /\ cur'[q] # NoCall => q = r
    BY <1>t DEF IndInv, Types, Issued, Iret
  <2>3. \A i \in CallId : st'[i] = "free" <=> i > ncalls'
    BY <1>t DEF IndInv, Types, Issued, CallerStatus, Handling, Serving, Iret
  <2>. QED BY <2>1, <2>2, <2>3 DEF Issued
<1>10. Acked'
  <2>. SUFFICES ASSUME NEW q \in Proc, Answered(q)' PROVE AckMeans(q)'
    BY DEF Acked, Answered
  <2>1. CASE Answered(q)
    <3>1. AckMeans(q) /\ cur[q] \in CallId /\ ipi_lock = q
      BY <1>t, <2>1 DEF IndInv, Types, Issued, LockHeld, Acked, Answered, CallId
    <3>. QED BY <1>t, <2>1, <3>1 DEF IndInv, Types, LockHeld, CallerStatus,
          Published, Token, PreAck, Handling, Serving, AckMeans, Answered,
          Iret
  <2>2. CASE ~Answered(q)
    BY <1>t, <2>2 DEF IndInv, Types, LockHeld, Issued, CallerStatus, Token,
        PreAck, Handling, Serving, Acked, AckMeans, Answered, Iret
  <2>. QED BY <2>1, <2>2
<1>. QED
  BY <1>1, <1>2, <1>3, <1>4, <1>5, <1>6, <1>7, <1>8, <1>9, <1>10 DEF IndInv

-----------------------------------------------------------------------------
\* A new call gets a number no context and no handler knows.
LEMMA FreshCall ==
  ASSUME IndInv, ncalls < MaxCalls
  PROVE  /\ ncalls + 1 \in CallId
         /\ st[ncalls + 1] = "free"
         /\ \A p \in Proc : cur[p] # ncalls + 1
         /\ \A c \in CPU : Serving(c) => hf[c] # ncalls + 1
<1>1. ncalls \in 0..MaxCalls
  BY DEF IndInv, TypeOK
<1>2. ncalls + 1 \in CallId /\ ncalls + 1 # NoCall
  BY <1>1 DEF CallId
<1>3. st[ncalls + 1] = "free"
  BY <1>1, <1>2 DEF IndInv, Issued
<1>. QED
  BY <1>2, <1>3 DEF IndInv, Issued, CallerStatus, Handling

\* Entering __on_cpu: from main(), from a loop of main(), or from a function
\* that runs asynchronously.
LEMMA EnterStep ==
  ASSUME IndInv, NEW p \in Proc, NEW t \in CPU, NEW w \in BOOLEAN,
         NEW k \in {"setup_smp_id", "work"}, Enter(p, t, w, k),
         p = Main => pc[Main] \in {"idle", "loop"},
         p # Main => pc[p] = "body" /\ ~hw[p],
         stage' = stage, idx' \in -1..NCpus,
         stage = "init" => idx' >= 1, stage = "cpus" => idx' < NCpus
  PROVE  IndInv'
<1>. DEFINE n == ncalls + 1
<1>t. Types
  BY TypesLemma DEF IndInv
<1>n. /\ n \in CallId /\ st[n] = "free"
      /\ \A q \in Proc : cur[q] # n
      /\ \A c \in CPU : Serving(c) => hf[c] # n
  BY FreshCall DEF Enter
<1>e. /\ pc' = [pc EXCEPT ![p] = "lock"] /\ cur' = [cur EXCEPT ![p] = n]
      /\ st' = [st EXCEPT ![n] = "called"] /\ target' = [target EXCEPT ![n] = t]
      /\ sync' = [sync EXCEPT ![n] = w] /\ kind' = [kind EXCEPT ![n] = k]
      /\ ncalls' = n /\ ncalls' \in 0..MaxCalls
      /\ UNCHANGED <<shared, smp_id, apic, locals>>
  BY DEF Enter, IndInv, TypeOK
<1>p. ~InCall(p) /\ cur[p] = NoCall /\ (p # Main => Serving(p) /\ ~PreAck(p))
  BY <1>t DEF IndInv, Types, Issued, Serving, PreAck
<1>o. /\ \A q \in Proc : q # p => pc'[q] = pc[q] /\ cur'[q] = cur[q]
      /\ pc'[p] = "lock" /\ cur'[p] = n
      /\ \A i \in CallId : i # n => /\ st'[i] = st[i]
                                    /\ target'[i] = target[i]
                                    /\ sync'[i] = sync[i]
      /\ st'[n] = "called"
  BY <1>t, <1>n, <1>e DEF Types
<1>. HIDE DEF n
<1>1. TypeOK'
  BY <1>n, <1>e DEF IndInv, TypeOK, PcValues, Status
<1>2. Frames'
  <2>1. /\ pc'[p] = "lock" /\ \A q \in Proc : q # p => pc'[q] = pc[q]
        /\ stage' = stage
    BY <1>o
  <2>2. (stage = "init" => idx' >= 1) /\ (stage = "cpus" => idx' < NCpus)
    OBVIOUS
  <2>. QED BY <2>1, <2>2 DEF IndInv, Frames
<1>3. LockHeld'
  BY <1>t, <1>e, <1>p, <1>o DEF IndInv, LockHeld
<1>4. CallerStatus'
  BY <1>t, <1>n, <1>o DEF IndInv, Types, Issued, CallerStatus
<1>5. Published'
  BY <1>t, <1>n, <1>e, <1>o DEF IndInv, Types, Issued, Published
<1>6. Token'
  <2>1. \A c \in CPU : PreAck(c)' <=> PreAck(c)
    BY <1>t, <1>e, <1>p, <1>o DEF Types, PreAck
  <2>2. \A c \in CPU : irr[c] \/ PreAck(c) => ipi_lock # p /\ cur[ipi_lock] \in CallId
    BY <1>t, <1>p DEF IndInv, Types, LockHeld, Issued, Token
  <2>. QED
    BY <1>t, <1>n, <1>e, <1>o, <1>p, <2>1, <2>2 DEF IndInv, Types, Token, PreAck
<1>7. Handling'
  <2>1. \A c \in CPU : Serving(c)' <=> Serving(c)
    BY <1>t, <1>e, <1>p, <1>o DEF Types, Serving
  <2>2. \A c \in CPU : Serving(c) => hf[c] \in CallId
    BY <1>t DEF IndInv, Types, Handling
  <2>. SUFFICES ASSUME NEW c \in CPU PROVE HandlingAt(c)'
    BY DEF Handling
  <2>3. HandlingAt(c)
    BY DEF IndInv, Handling
  <2>4. CASE c = p
    BY <1>t, <1>n, <1>e, <1>o, <1>p, <2>1, <2>2, <2>3, <2>4 DEF Types
  <2>5. CASE c # p
    BY <1>t, <1>n, <1>e, <1>o, <2>1, <2>2, <2>3, <2>5 DEF Types, Serving
  <2>. QED BY <2>4, <2>5
<1>8. Apart'
  <2>1. \A c \in CPU : Serving(c)' <=> Serving(c)
    BY <1>t, <1>e, <1>p, <1>o DEF Types, Serving
  <2>2. \A c \in CPU : irr[c] => ipi_lock \in Proc /\ ipi_lock # p
    BY <1>t, <1>p DEF IndInv, LockHeld, Token
  <2>. QED
    BY <1>t, <1>n, <1>e, <1>o, <1>p, <2>1, <2>2 DEF IndInv, Types, Apart, Serving
<1>9. Issued'
  <2>1. \A q \in Proc : InCall(q)' <=> cur'[q] # NoCall
    BY <1>t, <1>n, <1>o DEF IndInv, Types, Issued, CallId
  <2>2. \A q, r \in Proc : cur'[q] = cur'[r] /\ cur'[q] # NoCall => q = r
    BY <1>t, <1>n, <1>o DEF IndInv, Types, Issued
  <2>3. \A i \in CallId : st'[i] = "free" <=> i > ncalls'
    <3>0. ncalls \in 0..MaxCalls
      BY DEF IndInv, TypeOK
    <3>1. \A i \in CallId : i # n => (i > ncalls <=> i > n)
      BY <3>0 DEF CallId, n
    <3>2. ~(n > n) /\ ncalls' = n
      BY <1>n, <1>e DEF CallId
    <3>. QED BY <1>n, <1>o, <3>1, <3>2 DEF IndInv, Issued
  <2>. QED BY <2>1, <2>2, <2>3 DEF Issued
<1>10. Acked'
  <2>. SUFFICES ASSUME NEW q \in Proc, Answered(q)' PROVE AckMeans(q)'
    BY DEF Acked, Answered
  <2>1. q # p /\ Answered(q)
    BY <1>e, <1>o DEF Answered
  <2>2. AckMeans(q) /\ cur[q] \in CallId /\ cur[q] # n
    BY <1>t, <1>n, <2>1 DEF IndInv, Types, Issued, Acked, Answered
  <2>. QED BY <1>t, <1>n, <1>e, <1>o, <2>1, <2>2 DEF AckMeans
<1>. QED
  BY <1>1, <1>2, <1>3, <1>4, <1>5, <1>6, <1>7, <1>8, <1>9, <1>10 DEF IndInv

-----------------------------------------------------------------------------
\* The steps of smp_init and on_cpus in main() that make no call.
LEMMA MainStep ==
  ASSUME IndInv,
         SmpInitSelf \/ SmpInitDone \/ OnCpusWait \/ OnCpusReturn \/ OnCpus
  PROVE  IndInv'
<1>. DEFINE quiet == <<ipi_lock, ipi_function, ipi_data, ipi_done, ipi_wait,
                       irr, cur, hf, hd, hw, ncalls, target, sync, st>>
<1>t. Types
  BY TypesLemma DEF IndInv
<1>1. UNCHANGED quiet
  BY DEF SmpInitSelf, SmpInitDone, OnCpusWait, OnCpusReturn, OnCpus
<1>2. /\ pc' \in [Proc -> PcValues]
      /\ \A c \in CPU : pc'[c] = pc[c]
      /\ pc[Main] \in {"boot", "loop", "wait", "idle"}
      /\ pc'[Main] \in {"loop", "wait", "idle"}
  <2>1. /\ pc[Main] \in {"boot", "loop", "wait", "idle"}
        /\ \E l \in {"loop", "wait", "idle"} : pc' = [pc EXCEPT ![Main] = l]
    BY DEF SmpInitSelf, SmpInitDone, OnCpusWait, OnCpusReturn, OnCpus
  <2>2. PICK l \in {"loop", "wait", "idle"} : pc' = [pc EXCEPT ![Main] = l]
    BY <2>1
  <2>. QED BY <1>t, <2>1, <2>2 DEF Types, PcValues
<1>3. TypeOK'
  <2>1. active_cpus \in Int /\ idx \in -1..NCpus /\ smp_id \in [CPU -> CPU]
    BY DEF IndInv, TypeOK
  <2>2. /\ active_cpus' \in {active_cpus, active_cpus + 1}
        /\ idx' \in {idx, NCpus - 1}
        /\ smp_id' \in {smp_id, [smp_id EXCEPT ![0] = 0]}
        /\ isr' = isr /\ kind' = kind
    BY DEF SmpInitSelf, SmpInitDone, OnCpusWait, OnCpusReturn, OnCpus
  <2>a. active_cpus' \in Int /\ idx' \in -1..NCpus
    BY <2>1, <2>2
  <2>b. smp_id' \in [CPU -> CPU]
    BY <2>1, <2>2
  <2>3. stage' \in {"init", "user", "cpus"}
    BY DEF IndInv, TypeOK, SmpInitSelf, SmpInitDone, OnCpusWait, OnCpusReturn,
        OnCpus
  <2>. QED BY <1>1, <1>2, <2>2, <2>3, <2>a, <2>b DEF IndInv, TypeOK
<1>4. Frames'
  <2>1. \/ pc'[Main] = "loop" /\ stage' # "user"
        \/ pc'[Main] = "wait" /\ stage' = "cpus"
        \/ pc'[Main] = "idle" /\ stage' = "user"
    BY <1>t DEF IndInv, Types, Frames, SmpInitSelf, SmpInitDone, OnCpusWait,
        OnCpusReturn, OnCpus
  <2>2. (stage' = "init" => idx' >= 1) /\ (stage' = "cpus" => idx' < NCpus)
    <3>1. \/ idx' = idx /\ stage' \in {stage, "user"}
          \/ idx' = NCpus - 1 /\ stage' = "cpus"
      BY DEF SmpInitSelf, SmpInitDone, OnCpusWait, OnCpusReturn, OnCpus
    <3>. QED BY <3>1 DEF IndInv, Frames
  <2>. QED BY <1>2, <2>1, <2>2 DEF IndInv, Frames
<1>5. \A q \in Proc : InCall(q)' <=> InCall(q)
  BY <1>2
<1>6. \A q \in Proc : InCall(q) => pc'[q] = pc[q]
  BY <1>2
<1>7. \A c \in CPU : (PreAck(c)' <=> PreAck(c)) /\ (Serving(c)' <=> Serving(c))
  BY <1>1, <1>2 DEF PreAck, Serving
<1>8. LockHeld' /\ Issued'
  BY <1>1, <1>2, <1>5, <1>6 DEF IndInv, LockHeld, Issued
<1>9. CallerStatus' /\ Published'
  BY <1>1, <1>2 DEF IndInv, CallerStatus, Published
<1>10. Token'
  BY <1>1, <1>2, <1>7 DEF IndInv, Token
<1>11. Handling'
  BY <1>1, <1>2, <1>7 DEF IndInv, Handling
<1>12. Apart'
  BY <1>1, <1>2, <1>7 DEF IndInv, Apart
<1>13. Acked'
  BY <1>1, <1>2 DEF IndInv, Acked, AckMeans
<1>. QED
  BY <1>3, <1>4, <1>8, <1>9, <1>10, <1>11, <1>12, <1>13 DEF IndInv

-----------------------------------------------------------------------------
\* The globals are zero and every AP halts: nothing is in flight.
LEMMA InitInd == Init => IndInv
<1>. SUFFICES ASSUME Init PROVE IndInv
  OBVIOUS
<1>1. TypeOK
  <2>1. pc \in [Proc -> PcValues]
    BY DEF Init, PcValues
  <2>2. 1 \in -1..NCpus /\ 0 \in CPU /\ 0 \in 0..MaxCalls
    OBVIOUS
  <2>3. /\ smp_id \in [CPU -> CPU] /\ irr \in [CPU -> BOOLEAN]
        /\ isr \in [CPU -> BOOLEAN] /\ cur \in [Proc -> CallId \cup {NoCall}]
        /\ hf \in [CPU -> CallId \cup {NoCall}]
        /\ hd \in [CPU -> CallId \cup {NoCall}] /\ hw \in [CPU -> BOOLEAN]
        /\ target \in [CallId -> CPU] /\ sync \in [CallId -> BOOLEAN]
        /\ kind \in [CallId -> {"setup_smp_id", "work"}] /\ st \in [CallId -> Status]
    BY <2>2 DEF Init, Status
  <2>4. /\ ipi_lock = Unlocked /\ ipi_function = NoCall /\ ipi_data = NoCall
        /\ ipi_done = 0 /\ active_cpus = 0
        /\ stage = "init" /\ idx = 1 /\ ncalls = 0
    BY DEF Init
  <2>5. /\ ipi_lock \in Proc \cup {Unlocked} /\ ipi_function \in CallId \cup {NoCall}
        /\ ipi_data \in CallId \cup {NoCall} /\ ipi_done \in {0, 1}
        /\ active_cpus \in Int
        /\ stage \in {"init", "user", "cpus"} /\ idx \in -1..NCpus
        /\ ncalls \in 0..MaxCalls
    BY <2>2, <2>4
  <2>6. ipi_wait \in BOOLEAN
    BY DEF Init
  <2>. QED BY <2>1, <2>3, <2>5, <2>6 DEF TypeOK
<1>2. Frames /\ LockHeld /\ CallerStatus /\ Published
  <2>1. pc[Main] = "boot" /\ \A c \in CPU : pc[c] = "idle"
    BY DEF Init
  <2>2. stage = "init" /\ idx = 1 /\ ipi_lock = Unlocked
    BY DEF Init
  <2>. QED BY <2>1, <2>2 DEF Frames, LockHeld, CallerStatus, Published
<1>3. Issued
  BY DEF Init, Issued, CallId
<1>4. Token /\ Handling /\ Apart /\ Acked
  BY DEF Init, Token, Handling, Apart, Acked, PreAck, Serving
<1>. QED
  BY <1>1, <1>2, <1>3, <1>4 DEF IndInv

\* Every step preserves the invariant.
LEMMA NextInd == IndInv /\ [Next]_vars => IndInv'
<1>. SUFFICES ASSUME IndInv, [Next]_vars PROVE IndInv'
  OBVIOUS
<1>1. CASE LoopStep
  <2>1. CASE SmpInitCall
    <3>1. idx \in CPU /\ idx' \in -1..NCpus /\ idx' >= 1 /\ stage = "init"
      BY <2>1 DEF SmpInitCall, IndInv, TypeOK, Frames
    <3>2. Enter(Main, idx, TRUE, "setup_smp_id") /\ stage' = stage /\ pc[Main] = "loop"
      BY <2>1 DEF SmpInitCall
    <3>. QED BY <3>1, <3>2, EnterStep
  <2>2. CASE OnCpusCall
    <3>1. idx \in CPU /\ idx' \in -1..NCpus /\ idx' < NCpus /\ stage = "cpus"
      BY <2>2 DEF OnCpusCall, IndInv, TypeOK, Frames
    <3>2. Enter(Main, idx, FALSE, "work") /\ stage' = stage /\ pc[Main] = "loop"
      BY <2>2 DEF OnCpusCall
    <3>. QED BY <3>1, <3>2, EnterStep
  <2>. QED
    BY <1>1, <2>1, <2>2, MainStep DEF LoopStep
<1>2. CASE OnCpus
  BY <1>2, MainStep
<1>3. CASE \E t \in CPU, w \in BOOLEAN : MainCall(t, w)
  <2>1. PICK t \in CPU, w \in BOOLEAN : MainCall(t, w)
    BY <1>3
  <2>2. Enter(Main, t, w, "work") /\ pc[Main] = "idle" /\ UNCHANGED loop
    BY <2>1 DEF MainCall
  <2>3. stage' = stage /\ idx' \in -1..NCpus /\ stage = "user"
    BY <2>2 DEF IndInv, TypeOK, Frames
  <2>. QED BY <2>2, <2>3, EnterStep
<1>4. CASE \E c, t \in CPU : NestedCall(c, t)
  <2>1. PICK c \in CPU, t \in CPU : NestedCall(c, t)
    BY <1>4
  <2>2. Enter(c, t, FALSE, "work") /\ pc[c] = "body" /\ ~hw[c] /\ UNCHANGED loop
    BY <2>1 DEF NestedCall
  <2>3. stage' = stage /\ idx' = idx /\ idx \in -1..NCpus /\ c \in Proc /\ c # Main
        /\ (stage = "init" => idx >= 1) /\ (stage = "cpus" => idx < NCpus)
    BY <2>2 DEF IndInv, TypeOK, Frames
  <2>. QED BY <2>2, <2>3, EnterStep
<1>5. CASE \E p \in Proc : CallStep(p)
  BY <1>5, SpinLockStep, CallSelfStep, SelfReturnStep, IncActiveStep,
     ClearDoneStep, SetFunctionStep, SetDataStep, SetWaitStep, SendIpiStep,
     SpinDoneStep, SpinUnlockStep DEF CallStep
<1>6. CASE \E c \in CPU : HandlerStep(c)
  BY <1>6, DeliverStep, ReadFunctionStep, ReadDataStep, ReadWaitStep,
     AcknowledgeStep, EndOfInterruptStep, FunctionStartStep,
     FunctionReturnStep, DecActiveStep, IretStep DEF HandlerStep
<1>7. CASE UNCHANGED vars
  <2>1. TypeOK'
    BY <1>7 DEF vars, IndInv, TypeOK
  <2>0. Frames'
    BY <1>7 DEF vars, IndInv, Frames
  <2>2. LockHeld' /\ Issued' /\ CallerStatus' /\ Published'
    BY <1>7 DEF vars, IndInv, LockHeld, Issued, CallerStatus, Published
  <2>3. Token' /\ Handling' /\ Apart' /\ Acked'
    BY <1>7 DEF vars, IndInv, Token, PreAck, Handling, Serving, Apart, Acked,
        AckMeans
  <2>. QED BY <2>0, <2>1, <2>2, <2>3 DEF IndInv
<1>. QED
  BY <1>1, <1>2, <1>3, <1>4, <1>5, <1>6, <1>7 DEF Next

\* The inductive invariant holds in every reachable state.
THEOREM Invariance == Spec => []IndInv
  BY InitInd, NextInd, PTL DEF Spec

\* Type correctness, for any number of CPUs and calls.
THEOREM TypeCorrect == Spec => []TypeOK
<1>1. IndInv => TypeOK
  BY DEF IndInv
<1>. QED
  BY <1>1, Invariance, PTL

\* ipi() runs the function of one call, with that call's data and wait flag,
\* on the CPU the call named (smp.c:24-26).
THEOREM ArgumentsMatchCorrect == Spec => []ArgumentsMatch
<1>1. IndInv => ArgumentsMatch
  BY DEF IndInv, ArgumentsMatch, Handling, Serving
<1>. QED
  BY <1>1, Invariance, PTL

\* No call's function runs twice, nor on two CPUs at once.
THEOREM RunsOnceCorrect == Spec => []RunsOnce
<1>1. IndInv => RunsOnce
  BY DEF IndInv, RunsOnce, Handling, Serving
<1>. QED
  BY <1>1, Invariance, PTL

\* on_cpu returns after its function; on_cpu_async after its arguments are taken.
THEOREM ReturnAfterCallCorrect == Spec => []ReturnAfterCall
<1>1. IndInv => ReturnAfterCall
  BY DEF IndInv, ReturnAfterCall, Acked, AckMeans
<1>. QED
  BY <1>1, Invariance, PTL

-----------------------------------------------------------------------------
(* The barrier of on_cpus: what active_cpus counts. *)

\* There are finitely many calls.
LEMMA CountedFinite == IsFiniteSet(Counted) /\ Cardinality(Counted) \in Nat
<1>1. IsFiniteSet(CallId)
  BY FS_Interval DEF CallId
<1>2. Counted \subseteq CallId
  BY DEF Counted
<1>. QED
  BY <1>1, <1>2, FS_Subset, FS_CardinalityType

\* A step that counts no call and leaves smp_init where it is.
LEMMA SameCount ==
  ASSUME ActiveExact, Counted' = Counted, active_cpus' = active_cpus,
         (stage' = "init") <=> (stage = "init")
  PROVE  ActiveExact'
  BY DEF ActiveExact

\* A context that is in __on_cpu has a call of its own.
LEMMA CallerCur ==
  ASSUME IndInv, NEW p \in Proc, InCall(p)
  PROVE  cur[p] \in CallId /\ \A q \in Proc : q # p => cur[q] # cur[p]
<1>1. cur[p] # NoCall /\ cur[p] \in CallId \cup {NoCall}
  BY DEF IndInv, TypeOK, Issued
<1>. QED
  BY <1>1 DEF IndInv, Issued

\* A handler's call is one of the calls.
LEMMA HandlerCall ==
  ASSUME IndInv, NEW c \in CPU, pc[c] \in {"call", "body", "dec"}
  PROVE  hf[c] \in CallId /\ st[hf[c]] \in {"posted", "running", "ran"}
<1>1. hf[c] \in CallId \cup {NoCall}
  BY DEF IndInv, TypeOK
<1>2. Serving(c)
  BY DEF Serving
<1>. QED
  BY <1>1, <1>2 DEF IndInv, Handling

\* The steps of a context that make no call, count nothing and end nothing.
LEMMA QuietCount ==
  ASSUME CountInv, st' = st, cur' = cur, active_cpus' = active_cpus,
         (stage' = "init") <=> (stage = "init"),
         \A p \in Proc : pc'[p] = "unlock" => pc[p] = "unlock"
  PROVE  CountInv'
<1>1. ActiveExact'
  BY SameCount DEF CountInv, Counted
<1>2. Claimed' /\ Left'
  BY DEF CountInv, Claimed, Left
<1>. QED
  BY <1>1, <1>2 DEF CountInv

\* Entering __on_cpu.
LEMMA EnterCount ==
  ASSUME IndInv, CountInv, NEW p \in Proc, NEW t, NEW w, NEW k, Enter(p, t, w, k),
         stage' = stage, ~InCall(p)
  PROVE  CountInv'
<1>. DEFINE n == ncalls + 1
<1>t. Types /\ ncalls \in 0..MaxCalls
  BY TypesLemma DEF IndInv, TypeOK
<1>1. n \in CallId /\ st[n] = "free" /\ cur[p] = NoCall
  BY <1>t DEF IndInv, Issued, CallId, Enter
<1>2. st' = [st EXCEPT ![n] = "called"] /\ cur' = [cur EXCEPT ![p] = n]
      /\ pc' = [pc EXCEPT ![p] = "lock"] /\ active_cpus' = active_cpus
  BY DEF Enter
<1>. HIDE DEF n
<1>3. Counted' = Counted
  BY <1>t, <1>1, <1>2 DEF Counted, Types
<1>4. ActiveExact'
  BY <1>2, <1>3, SameCount DEF CountInv
<1>5. Claimed'
  <2>. SUFFICES ASSUME NEW i \in CallId, st'[i] \in {"called", "self"}
                PROVE  \E q \in Proc : cur'[q] = i
    BY DEF Claimed
  <2>1. CASE i = n
    BY <1>t, <1>2, <2>1 DEF Types
  <2>2. CASE i # n
    <3>1. PICK q \in Proc : cur[q] = i
      BY <1>t, <1>2, <2>2 DEF CountInv, Claimed, Types
    <3>2. q # p /\ cur'[q] = i
      BY <1>t, <1>1, <1>2, <3>1 DEF Types, CallId
    <3>. QED BY <3>2
  <2>. QED BY <2>1, <2>2
<1>6. Left'
  <2>. SUFFICES ASSUME NEW q \in Proc, pc'[q] = "unlock"
                PROVE  st'[cur'[q]] \notin {"called", "self"}
    BY DEF Left
  <2>1. q # p /\ pc[q] = "unlock" /\ cur'[q] = cur[q]
    BY <1>t, <1>2 DEF Types
  <2>2. cur[q] \in CallId /\ st[cur[q]] # "free"
    BY <2>1, CallerCur DEF IndInv, CallerStatus
  <2>3. st'[cur[q]] = st[cur[q]]
    BY <1>t, <1>1, <1>2, <2>2 DEF Types
  <2>. QED BY <2>1, <2>3 DEF CountInv, Left
<1>. QED
  BY <1>4, <1>5, <1>6 DEF CountInv

\* One call's status changes, in a step that leaves __on_cpu to nobody.
LEMMA StatusCount ==
  ASSUME IndInv, CountInv, NEW j \in CallId, NEW s \in Status,
         st' = [st EXCEPT ![j] = s], cur' = cur,
         s \in {"called", "self"} => \E p \in Proc : cur[p] = j /\ pc[p] = "test",
         \A p \in Proc : pc'[p] = "unlock" =>
             pc[p] = "unlock" \/ (cur[p] = j /\ s \notin {"called", "self"})
  PROVE  Claimed' /\ Left'
<1>t. Types
  BY TypesLemma DEF IndInv
<1>1. Claimed'
  <2>. SUFFICES ASSUME NEW i \in CallId, st'[i] \in {"called", "self"}
                PROVE  \E p \in Proc : cur[p] = i
    BY DEF Claimed
  <2>1. CASE i = j
    BY <1>t, <2>1 DEF Types
  <2>2. CASE i # j
    BY <1>t, <2>2 DEF Types, CountInv, Claimed
  <2>. QED BY <2>1, <2>2
<1>2. Left'
  <2>. SUFFICES ASSUME NEW q \in Proc, pc'[q] = "unlock"
                PROVE  st'[cur[q]] \notin {"called", "self"}
    BY DEF Left
  <2>1. CASE cur[q] = j /\ s \notin {"called", "self"}
    BY <1>t, <2>1 DEF Types
  <2>2. CASE pc[q] = "unlock"
    <3>1. cur[q] \in CallId /\ \A p \in Proc : p # q => cur[p] # cur[q]
      BY <2>2, CallerCur
    <3>2. st[cur[q]] \notin {"called", "self"}
      BY <2>2 DEF CountInv, Left
    <3>3. CASE cur[q] # j
      BY <1>t, <3>1, <3>2, <3>3 DEF Types
    <3>4. CASE cur[q] = j
      <4>1. s \notin {"called", "self"}
        BY <2>2, <3>1, <3>4
      <4>. QED BY <1>t, <3>4, <4>1 DEF Types
    <3>. QED BY <3>3, <3>4
  <2>. QED BY <2>1, <2>2
<1>. QED
  BY <1>1, <1>2

\* Every step of __on_cpu keeps the count.
LEMMA CallCount ==
  ASSUME IndInv, CountInv, NEW p \in Proc, CallStep(p)
  PROVE  CountInv'
<1>t. Types
  BY TypesLemma DEF IndInv
<1>1. CASE SpinLock(p) \/ ClearDone(p) \/ SetFunction(p) \/ SetData(p) \/ SetWait(p)
           \/ SendIpi(p)
  <2>1. st' = st /\ cur' = cur /\ active_cpus' = active_cpus /\ stage' = stage
    BY <1>1 DEF SpinLock, ClearDone, SetFunction, SetData, SetWait, SendIpi
  <2>2. \A q \in Proc : pc'[q] = "unlock" => pc[q] = "unlock"
    BY <1>1, <1>t DEF Types, SpinLock, ClearDone, SetFunction, SetData, SetWait, SendIpi
  <2>. QED BY <2>1, <2>2, QuietCount
<1>2. CASE CallSelf(p)
  <2>1. cur[p] \in CallId /\ st[cur[p]] = "called" /\ pc[p] = "test"
    BY <1>2, CallerCur DEF CallSelf, IndInv, CallerStatus
  <2>2. st' = [st EXCEPT ![cur[p]] = "self"] /\ cur' = cur /\ stage' = stage
        /\ active_cpus' = active_cpus /\ pc' = [pc EXCEPT ![p] = "self"]
    BY <1>2 DEF CallSelf
  <2>3. \A q \in Proc : pc'[q] = "unlock" => pc[q] = "unlock"
    BY <2>2, <1>t DEF Types
  <2>4. Claimed' /\ Left'
    BY <2>1, <2>2, <2>3, StatusCount DEF Status
  <2>5. Counted' = Counted
    BY <2>1, <2>2, <1>t DEF Counted, Types
  <2>. QED BY <2>2, <2>4, <2>5, SameCount DEF CountInv
<1>3. CASE SelfReturn(p)
  <2>1. cur[p] \in CallId /\ st[cur[p]] = "self" /\ pc[p] = "self"
    BY <1>3, CallerCur DEF SelfReturn, IndInv, CallerStatus
  <2>2. st' = [st EXCEPT ![cur[p]] = "done"] /\ cur' = cur /\ stage' = stage
        /\ active_cpus' = active_cpus /\ pc' = [pc EXCEPT ![p] = "unlock"]
    BY <1>3 DEF SelfReturn
  <2>3. \A q \in Proc : pc'[q] = "unlock" => pc[q] = "unlock" \/ q = p
    BY <2>2, <1>t DEF Types
  <2>4. Claimed' /\ Left'
    BY <2>1, <2>2, <2>3, StatusCount DEF Status
  <2>5. Counted' = Counted
    BY <2>1, <2>2, <1>t DEF Counted, Types
  <2>. QED BY <2>2, <2>4, <2>5, SameCount DEF CountInv
<1>4. CASE IncActive(p)
  <2>1. cur[p] \in CallId /\ st[cur[p]] = "called" /\ pc[p] = "test"
    BY <1>4, CallerCur DEF IncActive, IndInv, CallerStatus
  <2>2. st' = [st EXCEPT ![cur[p]] = "posted"] /\ cur' = cur /\ stage' = stage
        /\ active_cpus' = active_cpus + 1 /\ pc' = [pc EXCEPT ![p] = "clear"]
    BY <1>4 DEF IncActive
  <2>3. \A q \in Proc : pc'[q] = "unlock" => pc[q] = "unlock"
    BY <2>2, <1>t DEF Types
  <2>4. Claimed' /\ Left'
    BY <2>1, <2>2, <2>3, StatusCount DEF Status
  <2>5. Counted' = Counted \cup {cur[p]} /\ cur[p] \notin Counted
    BY <2>1, <2>2, <1>t DEF Counted, Types
  <2>6. Cardinality(Counted') = Cardinality(Counted) + 1
    BY <2>5, CountedFinite, FS_AddElement
  <2>7. ActiveExact'
    BY <2>2, <2>6, CountedFinite DEF CountInv, ActiveExact
  <2>. QED BY <2>4, <2>7 DEF CountInv
<1>5. CASE SpinDone(p)
  <2>1. cur[p] \in CallId /\ st[cur[p]] \in {"posted", "running", "ran", "done"}
    BY <1>5, CallerCur DEF SpinDone, IndInv, CallerStatus
  <2>2. st' = st /\ cur' = cur /\ active_cpus' = active_cpus /\ stage' = stage
        /\ pc' = [pc EXCEPT ![p] = "unlock"]
    BY <1>5 DEF SpinDone
  <2>3. Claimed' /\ Left'
    BY <2>1, <2>2, <1>t DEF CountInv, Claimed, Left, Types
  <2>. QED BY <2>2, <2>3, SameCount DEF CountInv, Counted
<1>6. CASE SpinUnlock(p)
  <2>1. pc[p] = "unlock" /\ cur[p] \in CallId
    BY <1>6, CallerCur DEF SpinUnlock
  <2>2. st' = st /\ cur' = [cur EXCEPT ![p] = NoCall] /\ active_cpus' = active_cpus
        /\ stage' = stage
    BY <1>6 DEF SpinUnlock
  <2>3. \A q \in Proc : pc'[q] = "unlock" => pc[q] = "unlock" /\ q # p
    BY <1>6, <1>t DEF Types, SpinUnlock
  <2>4. \A q \in Proc : q # p => cur'[q] = cur[q]
    BY <2>2, <1>t DEF Types
  <2>5. Left'
    BY <2>2, <2>3, <2>4 DEF CountInv, Left
  <2>6. Claimed'
    BY <2>1, <2>2, <2>4 DEF CountInv, Claimed, Left
  <2>. QED BY <2>2, <2>5, <2>6, SameCount DEF CountInv, Counted
<1>. QED
  BY <1>1, <1>2, <1>3, <1>4, <1>5, <1>6 DEF CallStep

\* Every step of ipi() keeps the count.
LEMMA HandlerCount ==
  ASSUME IndInv, CountInv, NEW c \in CPU, HandlerStep(c)
  PROVE  CountInv'
<1>t. Types
  BY TypesLemma DEF IndInv
<1>1. CASE Deliver(c) \/ ReadFunction(c) \/ ReadData(c) \/ ReadWait(c) \/ Acknowledge(c)
           \/ EndOfInterrupt(c) \/ Iret(c)
  <2>1. st' = st /\ cur' = cur /\ active_cpus' = active_cpus /\ stage' = stage
    BY <1>1 DEF Deliver, ReadFunction, ReadData, ReadWait, Acknowledge, EndOfInterrupt, Iret
  <2>2. \A q \in Proc : pc'[q] = "unlock" => pc[q] = "unlock"
    BY <1>1, <1>t DEF Types, Deliver, ReadFunction, ReadData, ReadWait, Acknowledge,
        EndOfInterrupt, Iret
  <2>. QED BY <2>1, <2>2, QuietCount
<1>2. CASE FunctionStart(c) \/ FunctionReturn(c)
  <2>1. hf[c] \in CallId /\ st[hf[c]] \in {"posted", "running", "ran"}
    BY <1>2, HandlerCall DEF FunctionStart, FunctionReturn
  <2>2. PICK s \in {"running", "ran"} : st' = [st EXCEPT ![hf[c]] = s]
    BY <1>2 DEF FunctionStart, FunctionReturn
  <2>3. cur' = cur /\ stage' = stage /\ active_cpus' = active_cpus
    BY <1>2 DEF FunctionStart, FunctionReturn
  <2>4. \A q \in Proc : pc'[q] = "unlock" => pc[q] = "unlock"
    BY <1>2, <1>t DEF Types, FunctionStart, FunctionReturn
  <2>5. Claimed' /\ Left'
    BY <2>1, <2>2, <2>3, <2>4, StatusCount DEF Status
  <2>6. Counted' = Counted
    BY <2>1, <2>2, <1>t DEF Counted, Types
  <2>. QED BY <2>3, <2>5, <2>6, SameCount DEF CountInv
<1>3. CASE DecActive(c)
  <2>1. hf[c] \in CallId /\ st[hf[c]] \in {"posted", "running", "ran"}
    BY <1>3, HandlerCall DEF DecActive
  <2>2. st' = [st EXCEPT ![hf[c]] = "done"] /\ cur' = cur /\ stage' = stage
        /\ active_cpus' = active_cpus - 1
    BY <1>3 DEF DecActive
  <2>3. \A q \in Proc : pc'[q] = "unlock" => pc[q] = "unlock"
    BY <1>3, <1>t DEF Types, DecActive
  <2>4. Claimed' /\ Left'
    BY <2>1, <2>2, <2>3, StatusCount DEF Status
  <2>5. Counted' = Counted \ {hf[c]} /\ hf[c] \in Counted
    BY <2>1, <2>2, <1>t DEF Counted, Types
  <2>6. Cardinality(Counted') = Cardinality(Counted) - 1
    BY <2>5, CountedFinite, FS_RemoveElement
  <2>7. ActiveExact'
    BY <2>2, <2>6, CountedFinite DEF CountInv, ActiveExact
  <2>. QED BY <2>4, <2>7 DEF CountInv
<1>. QED
  BY <1>1, <1>2, <1>3 DEF HandlerStep

\* main() and smp_init outside __on_cpu keep the count.
LEMMA MainCount ==
  ASSUME IndInv, CountInv, SmpInitSelf \/ SmpInitDone \/ OnCpus \/ OnCpusWait \/ OnCpusReturn
  PROVE  CountInv'
<1>t. Types
  BY TypesLemma DEF IndInv
<1>1. CASE SmpInitSelf \/ OnCpus \/ OnCpusWait \/ OnCpusReturn
  <2>1. st' = st /\ cur' = cur /\ active_cpus' = active_cpus
    BY <1>1 DEF SmpInitSelf, OnCpus, OnCpusWait, OnCpusReturn
  <2>2. (stage' = "init") <=> (stage = "init")
    BY <1>1 DEF SmpInitSelf, OnCpus, OnCpusWait, OnCpusReturn, IndInv, Frames
  <2>3. \A q \in Proc : pc'[q] = "unlock" => pc[q] = "unlock"
    BY <1>1, <1>t DEF Types, SmpInitSelf, OnCpus, OnCpusWait, OnCpusReturn
  <2>. QED BY <2>1, <2>2, <2>3, QuietCount
<1>2. CASE SmpInitDone
  <2>1. st' = st /\ cur' = cur /\ active_cpus' = active_cpus + 1 /\ stage = "init"
        /\ stage' = "user"
    BY <1>2 DEF SmpInitDone
  <2>2. \A q \in Proc : pc'[q] = "unlock" => pc[q] = "unlock"
    BY <1>2, <1>t DEF Types, SmpInitDone
  <2>3. Claimed' /\ Left'
    BY <2>1, <2>2 DEF CountInv, Claimed, Left
  <2>4. Counted' = Counted
    BY <2>1 DEF Counted
  <2>5. ActiveExact'
    BY <2>1, <2>4, CountedFinite DEF CountInv, ActiveExact
  <2>. QED BY <2>3, <2>5 DEF CountInv
<1>. QED
  BY <1>1, <1>2

\* Nothing is counted at first.
LEMMA InitCount == Init => CountInv
<1>. SUFFICES ASSUME Init PROVE CountInv
  OBVIOUS
<1>1. \A i \in CallId : st[i] = "free"
  BY DEF Init
<1>2. Counted = {}
  BY <1>1 DEF Counted
<1>3. ActiveExact
  BY <1>2, FS_EmptySet DEF Init, ActiveExact
<1>4. Claimed
  BY <1>1 DEF Claimed
<1>5. Left
  BY DEF Init, Left
<1>. QED
  BY <1>3, <1>4, <1>5 DEF CountInv

\* Every step keeps the count.
LEMMA NextCount == IndInv /\ CountInv /\ [Next]_vars => CountInv'
<1>. SUFFICES ASSUME IndInv, CountInv, [Next]_vars PROVE CountInv'
  OBVIOUS
<1>1. CASE LoopStep
  <2>1. CASE SmpInitCall \/ OnCpusCall
    <3>1. \E w \in BOOLEAN, k \in {"setup_smp_id", "work"} : Enter(Main, idx, w, k)
      BY <2>1 DEF SmpInitCall, OnCpusCall
    <3>2. stage' = stage /\ ~InCall(Main) /\ Main \in Proc
      BY <2>1 DEF SmpInitCall, OnCpusCall
    <3>. QED BY <3>1, <3>2, EnterCount
  <2>. QED BY <1>1, <2>1, MainCount DEF LoopStep
<1>2. CASE OnCpus
  BY <1>2, MainCount
<1>3. CASE \E t \in CPU, w \in BOOLEAN : MainCall(t, w)
  <2>1. PICK t \in CPU, w \in BOOLEAN : MainCall(t, w)
    BY <1>3
  <2>2. Enter(Main, t, w, "work") /\ stage' = stage /\ ~InCall(Main) /\ Main \in Proc
    BY <2>1 DEF MainCall
  <2>. QED BY <2>2, EnterCount
<1>4. CASE \E c, t \in CPU : NestedCall(c, t)
  <2>1. PICK c \in CPU, t \in CPU : NestedCall(c, t)
    BY <1>4
  <2>2. Enter(c, t, FALSE, "work") /\ stage' = stage /\ ~InCall(c) /\ c \in Proc
    BY <2>1 DEF NestedCall
  <2>. QED BY <2>2, EnterCount
<1>5. CASE \E p \in Proc : CallStep(p)
  BY <1>5, CallCount
<1>6. CASE \E c \in CPU : HandlerStep(c)
  BY <1>6, HandlerCount
<1>7. CASE UNCHANGED vars
  BY <1>7, QuietCount DEF vars
<1>. QED
  BY <1>1, <1>2, <1>3, <1>4, <1>5, <1>6, <1>7 DEF Next

\* active_cpus counts exactly the calls between atomic_inc and atomic_dec.
THEOREM CountInvariance == Spec => [](IndInv /\ CountInv)
<1>1. Spec => []CountInv
  BY InitCount, NextCount, Invariance, PTL DEF Spec
<1>. QED
  BY <1>1, Invariance, PTL

\* on_cpus returns only when no function runs on any CPU: when main() alone is
\* counted, no call is posted or running, so no function is left that could be
\* inside a call of its own.
THEOREM OnCpusIsBarrierCorrect == Spec => OnCpusIsBarrier
<1>1. ASSUME IndInv, CountInv, OnCpusReturn
      PROVE  \A i \in CallId : st[i] \in {"free", "done"}
  <2>1. pc[Main] = "wait" /\ stage = "cpus" /\ active_cpus <= 1
    BY <1>1 DEF OnCpusReturn, IndInv, Frames
  <2>2. Cardinality(Counted) = 0
    BY <1>1, <2>1, CountedFinite DEF CountInv, ActiveExact
  <2>3. Counted = {}
    BY <2>2, CountedFinite, FS_EmptySet
  <2>4. \A p \in Proc : ~InCall(p)
    <3>. SUFFICES ASSUME NEW p \in Proc, InCall(p) PROVE FALSE
      OBVIOUS
    <3>1. p \in CPU
      BY <2>1
    <3>2. Serving(p) /\ hf[p] \in CallId \cup {NoCall}
      BY <1>1, <3>1 DEF Serving, IndInv, TypeOK
    <3>3. hf[p] \in CallId /\ st[hf[p]] = "running"
      BY <1>1, <3>1, <3>2 DEF IndInv, Handling
    <3>. QED BY <2>3, <3>3 DEF Counted
  <2>5. \A p \in Proc : cur[p] = NoCall
    BY <1>1, <2>4 DEF IndInv, Issued
  <2>. SUFFICES ASSUME NEW i \in CallId PROVE st[i] \in {"free", "done"}
    OBVIOUS
  <2>6. st[i] \notin {"called", "self"}
    BY <1>1, <2>5 DEF CountInv, Claimed, CallId
  <2>7. st[i] \notin {"posted", "running", "ran"}
    BY <2>3 DEF Counted
  <2>8. st[i] \in Status
    BY <1>1 DEF IndInv, TypeOK
  <2>. QED BY <2>6, <2>7, <2>8 DEF Status
<1>2. IndInv /\ CountInv =>
        [OnCpusReturn => \A i \in CallId : st[i] \in {"free", "done"}]_vars
  BY <1>1
<1>. QED
  BY <1>2, CountInvariance, PTL DEF OnCpusIsBarrier

=============================================================================
