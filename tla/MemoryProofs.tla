---------------------------- MODULE MemoryProofs ----------------------------
(***************************************************************************)
(* Proofs about the two allocators.                                        *)
(*                                                                         *)
(* PageAlloc: for any heap, any number of CPUs and any orderly use of it,  *)
(* the free list is a list, blocks are whole and apart, and every step of  *)
(* lib/alloc_page.c is a step of the abstract page store or none.          *)
(*                                                                         *)
(* PhysAlloc: the regions handed out never overlap, for every size of      *)
(* memory, every set of alignments and every sequence of requests, and     *)
(* each block of malloc holds its metadata and what was asked for.         *)
(***************************************************************************)
EXTENDS PhysAlloc, PageAlloc, FiniteSetTheorems, TLAPS

-----------------------------------------------------------------------------
(* The page allocator. *)

USE HeapAssumption, CpuAssumption, OrderAssumption
USE DEF Page, Nil, Junk, Word, Address, Run

\* Taking free pages and giving back one's own keeps every page in one place.
LEMMA StoreStep ==
  ASSUME Placed, [Store!StoreNext]_(Store!storeVars)
  PROVE  Placed'
<1>. USE DEF Placed
<1>1. ASSUME NEW c \in CPU, NEW S \in SUBSET Free, Store!Take(c, S)
      PROVE  Placed'
  <2>1. Store!StoreTypeOK'
    BY <1>1 DEF Store!Take, Store!StoreTypeOK
  <2>2. held'[c] = held[c] \cup S /\ \A d \in CPU : d # c => held'[d] = held[d]
    BY <1>1 DEF Store!Take, Store!StoreTypeOK
  <2>3. Store!Partition'
    BY <1>1, <2>2 DEF Store!Take, Store!StoreTypeOK, Store!Partition
  <2>. QED BY <2>1, <2>3
<1>2. ASSUME NEW c \in CPU, NEW S \in SUBSET held[c], NEW T \in SUBSET S, Store!Give(c, S, T)
      PROVE  Placed'
  <2>1. Store!StoreTypeOK'
    BY <1>2 DEF Store!Give, Store!StoreTypeOK
  <2>2. held'[c] = held[c] \ S /\ \A d \in CPU : d # c => held'[d] = held[d]
    BY <1>2 DEF Store!Give, Store!StoreTypeOK
  <2>3. Store!Partition'
    BY <1>2, <2>2 DEF Store!Give, Store!StoreTypeOK, Store!Partition
  <2>. QED BY <2>1, <2>3
<1>3. CASE UNCHANGED Store!storeVars
  BY <1>3 DEF Store!storeVars, Store!StoreTypeOK, Store!Partition
<1>. QED
  BY <1>1, <1>2, <1>3 DEF Store!StoreNext

\* An allocator that implements the page store never gives a page to two
\* CPUs, never hands out one that is in use, and forgets none.
THEOREM StorePartition == Store!StoreSpec => []Store!Partition
<1>1. Store!StoreInit => Placed
  BY DEF Store!StoreInit, Placed, Store!StoreTypeOK, Store!Partition
<1>2. Placed /\ [Store!StoreNext]_(Store!storeVars) => Placed'
  BY StoreStep
<1>3. Placed => Store!Partition
  BY DEF Placed
<1>. QED
  BY <1>1, <1>2, <1>3, PTL DEF Store!StoreSpec

\* The rank of an address is a number, and 0 off the list.
LEMMA RankType ==
  ASSUME PageTypeOK, NEW a
  PROVE  RankOf(a) \in Nat /\ (RankOf(a) > 0 <=> a \in Free)
  BY DEF PageTypeOK, RankOf, Free

\* A run of pages linked in front of the list.
LEMMA ListPush ==
  ASSUME PageTypeOK, Linked, NEW p \in Page, NEW n \in Nat \ {0},
         Run(p, n) \subseteq Page, Run(p, n) \cap Free = {},
         freelist' = p,
         \A q \in Page : word'[q] = IF q \in Run(p, n - 1) THEN q + 1
                                    ELSE IF q = p + n - 1 THEN freelist ELSE word[q],
         \A q \in Page : rank'[q] = IF q \in Run(p, n) THEN RankOf(freelist) + (p + n - q)
                                    ELSE rank[q]
  PROVE  Linked' /\ Free' = Free \cup Run(p, n)
<1>h. PICK h \in Nat : h = RankOf(freelist)
  BY RankType
<1>t. rank \in [Page -> Nat] /\ (freelist = Nil => h = 0)
  BY <1>h DEF PageTypeOK, RankOf
<1>p. \A q \in Page : rank'[q] = IF q \in Run(p, n) THEN h + (p + n - q) ELSE rank[q]
  BY <1>h
<1>q. \A q \in Run(p, n) : q \in Page /\ rank'[q] = h + (p + n - q) /\ rank'[q] > h
  BY <1>p
<1>1. Free' = Free \cup Run(p, n)
  <2>1. \A q \in Page : q \in Free' <=> rank'[q] > 0
    BY DEF Free
  <2>2. \A q \in Page : q \in Free <=> rank[q] > 0
    BY DEF Free
  <2>3. Free' \subseteq Page /\ Free \subseteq Page
    BY DEF Free
  <2>4. \A q \in Run(p, n) : q \in Free'
    BY <1>q, <2>1
  <2>5. \A q \in Page : q \notin Run(p, n) => (q \in Free' <=> q \in Free)
    BY <1>p, <2>1, <2>2
  <2>. HIDE DEF Run, Page
  <2>. QED BY <2>3, <2>4, <2>5
<1>2. RankOf(freelist)' = h + n
  BY <1>p DEF RankOf
<1>3. \A q \in Free : rank'[q] = rank[q] /\ word'[q] = word[q] /\ rank[q] <= h /\ rank[q] > 0
  <2>. SUFFICES ASSUME NEW q \in Free
                PROVE  rank'[q] = rank[q] /\ word'[q] = word[q] /\ rank[q] <= h /\ rank[q] > 0
    OBVIOUS
  <2>1. q \in Page /\ q \notin Run(p, n) /\ rank[q] > 0
    BY DEF Free
  <2>2. q \notin Run(p, n - 1) /\ q # p + n - 1
    BY <2>1
  <2>. QED BY <1>h, <1>p, <2>1, <2>2 DEF Linked
<1>4. \A q \in Free' : rank'[q] <= h + n
  <2>1. \A q \in Free : rank'[q] <= h + n
    <3>. SUFFICES ASSUME NEW q \in Free PROVE rank'[q] <= h + n
      OBVIOUS
    <3>1. rank[q] \in Int /\ rank'[q] = rank[q] /\ rank[q] <= h
      BY <1>3, <1>t DEF Free
    <3>. QED BY <3>1
  <2>2. \A q \in Run(p, n) : rank'[q] <= h + n
    BY <1>q
  <2>. QED BY <1>1, <2>1, <2>2
<1>5. \A q \in Free' : word'[q] \in Free' \cup {Nil} /\ RankOf(word[q])' = rank'[q] - 1
  <2>. SUFFICES ASSUME NEW q \in Free'
                PROVE  word'[q] \in Free' \cup {Nil} /\ RankOf(word[q])' = rank'[q] - 1
    OBVIOUS
  <2>1. CASE q \in Run(p, n - 1)
    BY <1>1, <1>q, <2>1 DEF RankOf
  <2>2. CASE q = p + n - 1
    <3>1. word'[q] = freelist /\ rank'[q] = h + 1
      BY <1>q, <2>2
    <3>2. RankOf(freelist) = h /\ freelist \in Free \cup {Nil}
      BY <1>h DEF Linked
    <3>3. CASE freelist \in Free
      BY <1>1, <1>3, <3>1, <3>2, <3>3 DEF RankOf, Free
    <3>4. CASE freelist = Nil
      BY <1>t, <3>1, <3>4 DEF RankOf
    <3>. QED BY <3>2, <3>3, <3>4
  <2>3. CASE q \in Free
    <3>1. word'[q] = word[q] /\ word[q] \in Free \cup {Nil} /\ RankOf(word[q]) = rank[q] - 1
      BY <1>3, <2>3 DEF Linked
    <3>2. \A a \in Free \cup {Nil} : (IF a \in Page THEN rank'[a] ELSE 0) = RankOf(a)
      BY <1>3 DEF RankOf, Free
    <3>. QED BY <1>1, <1>3, <2>3, <3>1, <3>2 DEF RankOf
  <2>. QED BY <1>1, <2>1, <2>2, <2>3
<1>6. \A q, r \in Free' : rank'[q] = rank'[r] => q = r
  <2>1. \A q, r \in Free : rank[q] = rank[r] => q = r
    BY DEF Linked
  <2>. SUFFICES ASSUME NEW q \in Free', NEW r \in Free', rank'[q] = rank'[r] PROVE q = r
    OBVIOUS
  <2>2. CASE q \in Free /\ r \in Free
    BY <1>3, <2>1, <2>2
  <2>3. CASE q \in Run(p, n) /\ r \in Run(p, n)
    BY <1>q, <2>3
  <2>4. \A a \in Free, b \in Run(p, n) : rank'[a] # rank'[b]
    <3>. SUFFICES ASSUME NEW a \in Free, NEW b \in Run(p, n) PROVE rank'[a] # rank'[b]
      OBVIOUS
    <3>1. rank'[a] <= h /\ rank'[a] \in Int
      BY <1>3, <1>t DEF Free
    <3>2. rank'[b] > h /\ rank'[b] \in Int
      BY <1>q
    <3>. QED BY <3>1, <3>2
  <2>. QED BY <1>1, <2>2, <2>3, <2>4
<1>. QED
  BY <1>1, <1>2, <1>4, <1>5, <1>6 DEF Linked

\* The first page taken off the list.
LEMMA ListPop ==
  ASSUME PageTypeOK, Linked, freelist \in Free,
         freelist' = word[freelist], word' = word,
         rank' = [p \in Page |-> IF p = freelist THEN 0 ELSE rank[p]]
  PROVE  Linked' /\ Free' = Free \ {freelist}
<1>t. rank \in [Page -> Nat]
  BY DEF PageTypeOK
<1>1. Free' = Free \ {freelist}
  BY <1>t DEF Free
<1>2. \A q \in Free : q # freelist => rank'[q] = rank[q] /\ rank[q] < rank[freelist]
  BY <1>t DEF Free, Linked, RankOf
<1>3. \A q \in Free : /\ word[q] \in Free \cup {Nil} /\ word[q] # freelist
                      /\ RankOf(word[q]) = rank[q] - 1
                      /\ RankOf(word[q])' = rank[q] - 1
  <2>. SUFFICES ASSUME NEW q \in Free
                PROVE  /\ word[q] \in Free \cup {Nil} /\ word[q] # freelist
                       /\ RankOf(word[q]) = rank[q] - 1
                       /\ RankOf(word[q])' = rank[q] - 1
    OBVIOUS
  <2>1. word[q] \in Free \cup {Nil} /\ RankOf(word[q]) = rank[q] - 1
    BY DEF Linked
  <2>2. rank[q] <= rank[freelist]
    BY <1>2, <1>t DEF Free
  <2>3. word[q] # freelist
    BY <2>1, <2>2, <1>t DEF RankOf, Free
  <2>. QED BY <2>1, <2>3, <1>t DEF RankOf, Free
<1>4. \A q \in Free' : rank'[q] <= RankOf(freelist)'
  BY <1>1, <1>2, <1>3, <1>t DEF RankOf, Free
<1>5. \A q, r \in Free' : rank'[q] = rank'[r] => q = r
  BY <1>1, <1>2 DEF Linked
<1>. QED
  BY <1>1, <1>2, <1>3, <1>4, <1>5 DEF Linked

\* A run of pages, linked one after the other, taken out of the list.
LEMMA ListUnlink ==
  ASSUME PageTypeOK, Linked, NEW p \in Page, NEW n \in Nat \ {0}, NEW e, NEW a,
         \A q \in Run(p, n) : q \in Free /\ rank[q] = rank[p] - (q - p),
         e = word[p + n - 1],
         a = Nil => p = freelist /\ freelist' = e /\ word' = word,
         a # Nil => a \in Free /\ word[a] = p /\ word' = [word EXCEPT ![a] = e]
                    /\ freelist' = freelist,
         rank' = [q \in Page |-> IF q \in Run(p, n) THEN 0
                                 ELSE IF rank[q] > rank[p] THEN rank[q] - n ELSE rank[q]]
  PROVE  Linked' /\ Free' = Free \ Run(p, n)
<1>t. rank \in [Page -> Nat] /\ word \in [Word -> Address]
  BY DEF PageTypeOK
<1>r0. PICK r \in Nat : r = rank[p]
  BY <1>t
<1>q. \A q \in Run(p, n) : q \in Free /\ rank[q] = r - (q - p)
  BY <1>r0
<1>f. \A q \in Free : q \in Page /\ rank[q] \in Nat /\ rank[q] > 0
  BY <1>t DEF Free
<1>r. p + n - 1 \in Run(p, n) /\ p + n - 1 \in Free /\ rank[p + n - 1] = r - n + 1 /\ r >= n
  <2>1. p + n - 1 \in Run(p, n)
    OBVIOUS
  <2>2. p + n - 1 \in Free /\ rank[p + n - 1] = r - n + 1
    BY <1>q, <2>1
  <2>. QED BY <1>f, <2>1, <2>2
<1>1. \A q \in Free \ Run(p, n) : rank[q] < r - n + 1 \/ rank[q] > r
  <2>. SUFFICES ASSUME NEW q \in Free, q \notin Run(p, n),
                       ~(rank[q] < r - n + 1), ~(rank[q] > r)
                PROVE  FALSE
    OBVIOUS
  <2>0. PICK m \in Nat : m = rank[q]
    BY <1>f
  <2>1. p + (r - m) \in Run(p, n)
    BY <2>0
  <2>2. PICK k \in Run(p, n) : k = p + (r - m)
    BY <2>1
  <2>3. k \in Free /\ rank[k] = m
    <3>1. k \in Free /\ rank[k] = r - (k - p)
      BY <1>q
    <3>. QED BY <2>0, <2>2, <3>1
  <2>4. k = q
    BY <2>0, <2>3 DEF Linked
  <2>. QED BY <2>4
<1>2. \A q \in Free \ Run(p, n) :
          /\ rank[q] > r => rank'[q] = rank[q] - n
          /\ rank[q] < r - n + 1 => rank'[q] = rank[q]
          /\ rank'[q] > 0
  <2>. SUFFICES ASSUME NEW q \in Free \ Run(p, n)
                PROVE  /\ rank[q] > r => rank'[q] = rank[q] - n
                       /\ rank[q] < r - n + 1 => rank'[q] = rank[q]
                       /\ rank'[q] > 0
    OBVIOUS
  <2>1. rank'[q] = IF rank[q] > r THEN rank[q] - n ELSE rank[q]
    BY <1>f, <1>r0
  <2>2. rank[q] \in Nat /\ rank[q] > 0 /\ (rank[q] < r - n + 1 \/ rank[q] > r)
    BY <1>f, <1>1
  <2>. QED BY <1>r, <2>1, <2>2
<1>3. Free' = Free \ Run(p, n)
  <2>1. \A q \in Page \ Free : rank'[q] = 0
    BY <1>t, <1>f DEF Free
  <2>. QED BY <1>2, <2>1, <1>t DEF Free
<1>4. e \in (Free \ Run(p, n)) \cup {Nil} /\ RankOf(e) = r - n
  <2>1. e \in Free \cup {Nil} /\ RankOf(e) = r - n
    BY <1>r DEF Linked
  <2>2. e \notin Run(p, n)
    <3>. SUFFICES ASSUME e \in Run(p, n) PROVE FALSE
      OBVIOUS
    <3>1. e \in Page /\ rank[e] = r - (e - p) /\ RankOf(e) = rank[e]
      BY <1>q, <1>f DEF RankOf
    <3>2. r - (e - p) = r - n /\ e \in Int
      BY <2>1, <3>1
    <3>. QED BY <3>2
  <2>. QED BY <2>1, <2>2
<1>5. (IF e \in Page THEN rank'[e] ELSE 0) = r - n
  <2>1. CASE e = Nil
    BY <1>4, <2>1 DEF RankOf
  <2>2. CASE e \in Free \ Run(p, n)
    <3>1. e \in Page /\ rank[e] = r - n /\ rank[e] \in Nat
      BY <1>4, <1>f, <2>2 DEF RankOf
    <3>2. rank[e] < r - n + 1 => rank'[e] = rank[e]
      BY <1>2, <2>2
    <3>. QED BY <3>1, <3>2
  <2>. QED BY <1>4, <2>1, <2>2
\* The page that the run hangs on, and the head of the list, if they stay.
<1>a. a # Nil => /\ a \in Free \ Run(p, n) /\ a \in Page /\ rank[a] = r + 1
                /\ freelist \in Free \ Run(p, n) /\ rank[freelist] > r
                /\ RankOf(freelist) = rank[freelist]
                /\ rank'[freelist] = rank[freelist] - n
  <2>. SUFFICES ASSUME a # Nil
                PROVE  /\ a \in Free \ Run(p, n) /\ a \in Page /\ rank[a] = r + 1
                       /\ freelist \in Free \ Run(p, n) /\ rank[freelist] > r
                       /\ RankOf(freelist) = rank[freelist]
                       /\ rank'[freelist] = rank[freelist] - n
    OBVIOUS
  <2>1. a \in Free /\ a \in Page /\ RankOf(word[a]) = rank[a] - 1 /\ word[a] = p
    BY <1>f DEF Linked
  <2>2. rank[a] = r + 1
    BY <1>f, <1>r0, <2>1 DEF RankOf
  <2>3. \A k \in Run(p, n) : rank[k] <= r
    BY <1>q
  <2>4. a \notin Run(p, n)
    BY <2>2, <2>3
  <2>5. rank[a] <= RankOf(freelist) /\ freelist \in Free \cup {Nil}
    BY <2>1 DEF Linked
  <2>6. freelist \in Free /\ RankOf(freelist) = rank[freelist] /\ rank[freelist] \in Nat
    BY <1>f, <2>2, <2>5 DEF RankOf
  <2>7. rank[freelist] > r
    BY <2>2, <2>5, <2>6
  <2>8. freelist \notin Run(p, n)
    BY <2>3, <2>6, <2>7
  <2>. HIDE DEF Run, Page
  <2>. QED BY <1>2, <2>1, <2>2, <2>4, <2>6, <2>7, <2>8
<1>b. a = Nil => RankOf(freelist) = r /\ RankOf(freelist)' = r - n
  BY <1>5, <1>r0 DEF RankOf
<1>6. \A q \in Free' : rank'[q] <= RankOf(freelist)'
  <2>. SUFFICES ASSUME NEW q \in Free' PROVE rank'[q] <= RankOf(freelist)'
    OBVIOUS
  <2>1. q \in Free \ Run(p, n) /\ rank[q] \in Nat /\ rank[q] <= RankOf(freelist)
    BY <1>3, <1>f DEF Linked
  <2>2. rank'[q] = rank[q] - n \/ (rank'[q] = rank[q] /\ rank[q] < r - n + 1)
    BY <1>1, <1>2, <2>1
  <2>3. CASE a = Nil
    <3>1. rank[q] <= r /\ rank[q] < r - n + 1
      BY <1>1, <1>b, <2>1, <2>3
    <3>. QED BY <1>b, <2>1, <2>2, <2>3, <3>1
  <2>4. CASE a # Nil
    <3>1. freelist' = freelist /\ freelist \in Page /\ rank[freelist] \in Nat
      BY <1>a, <1>f, <2>4
    <3>2. RankOf(freelist)' = rank[freelist] - n
      BY <1>a, <2>4, <3>1 DEF RankOf
    <3>. QED BY <1>a, <2>1, <2>2, <2>4, <3>1, <3>2
  <2>. QED BY <2>3, <2>4
<1>7. freelist' \in Free' \cup {Nil}
  <2>1. CASE a = Nil
    BY <1>3, <1>4, <2>1
  <2>2. CASE a # Nil
    BY <1>3, <1>a, <2>2
  <2>. QED BY <2>1, <2>2
<1>8. \A q \in Free' : word'[q] \in Free' \cup {Nil} /\ RankOf(word[q])' = rank'[q] - 1
  <2>. SUFFICES ASSUME NEW q \in Free'
                PROVE  word'[q] \in Free' \cup {Nil} /\ RankOf(word[q])' = rank'[q] - 1
    OBVIOUS
  <2>1. /\ q \in Free \ Run(p, n) /\ q \in Page /\ rank[q] \in Nat
        /\ word[q] \in Free \cup {Nil} /\ RankOf(word[q]) = rank[q] - 1
    BY <1>3, <1>f DEF Linked
  <2>2. CASE q = a /\ a # Nil
    <3>1. word'[q] = e /\ rank[q] = r + 1
      BY <1>a, <1>t, <2>2
    <3>2. rank[q] > r => rank'[q] = rank[q] - n
      BY <1>2, <2>1
    <3>3. rank'[q] = r + 1 - n
      BY <1>r0, <3>1, <3>2
    <3>. QED BY <1>3, <1>4, <1>5, <3>1, <3>3 DEF RankOf
  <2>3. CASE q # a
    <3>1. word'[q] = word[q]
      BY <1>t, <2>1, <2>3
    <3>2. rank[q] # r + 1
      <4>1. CASE a = Nil
        <5>1. rank[q] <= r
          BY <1>b, <2>1, <4>1 DEF Linked
        <5>. QED BY <2>1, <5>1
      <4>2. CASE a # Nil
        BY <1>a, <2>1, <2>3, <4>2 DEF Linked
      <4>. QED BY <4>1, <4>2
    <3>3. word[q] \notin Run(p, n)
      <4>. SUFFICES ASSUME word[q] \in Run(p, n) PROVE FALSE
        OBVIOUS
      <4>1. PICK k \in Run(p, n) : k = word[q]
        OBVIOUS
      <4>2. k \in Page /\ rank[k] = r - (k - p) /\ RankOf(k) = rank[k]
        BY <1>q, <1>f DEF RankOf
      <4>3. rank[q] = r - (k - p) + 1
        BY <2>1, <4>1, <4>2
      <4>4. rank[q] < r - n + 1 \/ rank[q] > r
        BY <1>1, <2>1
      <4>5. k - p >= 0 /\ k - p < n /\ k - p \in Int
        BY <4>1
      <4>6. rank[q] \in Nat
        BY <2>1
      <4>. HIDE DEF Run, Page
      <4>. QED BY <1>r0, <3>2, <4>3, <4>4, <4>5, <4>6
    <3>4. CASE word[q] = Nil
      <4>1. rank[q] = 1 /\ RankOf(word[q])' = 0
        BY <2>1, <3>1, <3>4 DEF RankOf
      <4>2. rank[q] < r - n + 1
        BY <1>1, <1>r, <2>1, <3>2, <4>1
      <4>3. rank'[q] = 1
        BY <1>2, <2>1, <4>1, <4>2
      <4>. QED BY <3>1, <3>4, <4>1, <4>3
    <3>5. CASE word[q] \in Free
      <4>1. PICK k \in Free \ Run(p, n) : k = word[q]
        BY <3>3, <3>5
      <4>2. k \in Page /\ rank[k] = rank[q] - 1
        BY <1>f, <2>1, <4>1 DEF RankOf
      <4>3. rank'[k] = rank'[q] - 1
        <5>1. rank[k] < r - n + 1 \/ rank[k] > r
          BY <1>1
        <5>2. rank[q] < r - n + 1 \/ rank[q] > r
          BY <1>1, <2>1
        <5>3. /\ rank[k] > r => rank'[k] = rank[k] - n
              /\ rank[k] < r - n + 1 => rank'[k] = rank[k]
          BY <1>2
        <5>4. /\ rank[q] > r => rank'[q] = rank[q] - n
              /\ rank[q] < r - n + 1 => rank'[q] = rank[q]
          BY <1>2, <2>1
        <5>. HIDE DEF Run, Page
        <5>. QED BY <2>1, <3>2, <4>2, <5>1, <5>2, <5>3, <5>4
      <4>4. RankOf(word[q])' = rank'[k]
        BY <3>1, <4>1, <4>2 DEF RankOf
      <4>. QED BY <1>3, <3>1, <4>1, <4>3, <4>4
    <3>. QED BY <2>1, <3>4, <3>5
  <2>4. a = Nil => q # a
    BY <2>1
  <2>. QED BY <2>2, <2>3, <2>4
<1>9. \A q, s \in Free' : rank'[q] = rank'[s] => q = s
  <2>. SUFFICES ASSUME NEW q \in Free', NEW s \in Free', rank'[q] = rank'[s] PROVE q = s
    OBVIOUS
  <2>1. q \in Free \ Run(p, n) /\ s \in Free \ Run(p, n) /\ rank[q] \in Nat /\ rank[s] \in Nat
    BY <1>3, <1>f
  <2>2. rank[q] < r - n + 1 \/ rank[q] > r
    BY <1>1, <2>1
  <2>3. rank[s] < r - n + 1 \/ rank[s] > r
    BY <1>1, <2>1
  <2>4. /\ rank[q] > r => rank'[q] = rank[q] - n
        /\ rank[q] < r - n + 1 => rank'[q] = rank[q]
    BY <1>2, <2>1
  <2>5. /\ rank[s] > r => rank'[s] = rank[s] - n
        /\ rank[s] < r - n + 1 => rank'[s] = rank[s]
    BY <1>2, <2>1
  <2>6. rank[q] = rank[s]
    <3>. HIDE DEF Run, Page
    <3>. QED BY <2>1, <2>2, <2>3, <2>4, <2>5
  <2>. QED BY <2>1, <2>6 DEF Linked
<1>. QED
  BY <1>3, <1>6, <1>7, <1>8, <1>9 DEF Linked

\* Pages that are not on the list may change.
LEMMA LinkedSame ==
  ASSUME Linked, freelist' = freelist, rank' = rank, \A q \in Free : word'[q] = word[q]
  PROVE  Linked' /\ Free' = Free
<1>1. Free' = Free
  BY DEF Free
<1>2. \A a : RankOf(a)' = RankOf(a)
  BY DEF RankOf
<1>3. RankOf(freelist)' = RankOf(freelist)
  BY DEF RankOf
<1>4. \A q \in Free : RankOf(word[q])' = RankOf(word[q])
  BY DEF RankOf
<1>. QED
  BY <1>1, <1>3, <1>4 DEF Linked

\* A list without a head is empty.
LEMMA EmptyList ==
  ASSUME PageTypeOK, Linked, freelist = Nil
  PROVE  Free = {}
<1>. SUFFICES ASSUME NEW q \in Free PROVE FALSE
  OBVIOUS
<1>1. rank[q] > 0 /\ rank[q] \in Nat
  BY DEF Free, PageTypeOK
<1>2. rank[q] <= 0
  BY DEF Linked, RankOf
<1>. QED BY <1>1, <1>2

\* What is with the CPUs or lost can be counted.
LEMMA Counts ==
  ASSUME PageTypeOK
  PROVE  /\ IsFiniteSet(Page) /\ Cardinality(Page) = NPages
         /\ Allocated \subseteq Page /\ IsFiniteSet(Allocated) /\ Cardinality(Allocated) \in Nat
         /\ IsFiniteSet(Pending) /\ Cardinality(Pending) \in Nat
<1>1. IsFiniteSet(Page) /\ Cardinality(Page) = NPages
  BY FS_Interval DEF NPages
<1>2. Allocated \subseteq Page
  <2>1. lost \subseteq Page /\ \A d \in CPU : held[d] \subseteq Page
    BY DEF PageTypeOK
  <2>. HIDE DEF Page
  <2>. QED BY <2>1 DEF Allocated
<1>3. IsFiniteSet(Allocated) /\ IsFiniteSet(Pending)
  <2>. HIDE DEF Page
  <2>1. Pending \subseteq CPU
    BY DEF Pending
  <2>. QED BY <1>1, <1>2, <2>1, FS_Subset
<1>. QED
  BY <1>1, <1>2, <1>3, FS_CardinalityType

\* While c works, the other CPUs are outside alloc_pages.
LEMMA Others ==
  ASSUME Calls, Search, NEW c \in use.cpus, NEW d \in CPU, d # c
  PROVE  pc[d] \in {"idle", "pop"} /\ curr[d] = Nil /\ run[d] = 0
<1>1. pc[d] \in {"idle", "pop"}
  BY DEF Calls
<1>2. SearchAt(d)
  BY DEF Search
<1>. QED
  BY <1>1, <1>2 DEF SearchAt

\* A CPU outside alloc_pages has found nothing.
LEMMA QuietSearch ==
  ASSUME NEW d \in CPU, pc'[d] \in {"idle", "pop"}, curr'[d] = Nil, run'[d] = 0
  PROVE  SearchAt(d)'
  BY DEF SearchAt

\* A step of c leaves the others as they are, and they are not searching.
LEMMA SearchStep ==
  ASSUME Calls, Search, NEW c \in use.cpus, SearchAt(c)',
         \A d \in CPU : d # c => pc'[d] = pc[d] /\ curr'[d] = curr[d] /\ run'[d] = run[d]
  PROVE  Search'
<1>1. ASSUME NEW d \in CPU, d # c PROVE SearchAt(d)'
  <2>1. pc'[d] = pc[d] /\ curr'[d] = curr[d] /\ run'[d] = run[d]
    BY <1>1
  <2>2. pc[d] \in {"idle", "pop"} /\ curr[d] = Nil /\ run[d] = 0
    BY <1>1, Others
  <2>. QED BY <2>1, <2>2, QuietSearch
<1>. QED
  BY <1>1 DEF Search

\* A CPU that walks the list, or may, is the only one.
LEMMA Alone ==
  ASSUME Calls, NEW c \in use.cpus, c \in CPU,
         pc[c] \in {"lock", "scan", "unlink"} \/ ~(use.ops \subseteq {"page"})
  PROVE  use.cpus \subseteq {c} /\ \A d \in CPU : d # c => pc[d] = "idle"
<1>1. PICK a \in CPU : use.cpus \subseteq {a} /\ \A d \in CPU : d # a => pc[d] = "idle"
  BY DEF Calls
<1>. QED
  BY <1>1

\* It stays the only one.
LEMMA CallsAlone ==
  ASSUME NEW c \in CPU, use.cpus \subseteq {c}, \A d \in CPU : d # c => pc[d] = "idle",
         use' = use, \A d \in CPU : d # c => pc'[d] = pc[d], pc'[c] # "pop"
  PROVE  Calls'
  BY DEF Calls

\* A step outside the calls that leaves no CPU with more keeps the demand below the supply.
LEMMA CallsFree ==
  ASSUME PageTypeOK, Calls, NEW c \in use.cpus, c \in CPU, pc[c] = "idle",
         use' = use, pc' = pc, Allocated' \subseteq Allocated,
         \A d \in CPU : chunks'[d] \subseteq chunks[d]
  PROVE  Calls'
<1>1. CASE use.cpus \subseteq {c} /\ \A d \in CPU : d # c => pc[d] = "idle"
  BY <1>1, CallsAlone
<1>2. CASE /\ use.ops \subseteq {"page"} /\ use.spare
           /\ \A d \in CPU : pc[d] \in {"idle", "pop"} /\ chunks[d] = {}
           /\ Cardinality(Allocated) + Cardinality(Pending) <= NPages
  <2>1. Pending' = Pending
    BY DEF Pending
  <2>2. Cardinality(Allocated') <= Cardinality(Allocated) /\ Cardinality(Allocated') \in Nat
    BY Counts, FS_Subset, FS_CardinalityType
  <2>3. Cardinality(Allocated)' + Cardinality(Pending)' <= NPages
    BY <1>2, <2>1, <2>2, Counts DEF NPages
  <2>. QED BY <1>2, <2>3 DEF Calls, NPages
<1>. QED
  BY <1>1, <1>2 DEF Calls

\* Blocks stay as they are while their owner keeps their pages.
LEMMA ChunksKept ==
  ASSUME Chunks,
         \A d \in CPU : \A b \in chunks'[d] : b \in chunks[d] /\ Whole(b) \subseteq held'[d]
  PROVE  Chunks'
<1>1. ASSUME NEW b PROVE Whole(b)' = Whole(b)
  BY DEF Whole, OrderOf
<1>. QED
  BY <1>1 DEF Chunks, OrderOf

\* c gives back S, of which the run of n pages from p on goes to the list and
\* the rest is lost.
GivesBack(c, p, n, S) ==
    /\ pc[c] = "idle" /\ UNCHANGED <<use, lock, pc, search, fault>>
    /\ p \in Page /\ n \in Nat \ {0} /\ S \subseteq held[c] /\ Run(p, n) \subseteq S
    /\ FreePagesTo(p, n)
    /\ held' = [held EXCEPT ![c] = @ \ S]
    /\ lost' = lost \cup (S \ Run(p, n))
    /\ chunks' \in [CPU -> SUBSET (Nat \X Nat)]
    /\ \A d \in CPU : chunks'[d] \subseteq chunks[d]
    /\ \A b \in chunks'[c] : Whole(b) \cap S = {}

LEMMA GivesBackStep ==
  ASSUME PageInv, NEW c \in CPU, c \in use.cpus, NEW p, NEW n, NEW S, GivesBack(c, p, n, S)
  PROVE  PageInv' /\ Store!StoreNext
<1>i. PageTypeOK /\ ~fault /\ Linked /\ Placed /\ Calls /\ Search /\ Chunks
  BY DEF PageInv
<1>u. /\ UNCHANGED <<use, lock, pc, search, fault>>
      /\ pc[c] = "idle" /\ p \in Page /\ n \in Nat \ {0} /\ n # 0
      /\ S \in SUBSET held[c] /\ Run(p, n) \subseteq S
      /\ held' = [held EXCEPT ![c] = @ \ S]
      /\ lost' = lost \cup (S \ Run(p, n))
      /\ chunks' \in [CPU -> SUBSET (Nat \X Nat)]
      /\ \A d \in CPU : chunks'[d] \subseteq chunks[d]
      /\ \A b \in chunks'[c] : Whole(b) \cap S = {}
      /\ FreePagesTo(p, n)
  BY DEF GivesBack
<1>w. /\ freelist' = p
      /\ word' = [q \in Word |-> IF q \in Run(p, n - 1) THEN q + 1
                                 ELSE IF q = p + n - 1 THEN freelist
                                 ELSE word[q]]
      /\ rank' = [q \in Page |-> IF q \in Run(p, n) THEN RankOf(freelist) + (p + n - q)
                                 ELSE rank[q]]
  <2>. HIDE DEF Run, Page, Word
  <2>. QED BY <1>u DEF FreePagesTo
<1>s. S \subseteq Page /\ held[c] \subseteq Page
  BY <1>i, <1>u DEF PageTypeOK
<1>f. S \cap Free = {}
  BY <1>i, <1>u DEF Placed, Store!Partition
<1>0. RankOf(freelist) \in Nat
  BY <1>i, RankType
<1>h. held'[c] = held[c] \ S /\ \A d \in CPU : d # c => held'[d] = held[d]
  BY <1>i, <1>u DEF PageTypeOK
<1>r. rank' \in [Page -> Nat]
  <2>1. \A q \in Run(p, n) : RankOf(freelist) + (p + n - q) \in Nat
    BY <1>0, <1>u
  <2>2. \A q \in Page : rank[q] \in Nat
    BY <1>i DEF PageTypeOK
  <2>. HIDE DEF Run, Page
  <2>. QED BY <1>w, <2>1, <2>2
<1>1. PageTypeOK'
  <2>1. held' \in [CPU -> SUBSET Page]
    BY <1>i, <1>u DEF PageTypeOK
  <2>2. lost' \subseteq Page
    BY <1>i, <1>s, <1>u DEF PageTypeOK
  <2>3. freelist' \in Address
    BY <1>u, <1>w
  <2>4. word' \in [Word -> Address]
    <3>1. \A q \in Run(p, n - 1) : q + 1 \in Address
      <4>1. p + n - 1 \in Run(p, n)
        BY <1>u
      <4>2. p + n - 1 \in Page
        BY <1>s, <1>u, <4>1
      <4>. QED BY <1>u, <4>2
    <3>2. freelist \in Address /\ \A q \in Word : word[q] \in Address
      BY <1>i DEF PageTypeOK
    <3>. HIDE DEF Run, Page, Word, Address
    <3>. QED BY <1>w, <3>1, <3>2
  <2>. HIDE DEF Run, Page, Word, Address
  <2>. QED BY <1>i, <1>r, <1>u, <2>1, <2>2, <2>3, <2>4 DEF PageTypeOK, search
<1>2. Linked' /\ Free' = Free \cup Run(p, n)
  <2>1. Run(p, n) \subseteq Page /\ Run(p, n) \cap Free = {}
    BY <1>s, <1>f, <1>u
  <2>2. \A q \in Page : rank'[q] = IF q \in Run(p, n) THEN RankOf(freelist) + (p + n - q)
                                   ELSE rank[q]
    BY <1>w
  <2>3. \A q \in Page : word'[q] = IF q \in Run(p, n - 1) THEN q + 1
                                   ELSE IF q = p + n - 1 THEN freelist ELSE word[q]
    BY <1>w
  <2>4. p \in Page /\ n \in Nat \ {0} /\ freelist' = p
    BY <1>u, <1>w
  <2>. HIDE DEF Run, Page
  <2>. QED BY <1>i, <2>1, <2>2, <2>3, <2>4, ListPush
<1>3. Store!StoreNext
  <2>1. PICK T \in SUBSET S : T = S \ Run(p, n)
    OBVIOUS
  <2>. HIDE DEF Run
  <2>2. S \ T = Run(p, n)
    BY <1>u, <2>1
  <2>3. Store!Give(c, S, T)
    BY <1>2, <1>u, <2>1, <2>2 DEF Store!Give
  <2>. QED BY <1>u, <2>3 DEF Store!StoreNext
<1>4. Placed'
  BY <1>3, <1>i, StoreStep
<1>5. Calls'
  <2>1. Allocated' \subseteq Allocated
    <3>. HIDE DEF Run
    <3>. QED BY <1>h, <1>u DEF Allocated
  <2>. QED BY <1>i, <1>u, <2>1, CallsFree
<1>6. Search'
  <2>1. SearchAt(c)
    BY <1>i DEF Search
  <2>2. curr'[c] = Nil /\ run'[c] = 0 /\ pc'[c] = "idle"
    BY <1>u, <2>1 DEF SearchAt, search
  <2>3. SearchAt(c)'
    BY <2>2, QuietSearch
  <2>. QED BY <1>i, <1>u, <2>3, SearchStep DEF search
<1>7. Chunks'
  <2>1. \A d \in CPU : \A b \in chunks'[d] : b \in chunks[d] /\ Whole(b) \subseteq held'[d]
    BY <1>h, <1>i, <1>u DEF Chunks
  <2>. QED BY <1>i, <2>1, ChunksKept
<1>. QED
  BY <1>i, <1>u, <1>1, <1>2, <1>3, <1>4, <1>5, <1>6, <1>7 DEF PageInv

\* A step that changes nothing the invariant and the store speak of.
LEMMA IdleStep ==
  ASSUME PageInv, UNCHANGED pageVars
  PROVE  PageInv' /\ UNCHANGED Store!storeVars
<1>. USE DEF pageVars, ghosts, search
<1>1. Free' = Free /\ Linked'
  BY LinkedSame DEF PageInv
<1>2. UNCHANGED Store!storeVars
  BY <1>1 DEF Store!storeVars
<1>3. Placed'
  BY <1>2, StoreStep DEF PageInv
<1>4. PageTypeOK' /\ ~fault'
  BY DEF PageInv, PageTypeOK
<1>5. Calls'
  <2>1. Allocated' = Allocated /\ Pending' = Pending
    BY DEF Allocated, Pending
  <2>. QED BY <2>1 DEF PageInv, Calls
<1>6. Search'
  <2>. SUFFICES ASSUME NEW d \in CPU PROVE SearchAt(d)'
    BY DEF Search
  <2>1. RunFound(d)' <=> RunFound(d)
    BY <1>1 DEF RunFound
  <2>2. SearchAt(d)
    BY DEF PageInv, Search
  <2>. HIDE DEF Page
  <2>. QED BY <1>1, <2>1, <2>2 DEF SearchAt, OrderOf
<1>7. Chunks'
  BY ChunksKept DEF PageInv, Chunks
<1>. QED
  BY <1>1, <1>2, <1>3, <1>4, <1>5, <1>6, <1>7 DEF PageInv

LEMMA FreePagesStep ==
  ASSUME PageInv, NEW c \in CPU, c \in use.cpus, NEW p \in Page, NEW n \in 0..(Highest + 1 - p),
         FreePages(c, p, n)
  PROVE  PageInv' /\ [Store!StoreNext]_(Store!storeVars)
<1>i. PageTypeOK
  BY DEF PageInv
<1>1. CASE n = 0
  <2>1. Run(p, n) = {}
    BY <1>1
  <2>2. held' = held
    BY <1>i, <2>1 DEF FreePages, PageTypeOK
  <2>. HIDE DEF Run
  <2>3. UNCHANGED pageVars
    BY <1>1, <2>2 DEF FreePages, FreePagesTo, pageVars, ghosts
  <2>. QED BY <2>3, IdleStep
<1>2. CASE n # 0
  <2>1. n \in Nat \ {0}
    BY <1>2
  <2>2. chunks' \in [CPU -> SUBSET (Nat \X Nat)] /\ \A d \in CPU : chunks'[d] \subseteq chunks[d]
    BY <1>i DEF FreePages, PageTypeOK
  <2>. HIDE DEF Run, Page
  <2>3. GivesBack(c, p, n, Run(p, n))
    BY <2>1, <2>2 DEF FreePages, GivesBack, Idle
  <2>. QED BY <2>3, GivesBackStep
<1>. QED
  BY <1>1, <1>2

\* free_page gives back a run of one page.
LEMMA FreePageStep ==
  ASSUME PageInv, NEW c \in CPU, c \in use.cpus, NEW p \in Page, FreePage(c, p)
  PROVE  PageInv' /\ [Store!StoreNext]_(Store!storeVars)
<1>i. PageTypeOK /\ Linked
  BY DEF PageInv
<1>1. Run(p, 1) = {p} /\ Run(p, 1 - 1) = {} /\ 1 \in 0..(Highest + 1 - p) /\ p + 1 - 1 = p
  OBVIOUS
<1>2. word' = [q \in Word |-> IF q \in Run(p, 1 - 1) THEN q + 1
                              ELSE IF q = p + 1 - 1 THEN freelist
                              ELSE word[q]]
  <2>1. word' = [q \in Word |-> IF q = p THEN freelist ELSE word[q]]
    BY <1>i DEF FreePage, PageTypeOK
  <2>. HIDE DEF Run, Word, Page
  <2>. QED BY <1>1, <2>1
<1>3. rank' = [q \in Page |-> IF q \in Run(p, 1) THEN RankOf(freelist) + (p + 1 - q)
                              ELSE rank[q]]
  <2>1. RankOf(freelist) + (p + 1 - p) = RankOf(freelist) + 1
    BY <1>i, RankType
  <2>2. rank' = [q \in Page |-> IF q = p THEN RankOf(freelist) + 1 ELSE rank[q]]
    BY <1>i DEF FreePage, PageTypeOK
  <2>. HIDE DEF Run, Page
  <2>. QED BY <1>1, <2>1, <2>2
<1>4. FreePages(c, p, 1)
  <2>. HIDE DEF Run, Page, Word, Address
  <2>0. 1 # 0
    OBVIOUS
  <2>1. FreePagesTo(p, 1)
    <3>1. Unlocked /\ freelist' = p
      BY DEF FreePage
    <3>. QED BY <1>2, <1>3, <2>0, <3>1, Zenon DEF FreePagesTo
  <2>2. /\ Idle(c) /\ Run(p, 1) \subseteq held[c]
        /\ \A b \in chunks[c] : Run(p, 1) \cap Whole(b) = {}
    BY <1>1 DEF FreePage
  <2>3. /\ held' = [held EXCEPT ![c] = @ \ Run(p, 1)]
        /\ UNCHANGED <<use, lock, pc, search, chunks, lost, fault>>
    BY <1>1 DEF FreePage
  <2>. QED BY <2>0, <2>1, <2>2, <2>3, Zenon DEF FreePages
<1>. QED BY <1>1, <1>4, FreePagesStep

LEMMA PageFreeStep ==
  ASSUME PageInv, NEW c \in CPU, c \in use.cpus, NEW b \in chunks[c], PageFree(c, b)
  PROVE  PageInv' /\ [Store!StoreNext]_(Store!storeVars)
<1>i. PageTypeOK /\ Chunks
  BY DEF PageInv
<1>b. /\ b[1] \in Nat /\ b[2] \in Nat \ {0} /\ Whole(b) \subseteq held[c] /\ held[c] \subseteq Page
      /\ Asked(b) \subseteq Whole(b)
  <2>1. /\ b[1] \in Nat /\ b[2] \in Nat \ {0} /\ Whole(b) \subseteq held[c]
        /\ held[c] \subseteq Page
        /\ 2^OrderOf(b[2]) \in Nat /\ b[2] <= 2^OrderOf(b[2])
    <3>. HIDE DEF Page
    <3>. QED BY <1>i DEF PageTypeOK, Chunks
  <2>2. Asked(b) \subseteq Whole(b)
    BY <2>1 DEF Asked, Whole
  <2>. QED BY <2>1, <2>2
<1>1. PICK p \in Page, n \in Nat \ {0} : p = b[1] /\ n = b[2]
  <2>1. b[1] \in Asked(b)
    BY <1>b DEF Asked
  <2>. QED BY <1>b, <2>1
<1>2. Run(p, n) = Asked(b)
  BY <1>1 DEF Asked
<1>3. chunks'[c] = chunks[c] \ {b} /\ \A d \in CPU : d # c => chunks'[d] = chunks[d]
  BY <1>i DEF PageFree, PageTypeOK
<1>4. chunks' \in [CPU -> SUBSET (Nat \X Nat)] /\ \A d \in CPU : chunks'[d] \subseteq chunks[d]
  BY <1>i, <1>3 DEF PageFree, PageTypeOK
<1>5. \A e \in chunks'[c] : Whole(e) \cap Whole(b) = {}
  BY <1>3, <1>i DEF Chunks
<1>. HIDE DEF Run, Page
<1>6. GivesBack(c, p, n, Whole(b))
  BY <1>b, <1>1, <1>2, <1>4, <1>5 DEF PageFree, GivesBack, Idle
<1>. QED BY <1>6, GivesBackStep

\* The pages of the list are not written to by their former owners.
LEMMA UserWriteStep ==
  ASSUME PageInv, NEW c \in CPU, c \in use.cpus, NEW p \in Page, UserWrite(c, p)
  PROVE  PageInv' /\ [Store!StoreNext]_(Store!storeVars)
<1>i. PageTypeOK /\ ~fault /\ Linked /\ Placed /\ Calls /\ Search /\ Chunks
  BY DEF PageInv
<1>u. /\ word' = [word EXCEPT ![p] = Junk]
      /\ UNCHANGED <<use, freelist, lock, pc, search, ghosts, fault>>
      /\ p \in held[c] /\ pc[c] = "idle"
  BY DEF UserWrite, Idle
<1>1. p \notin Free
  BY <1>i, <1>u DEF Placed, Store!Partition
<1>2. Linked' /\ Free' = Free
  <2>1. \A q \in Free : word'[q] = word[q]
    BY <1>i, <1>u, <1>1 DEF PageTypeOK, Free
  <2>. QED BY <1>i, <1>u, <2>1, LinkedSame DEF ghosts
<1>3. UNCHANGED Store!storeVars
  BY <1>2, <1>u DEF Store!storeVars, ghosts
<1>4. Placed'
  BY <1>i, <1>3, StoreStep
<1>5. PageTypeOK' /\ ~fault'
  <2>1. word' \in [Word -> Address]
    BY <1>i, <1>u DEF PageTypeOK
  <2>. HIDE DEF Page, Word, Address
  <2>. QED BY <1>i, <1>u, <2>1 DEF PageTypeOK, search, ghosts
<1>6. Calls'
  <2>1. Allocated' = Allocated /\ \A d \in CPU : chunks'[d] = chunks[d]
    BY <1>u DEF Allocated, ghosts
  <2>. QED BY <1>i, <1>u, <2>1, CallsFree
<1>7. Search'
  <2>1. SearchAt(c)
    BY <1>i DEF Search
  <2>2. curr'[c] = Nil /\ run'[c] = 0 /\ pc'[c] = "idle"
    BY <1>u, <2>1 DEF SearchAt, search
  <2>. QED BY <1>i, <1>u, <2>2, QuietSearch, SearchStep DEF search
<1>8. Chunks'
  BY <1>i, <1>u, ChunksKept DEF ghosts, Chunks
<1>. QED
  BY <1>i, <1>2, <1>3, <1>4, <1>5, <1>6, <1>7, <1>8 DEF PageInv

\* The list is not emptied between alloc_page's test and its use of freelist.
LEMMA AllocPageCheckStep ==
  ASSUME PageInv, NEW c \in CPU, c \in use.cpus, AllocPageCheck(c)
  PROVE  PageInv' /\ [Store!StoreNext]_(Store!storeVars)
<1>i. PageTypeOK /\ ~fault /\ Linked /\ Placed /\ Calls /\ Search /\ Chunks
  BY DEF PageInv
<1>u. /\ UNCHANGED <<use, freelist, word, lock, search, ghosts, fault>>
      /\ pc[c] = "idle" /\ MayAsk(1)
      /\ pc'[c] \in {"idle", "pop"} /\ (pc'[c] = "pop" => freelist # Nil)
      /\ \A d \in CPU : d # c => pc'[d] = pc[d]
      /\ pc' \in [CPU -> PcValues]
  BY <1>i DEF AllocPageCheck, Idle, PageTypeOK, PcValues
<1>1. Linked' /\ Free' = Free
  BY <1>i, <1>u, LinkedSame DEF ghosts
<1>2. UNCHANGED Store!storeVars
  BY <1>1, <1>u DEF Store!storeVars, ghosts
<1>3. Placed'
  BY <1>i, <1>2, StoreStep
<1>4. PageTypeOK' /\ ~fault'
  BY <1>i, <1>u DEF PageTypeOK, search, ghosts
<1>5. Calls'
  <2>1. CASE use.cpus \subseteq {c} /\ \A d \in CPU : d # c => pc[d] = "idle"
    BY <1>u, <2>1 DEF Calls
  <2>2. CASE /\ use.ops \subseteq {"page"} /\ use.spare
             /\ \A d \in CPU : pc[d] \in {"idle", "pop"} /\ chunks[d] = {}
             /\ Cardinality(Allocated) + Cardinality(Pending) <= NPages
    <3>1. Allocated' = Allocated
      BY <1>u DEF Allocated, ghosts
    <3>2. Pending' \subseteq Pending \cup {c} /\ c \notin Pending
      BY <1>u DEF Pending
    <3>3. IsFiniteSet(Pending \cup {c}) /\ Cardinality(Pending \cup {c}) = Cardinality(Pending) + 1
      BY <1>i, <3>2, Counts, FS_AddElement
    <3>4. Cardinality(Pending') <= Cardinality(Pending) + 1 /\ Cardinality(Pending') \in Nat
      BY <3>2, <3>3, FS_Subset, FS_CardinalityType
    <3>5. Cardinality(Allocated) + Cardinality(Pending) + 1 <= NPages
      BY <1>u, <2>2 DEF MayAsk
    <3>6. Cardinality(Allocated)' + Cardinality(Pending)' <= NPages
      BY <1>i, <3>1, <3>4, <3>5, Counts DEF NPages
    <3>7. \A d \in CPU : pc'[d] \in {"idle", "pop"} /\ chunks'[d] = {}
      BY <1>u, <2>2 DEF ghosts
    <3>. QED BY <1>u, <2>2, <3>6, <3>7 DEF Calls, NPages
  <2>. QED BY <1>i, <2>1, <2>2 DEF Calls
<1>6. Search'
  <2>1. SearchAt(c)
    BY <1>i DEF Search
  <2>2. curr'[c] = Nil /\ run'[c] = 0
    BY <1>u, <2>1 DEF SearchAt, search
  <2>. QED BY <1>i, <1>u, <2>2, QuietSearch, SearchStep DEF search
<1>7. Chunks'
  BY <1>i, <1>u, ChunksKept DEF ghosts, Chunks
<1>. QED
  BY <1>i, <1>1, <1>2, <1>3, <1>4, <1>5, <1>6, <1>7 DEF PageInv

\* Whoever passed the test finds a page: there are as many as calls.
LEMMA PopFinds ==
  ASSUME PageTypeOK, Linked, Placed, Calls, NEW c \in CPU, c \in use.cpus, pc[c] = "pop"
  PROVE  freelist \in Free
<1>. SUFFICES ASSUME freelist = Nil PROVE FALSE
  BY DEF Linked
<1>1. Free = {}
  BY EmptyList
<1>2. Allocated = Page
  <2>1. Page \subseteq Allocated
    <3>. HIDE DEF Page
    <3>. QED BY <1>1 DEF Placed, Store!Partition, Allocated
  <2>. QED BY <2>1, Counts
<1>3. Cardinality(Pending) >= 1
  <2>1. {c} \subseteq Pending
    BY DEF Pending
  <2>2. Cardinality({c}) = 1
    BY FS_Singleton
  <2>3. Cardinality({c}) <= Cardinality(Pending)
    BY <2>1, Counts, FS_Subset
  <2>. QED BY <2>2, <2>3
<1>4. Cardinality(Allocated) + Cardinality(Pending) <= NPages
  BY DEF Calls
<1>. QED BY <1>2, <1>3, <1>4, Counts DEF NPages

LEMMA AllocPagePopStep ==
  ASSUME PageInv, NEW c \in CPU, c \in use.cpus, AllocPagePop(c)
  PROVE  PageInv' /\ [Store!StoreNext]_(Store!storeVars)
<1>i. PageTypeOK /\ ~fault /\ Linked /\ Placed /\ Calls /\ Search /\ Chunks
  BY DEF PageInv
<1>p. pc[c] = "pop" /\ freelist \in Free /\ freelist \in Page /\ freelist # Junk
  BY <1>i, PopFinds DEF AllocPagePop, Free
<1>u. /\ UNCHANGED <<use, word, lock, search, chunks, lost>> /\ ~fault'
      /\ freelist' = word[freelist]
      /\ rank' = [q \in Page |-> IF q = freelist THEN 0 ELSE rank[q]]
      /\ held' = [held EXCEPT ![c] = @ \cup {freelist}]
      /\ pc' = [pc EXCEPT ![c] = "idle"]
  <2>1. {freelist} \cap Page = {freelist}
    BY <1>p
  <2>. QED BY <1>p, <2>1 DEF AllocPagePop
<1>h. held'[c] = held[c] \cup {freelist} /\ \A d \in CPU : d # c => held'[d] = held[d]
  BY <1>i, <1>u DEF PageTypeOK
<1>pc. pc'[c] = "idle" /\ \A d \in CPU : d # c => pc'[d] = pc[d]
  BY <1>i, <1>u DEF PageTypeOK
<1>1. Linked' /\ Free' = Free \ {freelist}
  BY <1>i, <1>p, <1>u, ListPop
<1>2. Store!StoreNext
  <2>1. PICK S \in SUBSET Free : S = {freelist}
    BY <1>p
  <2>2. Store!Take(c, S)
    BY <1>1, <1>u, <2>1 DEF Store!Take
  <2>. QED BY <2>2 DEF Store!StoreNext
<1>3. Placed'
  BY <1>i, <1>2, StoreStep
<1>4. PageTypeOK'
  <2>1. freelist' \in Address /\ rank' \in [Page -> Nat] /\ pc' \in [CPU -> PcValues]
    BY <1>i, <1>p, <1>u DEF PageTypeOK, PcValues
  <2>2. held' \in [CPU -> SUBSET Page]
    BY <1>i, <1>p, <1>u DEF PageTypeOK
  <2>. HIDE DEF Page, Word, Address
  <2>. QED BY <1>i, <1>u, <2>1, <2>2 DEF PageTypeOK, search
<1>5. Calls'
  <2>1. CASE use.cpus \subseteq {c} /\ \A d \in CPU : d # c => pc[d] = "idle"
    BY <1>u, <1>pc, <2>1, CallsAlone
  <2>2. CASE /\ use.ops \subseteq {"page"} /\ use.spare
             /\ \A d \in CPU : pc[d] \in {"idle", "pop"} /\ chunks[d] = {}
             /\ Cardinality(Allocated) + Cardinality(Pending) <= NPages
    <3>1. Allocated' = Allocated \cup {freelist}
      BY <1>h, <1>u DEF Allocated
    <3>2. Pending' = Pending \ {c} /\ c \in Pending
      BY <1>p, <1>pc DEF Pending
    <3>3. Cardinality(Allocated') <= Cardinality(Allocated) + 1 /\ Cardinality(Allocated') \in Nat
      <4>1. IsFiniteSet(Allocated) /\ Cardinality(Allocated) \in Nat
        BY <1>i, Counts
      <4>2. \/ Cardinality(Allocated \cup {freelist}) = Cardinality(Allocated)
            \/ Cardinality(Allocated \cup {freelist}) = Cardinality(Allocated) + 1
        BY <4>1, FS_AddElement
      <4>. QED BY <3>1, <4>1, <4>2
    <3>4. Cardinality(Pending') = Cardinality(Pending) - 1
      BY <1>i, <3>2, Counts, FS_RemoveElement
    <3>5. Cardinality(Allocated)' + Cardinality(Pending)' <= NPages
      BY <1>i, <2>2, <3>3, <3>4, Counts DEF NPages
    <3>6. \A d \in CPU : pc'[d] \in {"idle", "pop"} /\ chunks'[d] = {}
      BY <1>u, <1>pc, <2>2
    <3>. QED BY <1>u, <2>2, <3>5, <3>6 DEF Calls, NPages
  <2>. QED BY <1>i, <2>1, <2>2 DEF Calls
<1>6. Search'
  <2>1. SearchAt(c)
    BY <1>i DEF Search
  <2>2. curr'[c] = Nil /\ run'[c] = 0
    BY <1>p, <1>u, <2>1 DEF SearchAt, search
  <2>. QED BY <1>i, <1>u, <1>pc, <2>2, QuietSearch, SearchStep DEF search
<1>7. Chunks'
  <2>1. \A d \in CPU : \A b \in chunks'[d] : b \in chunks[d] /\ Whole(b) \subseteq held'[d]
    BY <1>h, <1>i, <1>u DEF Chunks
  <2>. QED BY <1>i, <2>1, ChunksKept
<1>. QED
  BY <1>1, <1>2, <1>3, <1>4, <1>5, <1>6, <1>7, <1>u DEF PageInv

\* page_memalign's block is as large as what was asked for.
LEMMA OrderFits ==
  ASSUME NEW n \in 1..2^MaxOrder
  PROVE  2^OrderOf(n) \in Nat \ {0} /\ n <= 2^OrderOf(n)
<1>1. \E o \in 0..n : 2^o >= n /\ (o = 0 \/ 2^(o - 1) < n)
  BY PowersAssumption
<1>2. OrderOf(n) \in 0..n /\ 2^OrderOf(n) >= n
  BY <1>1 DEF OrderOf
<1>3. \A o \in 0..n : 2^o \in Nat \ {0}
  BY PowersAssumption
<1>4. 2^OrderOf(n) \in Nat \ {0}
  BY <1>2, <1>3
<1>5. n \in Int
  OBVIOUS
<1>. QED BY <1>2, <1>4, <1>5

\* A step of alloc_pages that only reads the list.
LEMMA WalkStep ==
  ASSUME PageInv, NEW c \in CPU, c \in use.cpus,
         pc[c] \in {"lock", "scan", "unlink"} \/ ~(use.ops \subseteq {"page"}),
         UNCHANGED <<use, freelist, word, ghosts, fault>>,
         PageTypeOK', SearchAt(c)', pc'[c] # "pop",
         \A d \in CPU : d # c => pc'[d] = pc[d] /\ curr'[d] = curr[d] /\ run'[d] = run[d]
  PROVE  PageInv' /\ UNCHANGED Store!storeVars
<1>i. PageTypeOK /\ ~fault /\ Linked /\ Placed /\ Calls /\ Search /\ Chunks
  BY DEF PageInv
<1>1. Linked' /\ Free' = Free
  BY <1>i, LinkedSame DEF ghosts
<1>2. UNCHANGED Store!storeVars
  BY <1>1 DEF Store!storeVars, ghosts
<1>3. Placed'
  BY <1>i, <1>2, StoreStep
<1>4. Calls'
  <2>1. use.cpus \subseteq {c} /\ \A d \in CPU : d # c => pc[d] = "idle"
    BY <1>i, Alone
  <2>. QED BY <2>1, CallsAlone
<1>5. Search'
  BY <1>i, SearchStep
<1>6. Chunks'
  BY <1>i, ChunksKept DEF ghosts, Chunks
<1>. QED
  BY <1>i, <1>1, <1>2, <1>3, <1>4, <1>5, <1>6 DEF PageInv

LEMMA AllocPagesReadStep ==
  ASSUME PageInv, NEW c \in CPU, c \in use.cpus, ~(use.ops \subseteq {"page"}),
         NEW o, NEW n \in Nat, 2^o \in Nat \ {0}, n # 0 => o = OrderOf(n) /\ n <= 2^o,
         AllocPagesRead(c, o, n)
  PROVE  PageInv' /\ UNCHANGED Store!storeVars
<1>i. PageTypeOK /\ SearchAt(c)
  BY DEF PageInv, Search
<1>u. /\ UNCHANGED <<use, freelist, word, lock, curr, run, run_start, run_prev, run_next_pa>>
      /\ UNCHANGED <<ghosts, fault>>
      /\ nr' = [nr EXCEPT ![c] = 2^o]
      /\ asked' = [asked EXCEPT ![c] = n]
      /\ next' = [next EXCEPT ![c] = freelist]
      /\ pc' = [pc EXCEPT ![c] = "lock"]
      /\ pc[c] = "idle"
  BY DEF AllocPagesRead, Idle
<1>1. PageTypeOK'
  <2>1. nr' \in [CPU -> Nat \ {0}] /\ asked' \in [CPU -> Nat]
    BY <1>i, <1>u DEF PageTypeOK
  <2>2. next' \in [CPU -> Address] /\ pc' \in [CPU -> PcValues]
    BY <1>i, <1>u DEF PageTypeOK, PcValues
  <2>. HIDE DEF Page, Word, Address
  <2>. QED BY <1>i, <1>u, <2>1, <2>2 DEF PageTypeOK, ghosts
<1>2. /\ nr'[c] = 2^o /\ asked'[c] = n /\ next'[c] = freelist /\ pc'[c] = "lock"
      /\ curr'[c] = curr[c] /\ run'[c] = run[c]
      /\ \A d \in CPU : d # c => pc'[d] = pc[d] /\ curr'[d] = curr[d] /\ run'[d] = run[d]
  BY <1>i, <1>u DEF PageTypeOK
<1>3. SearchAt(c)'
  <2>1. curr[c] = Nil /\ run[c] = 0
    BY <1>i, <1>u DEF SearchAt
  <2>2. n # 0 => nr'[c] = 2^OrderOf(n) /\ n <= nr'[c]
    BY <1>2
  <2>3. OrderOf(asked[c])' = OrderOf(n)
    BY <1>2 DEF OrderOf
  <2>. QED BY <1>2, <1>u, <2>1, <2>2, <2>3 DEF SearchAt
<1>4. pc'[c] # "pop"
  BY <1>2
<1>. QED BY <1>1, <1>2, <1>3, <1>4, <1>u, WalkStep

LEMMA AllocPagesStep ==
  ASSUME PageInv, NEW c \in CPU, c \in use.cpus, AllocPages(c) \/ PageMemalign(c)
  PROVE  PageInv' /\ UNCHANGED Store!storeVars
<1>1. CASE AllocPages(c)
  <2>1. PICK o \in 0..MaxOrder : AllocPagesRead(c, o, 0)
    BY <1>1 DEF AllocPages
  <2>2. 2^o \in Nat \ {0} /\ ~(use.ops \subseteq {"page"})
    BY <1>1, <2>1, PowersAssumption DEF AllocPages
  <2>. QED BY <2>1, <2>2, AllocPagesReadStep
<1>2. CASE PageMemalign(c)
  <2>1. PICK n \in 1..2^MaxOrder : AllocPagesRead(c, OrderOf(n), n)
    BY <1>2 DEF PageMemalign
  <2>2. PICK o : o = OrderOf(n)
    OBVIOUS
  <2>3. /\ 2^o \in Nat \ {0} /\ n <= 2^o /\ o = OrderOf(n) /\ AllocPagesRead(c, o, n)
        /\ n \in Nat /\ ~(use.ops \subseteq {"page"})
    BY <1>2, <2>1, <2>2, OrderFits, PowersAssumption DEF PageMemalign
  <2>. QED BY <2>3, AllocPagesReadStep
<1>. QED BY <1>1, <1>2

LEMMA SpinLockStep ==
  ASSUME PageInv, NEW c \in CPU, c \in use.cpus, SpinLock(c)
  PROVE  PageInv' /\ UNCHANGED Store!storeVars
<1>i. PageTypeOK /\ SearchAt(c)
  BY DEF PageInv, Search
<1>u. /\ UNCHANGED <<use, freelist, word, search, ghosts, fault>>
      /\ pc' = [pc EXCEPT ![c] = "scan"] /\ pc[c] = "lock"
  BY DEF SpinLock
<1>1. PageTypeOK'
  <2>1. pc' \in [CPU -> PcValues]
    BY <1>i, <1>u DEF PageTypeOK, PcValues
  <2>. HIDE DEF Page, Word, Address
  <2>. QED BY <1>i, <1>u, <2>1 DEF PageTypeOK, search, ghosts
<1>2. /\ pc'[c] = "scan" /\ \A d \in CPU : d # c => pc'[d] = pc[d]
      /\ UNCHANGED <<nr, asked, next, curr, run>>
  BY <1>i, <1>u DEF PageTypeOK, search
<1>3. SearchAt(c)'
  <2>1. curr[c] = Nil /\ run[c] = 0 /\ nr[c] > 0
    BY <1>i, <1>u DEF SearchAt, PageTypeOK
  <2>. QED BY <1>2, <1>i, <1>u, <2>1 DEF SearchAt, OrderOf
<1>4. pc'[c] # "pop"
  BY <1>2
<1>. QED BY <1>1, <1>2, <1>3, <1>4, <1>u, WalkStep

\* alloc_pages follows the list: next is a page of it, or the end.
LEMMA NextOnList ==
  ASSUME PageInv, NEW c \in CPU, pc[c] \in {"scan", "unlink"}
  PROVE  next[c] \in Free \cup {Nil}
<1>1. SearchAt(c) /\ Linked
  BY DEF PageInv, Search
<1>2. CASE curr[c] = Nil
  BY <1>1, <1>2 DEF SearchAt, Linked
<1>3. CASE curr[c] # Nil
  <2>1. curr[c] \in Free /\ next[c] = word[curr[c]]
    BY <1>1, <1>3 DEF SearchAt
  <2>. QED BY <1>1, <2>1 DEF Linked
<1>. QED BY <1>2, <1>3

\* One page further along the list.
LEMMA AdvanceStep ==
  ASSUME PageInv, NEW c \in CPU, c \in use.cpus, Scans(c), Advance(c),
         UNCHANGED <<use, freelist, word, nr, asked, ghosts, fault>>,
         pc' \in [CPU -> PcValues], run' \in [CPU -> Nat], run_start' \in [CPU -> Address],
         run_prev' \in [CPU -> Address], run_next_pa' \in [CPU -> Int],
         \A d \in CPU : d # c => pc'[d] = pc[d] /\ run'[d] = run[d],
         pc'[c] = (IF run'[c] = nr[c] THEN "unlink" ELSE "scan"), run'[c] <= nr[c],
         run'[c] > 0 => RunFound(c)'
  PROVE  PageInv' /\ UNCHANGED Store!storeVars
<1>i. PageTypeOK /\ SearchAt(c)
  BY DEF PageInv, Search
<1>p. next[c] \in Free /\ next[c] \in Page /\ next[c] # Nil
  BY NextOnList DEF Scans
<1>u. /\ curr' = [curr EXCEPT ![c] = next[c]]
      /\ next' = [next EXCEPT ![c] = word[next[c]]]
  BY DEF Advance
<1>1. curr' \in [CPU -> Address] /\ next' \in [CPU -> Address]
  <2>1. next[c] \in Address /\ word[next[c]] \in Address
    BY <1>i, <1>p DEF PageTypeOK
  <2>. HIDE DEF Page, Word, Address
  <2>. QED BY <1>i, <1>u, <2>1 DEF PageTypeOK
<1>2. PageTypeOK'
  <2>. HIDE DEF Page, Word, Address
  <2>. QED BY <1>i, <1>1 DEF PageTypeOK, ghosts
<1>3. /\ curr'[c] = next[c] /\ next'[c] = word[next[c]]
      /\ \A d \in CPU : d # c => curr'[d] = curr[d]
  BY <1>i, <1>u DEF PageTypeOK
<1>4. Free' = Free
  BY DEF Free, ghosts
<1>5. SearchAt(c)'
  <2>1. curr'[c] # Nil /\ curr'[c] \in Free' /\ next'[c] = word'[curr'[c]]
    BY <1>3, <1>4, <1>p
  <2>2. asked'[c] # 0 => nr'[c] = 2^OrderOf(asked[c])' /\ asked'[c] <= nr'[c]
    BY <1>i DEF SearchAt, Scans, OrderOf
  <2>3. pc'[c] = "scan" => run'[c] < nr'[c]
    <3>1. run'[c] \in Nat /\ nr[c] \in Nat
      BY <1>i DEF PageTypeOK
    <3>. QED BY <3>1
  <2>4. pc'[c] \in {"scan", "unlink"} /\ (pc'[c] = "unlink" => run'[c] = nr'[c])
    OBVIOUS
  <2>. QED BY <2>1, <2>2, <2>3, <2>4 DEF SearchAt
<1>6. pc[c] = "scan" /\ pc'[c] # "pop"
  BY DEF Scans
<1>. QED BY <1>2, <1>3, <1>5, <1>6, WalkStep

LEMMA StartRunStep ==
  ASSUME PageInv, NEW c \in CPU, c \in use.cpus, StartRun(c)
  PROVE  PageInv' /\ UNCHANGED Store!storeVars
<1>i. PageTypeOK /\ SearchAt(c)
  BY DEF PageInv, Search
<1>s. Scans(c) /\ pc[c] = "scan" /\ Advance(c) /\ next[c] % nr[c] = 0
  BY DEF StartRun, Scans
<1>p. next[c] \in Free /\ next[c] \in Page
  BY <1>s, NextOnList DEF Scans
<1>u. /\ UNCHANGED <<use, freelist, word, lock, nr, asked, ghosts, fault>>
      /\ run' = [run EXCEPT ![c] = 1]
      /\ run_start' = [run_start EXCEPT ![c] = next[c]]
      /\ run_prev' = [run_prev EXCEPT ![c] = curr[c]]
      /\ run_next_pa' = [run_next_pa EXCEPT ![c] = next[c] + 1]
      /\ pc' = [pc EXCEPT ![c] = IF nr[c] = 1 THEN "unlink" ELSE "scan"]
  BY DEF StartRun
<1>1. /\ run' \in [CPU -> Nat] /\ run_start' \in [CPU -> Address]
      /\ run_prev' \in [CPU -> Address] /\ run_next_pa' \in [CPU -> Int]
  <2>1. next[c] \in Address /\ next[c] + 1 \in Int
    BY <1>p
  <2>. HIDE DEF Page, Word, Address
  <2>. QED BY <1>i, <1>u, <2>1 DEF PageTypeOK
<1>2. pc' \in [CPU -> PcValues]
  BY <1>i, <1>u DEF PageTypeOK, PcValues
<1>3. /\ run'[c] = 1 /\ run_start'[c] = next[c] /\ run_prev'[c] = curr[c]
      /\ run_next_pa'[c] = next[c] + 1 /\ pc'[c] = (IF nr[c] = 1 THEN "unlink" ELSE "scan")
      /\ \A d \in CPU : d # c => pc'[d] = pc[d] /\ run'[d] = run[d]
  BY <1>i, <1>u DEF PageTypeOK
<1>4. RunFound(c)'
  <2>1. Free' = Free /\ curr'[c] = next[c]
    BY <1>i, <1>s, <1>u DEF Free, ghosts, Advance, PageTypeOK
  <2>2. Run(run_start[c], run[c])' = {next[c]}
    BY <1>3, <1>p
  <2>3. rank'[next[c]] = rank[next[c]] - (next[c] - next[c])
    BY <1>i, <1>p, <1>u DEF ghosts, PageTypeOK
  <2>4. curr[c] = Nil => next[c] = freelist
    BY <1>i, <1>s DEF SearchAt
  <2>5. curr[c] # Nil => curr[c] \in Free /\ word[curr[c]] = next[c]
    BY <1>i, <1>s DEF SearchAt
  <2>6. next[c] = next[c] + 1 - 1
    BY <1>p
  <2>7. rank' = rank
    BY <1>u DEF ghosts
  <2>. QED BY <1>3, <1>p, <1>s, <1>u, <2>1, <2>2, <2>3, <2>4, <2>5, <2>6, <2>7 DEF RunFound
<1>5. nr[c] \in Nat /\ 1 <= nr[c]
  BY <1>i DEF PageTypeOK
<1>. QED BY <1>1, <1>2, <1>3, <1>4, <1>5, <1>s, <1>u, AdvanceStep

LEMMA BreakRunStep ==
  ASSUME PageInv, NEW c \in CPU, c \in use.cpus, BreakRun(c)
  PROVE  PageInv' /\ UNCHANGED Store!storeVars
<1>i. PageTypeOK
  BY DEF PageInv
<1>s. Scans(c) /\ pc[c] = "scan" /\ Advance(c)
  BY DEF BreakRun, Scans
<1>u. /\ UNCHANGED <<use, freelist, word, lock, nr, asked, ghosts, fault>>
      /\ UNCHANGED <<pc, run_start, run_prev, run_next_pa>>
      /\ run' = [run EXCEPT ![c] = 0]
  BY DEF BreakRun
<1>1. /\ run' \in [CPU -> Nat] /\ run_start' \in [CPU -> Address]
      /\ run_prev' \in [CPU -> Address] /\ run_next_pa' \in [CPU -> Int]
      /\ pc' \in [CPU -> PcValues]
  BY <1>i, <1>u DEF PageTypeOK
<1>2. run'[c] = 0 /\ \A d \in CPU : d # c => pc'[d] = pc[d] /\ run'[d] = run[d]
  BY <1>i, <1>u DEF PageTypeOK
<1>3. nr[c] \in Nat \ {0}
  BY <1>i DEF PageTypeOK
<1>4. pc'[c] = (IF run'[c] = nr[c] THEN "unlink" ELSE "scan") /\ run'[c] <= nr[c] /\ ~(run'[c] > 0)
  BY <1>2, <1>3, <1>s, <1>u
<1>. QED BY <1>1, <1>2, <1>4, <1>s, <1>u, AdvanceStep

LEMMA ExtendRunStep ==
  ASSUME PageInv, NEW c \in CPU, c \in use.cpus, ExtendRun(c)
  PROVE  PageInv' /\ UNCHANGED Store!storeVars
<1>i. PageTypeOK /\ Linked /\ SearchAt(c)
  BY DEF PageInv, Search
<1>s. Scans(c) /\ pc[c] = "scan" /\ Advance(c) /\ next[c] = run_next_pa[c] /\ run[c] > 0
  BY DEF ExtendRun, Scans
<1>p. next[c] \in Free /\ next[c] \in Page
  BY <1>s, NextOnList DEF Scans
<1>u. /\ UNCHANGED <<use, freelist, word, lock, nr, asked, run_start, run_prev, ghosts, fault>>
      /\ run' = [run EXCEPT ![c] = @ + 1]
      /\ run_next_pa' = [run_next_pa EXCEPT ![c] = @ + 1]
      /\ pc' = [pc EXCEPT ![c] = IF run[c] + 1 = nr[c] THEN "unlink" ELSE "scan"]
  BY DEF ExtendRun
<1>1. /\ run' \in [CPU -> Nat] /\ run_start' \in [CPU -> Address]
      /\ run_prev' \in [CPU -> Address] /\ run_next_pa' \in [CPU -> Int]
  <2>. HIDE DEF Page, Word, Address
  <2>. QED BY <1>i, <1>u DEF PageTypeOK
<1>2. pc' \in [CPU -> PcValues]
  BY <1>i, <1>u DEF PageTypeOK, PcValues
<1>3. /\ run'[c] = run[c] + 1 /\ run_next_pa'[c] = run_next_pa[c] + 1
      /\ pc'[c] = (IF run[c] + 1 = nr[c] THEN "unlink" ELSE "scan")
      /\ \A d \in CPU : d # c => pc'[d] = pc[d] /\ run'[d] = run[d]
  BY <1>i, <1>u DEF PageTypeOK
<1>4. PICK p \in Page, n \in Nat \ {0} : p = run_start[c] /\ n = run[c]
  BY <1>i, <1>s DEF SearchAt, RunFound, PageTypeOK
<1>5. /\ p % nr[c] = 0
      /\ curr[c] = p + n - 1 /\ run_next_pa[c] = p + n
      /\ \A q \in Run(p, n) : q \in Free /\ rank[q] = rank[p] - (q - p)
      /\ run_prev[c] = Nil => p = freelist
      /\ run_prev[c] # Nil => run_prev[c] \in Free /\ word[run_prev[c]] = p
  BY <1>i, <1>s, <1>4 DEF SearchAt, RunFound
<1>6. next[c] = p + n /\ curr[c] # Nil
  BY <1>s, <1>4, <1>5
<1>7. rank[next[c]] = rank[p] - (next[c] - p)
  <2>1. p + n - 1 \in Run(p, n)
    BY <1>4
  <2>2. rank[p + n - 1] = rank[p] - (n - 1) /\ p + n - 1 \in Free
    BY <1>4, <1>5, <2>1
  <2>3. next[c] = word[p + n - 1]
    BY <1>i, <1>s, <1>5, <1>6 DEF SearchAt
  <2>4. RankOf(next[c]) = rank[p + n - 1] - 1
    BY <1>i, <2>2, <2>3 DEF Linked
  <2>5. rank[p] \in Nat /\ RankOf(next[c]) = rank[next[c]]
    BY <1>4, <1>i, <1>p DEF PageTypeOK, RankOf
  <2>. QED BY <1>4, <1>6, <2>2, <2>4, <2>5
<1>8. RunFound(c)'
  <2>1. Free' = Free /\ rank' = rank /\ curr'[c] = next[c]
    BY <1>i, <1>s, <1>u DEF Free, ghosts, Advance, PageTypeOK
  <2>2. \A q \in Run(p, n + 1) : q \in Free /\ rank[q] = rank[p] - (q - p)
    <3>1. \A q \in Run(p, n + 1) : q \in Run(p, n) \/ q = next[c]
      BY <1>4, <1>6
    <3>. HIDE DEF Run, Page
    <3>. QED BY <1>5, <1>7, <1>p, <3>1
  <2>3. run_start'[c] = p /\ run'[c] = n + 1 /\ run_prev'[c] = run_prev[c] /\ nr'[c] = nr[c]
    BY <1>3, <1>4, <1>u
  <2>4. next[c] = p + (n + 1) - 1 /\ run_next_pa'[c] = p + (n + 1)
    BY <1>3, <1>4, <1>5, <1>6
  <2>5. p \in Page
    BY <1>4
  <2>6. Run(run_start[c], run[c])' = Run(p, n + 1)
    BY <2>3
  <2>. HIDE DEF Run, Page
  <2>. QED BY <1>5, <1>u, <2>1, <2>2, <2>3, <2>4, <2>5, <2>6 DEF RunFound
<1>9. run[c] \in Nat /\ nr[c] \in Nat /\ run[c] < nr[c]
  BY <1>i, <1>s DEF PageTypeOK, SearchAt
<1>10. run'[c] <= nr[c] /\ pc'[c] = (IF run'[c] = nr[c] THEN "unlink" ELSE "scan")
  BY <1>3, <1>9
<1>. QED BY <1>1, <1>2, <1>3, <1>8, <1>10, <1>s, <1>u, AdvanceStep

\* The locals of a call that has returned.
LEMMA Returned ==
  ASSUME PageTypeOK, Calls, Search, NEW c \in CPU, c \in use.cpus, Return(c)
  PROVE  /\ pc'[c] = "idle" /\ \A d \in CPU : d # c => pc'[d] = pc[d]
         /\ pc' \in [CPU -> PcValues]
         /\ nr' \in [CPU -> Nat \ {0}] /\ asked' \in [CPU -> Nat]
         /\ next' \in [CPU -> Address] /\ curr' \in [CPU -> Address]
         /\ run' \in [CPU -> Nat] /\ run_start' \in [CPU -> Address]
         /\ run_prev' \in [CPU -> Address] /\ run_next_pa' \in [CPU -> Int]
         /\ Search'
<1>1. /\ pc'[c] = "idle" /\ curr'[c] = Nil /\ run'[c] = 0
      /\ \A d \in CPU : d # c => pc'[d] = pc[d] /\ curr'[d] = curr[d] /\ run'[d] = run[d]
  BY DEF Return, PageTypeOK
<1>2. pc' \in [CPU -> PcValues]
  BY DEF Return, PageTypeOK, PcValues
<1>3. /\ nr' \in [CPU -> Nat \ {0}] /\ asked' \in [CPU -> Nat]
      /\ next' \in [CPU -> Address] /\ curr' \in [CPU -> Address]
      /\ run' \in [CPU -> Nat] /\ run_start' \in [CPU -> Address]
      /\ run_prev' \in [CPU -> Address] /\ run_next_pa' \in [CPU -> Int]
  <2>1. Nil \in Address /\ Nil \in Int
    OBVIOUS
  <2>. HIDE DEF Page, Word, Address, Nil
  <2>. QED BY <2>1 DEF Return, PageTypeOK
<1>4. Search'
  BY <1>1, QuietSearch, SearchStep
<1>. QED BY <1>1, <1>2, <1>3, <1>4

LEMMA GiveUpStep ==
  ASSUME PageInv, NEW c \in CPU, c \in use.cpus, GiveUp(c)
  PROVE  PageInv' /\ UNCHANGED Store!storeVars
<1>i. PageTypeOK /\ ~fault /\ Linked /\ Placed /\ Calls /\ Search /\ Chunks
  BY DEF PageInv
<1>u. pc[c] = "scan" /\ Return(c) /\ UNCHANGED <<use, freelist, word, ghosts>>
  BY DEF GiveUp
<1>r. /\ pc'[c] = "idle" /\ \A d \in CPU : d # c => pc'[d] = pc[d]
      /\ pc' \in [CPU -> PcValues]
      /\ nr' \in [CPU -> Nat \ {0}] /\ asked' \in [CPU -> Nat]
      /\ next' \in [CPU -> Address] /\ curr' \in [CPU -> Address]
      /\ run' \in [CPU -> Nat] /\ run_start' \in [CPU -> Address]
      /\ run_prev' \in [CPU -> Address] /\ run_next_pa' \in [CPU -> Int]
      /\ Search'
  BY <1>i, <1>u, Returned
<1>1. Linked' /\ Free' = Free
  BY <1>i, <1>u, LinkedSame DEF ghosts
<1>2. UNCHANGED Store!storeVars
  BY <1>1, <1>u DEF Store!storeVars, ghosts
<1>3. Placed'
  BY <1>i, <1>2, StoreStep
<1>4. ~fault'
  <2>1. next[c] \in Free \cup {Nil}
    BY <1>u, NextOnList
  <2>2. next[c] # Junk
    BY <2>1 DEF Free
  <2>. QED BY <2>2 DEF GiveUp
<1>5. PageTypeOK'
  <2>. HIDE DEF Page, Word, Address
  <2>. QED BY <1>i, <1>r, <1>u DEF PageTypeOK, ghosts
<1>6. Calls'
  <2>1. use.cpus \subseteq {c} /\ \A d \in CPU : d # c => pc[d] = "idle"
    BY <1>i, <1>u, Alone
  <2>. QED BY <1>r, <1>u, <2>1, CallsAlone
<1>7. Chunks'
  BY <1>i, <1>u, ChunksKept DEF ghosts, Chunks
<1>. QED
  BY <1>i, <1>r, <1>1, <1>2, <1>3, <1>4, <1>5, <1>6, <1>7 DEF PageInv

\* The block leaves the list: aligned, in one piece, and nobody else's.
LEMMA UnlinkStep ==
  ASSUME PageInv, NEW c \in CPU, c \in use.cpus, Unlink(c)
  PROVE  PageInv' /\ Store!StoreNext
<1>i. PageTypeOK /\ ~fault /\ Linked /\ Placed /\ Calls /\ Search /\ Chunks /\ SearchAt(c)
  BY DEF PageInv, Search
<1>0. pc[c] = "unlink" /\ run[c] = nr[c] /\ nr[c] \in Nat \ {0}
  BY <1>i DEF Unlink, SearchAt, PageTypeOK
<1>f. RunFound(c)
  BY <1>i, <1>0 DEF SearchAt
<1>p. PICK p \in Page, n \in Nat \ {0} : p = run_start[c] /\ n = nr[c]
  BY <1>0, <1>f DEF RunFound
<1>e. PICK e \in Address, a \in Address, m \in Nat : e = next[c] /\ a = run_prev[c] /\ m = asked[c]
  BY <1>i DEF PageTypeOK
<1>1. /\ p % n = 0
      /\ curr[c] = p + n - 1
      /\ \A q \in Run(p, n) : q \in Free /\ rank[q] = rank[p] - (q - p)
      /\ a = Nil => p = freelist
      /\ a # Nil => a \in Free /\ word[a] = p
  BY <1>0, <1>f, <1>p, <1>e DEF RunFound
<1>2. e = word[p + n - 1]
  <2>1. curr[c] # Nil
    BY <1>1, <1>p
  <2>. QED BY <1>i, <1>0, <1>1, <1>e, <2>1 DEF SearchAt
<1>u. /\ UNCHANGED <<use, lost, fault>> /\ Return(c)
      /\ a = Nil => freelist' = e /\ word' = word
      /\ a # Nil => word' = [word EXCEPT ![a] = e] /\ freelist' = freelist
      /\ rank' = [q \in Page |-> IF q \in Run(p, n) THEN 0
                                 ELSE IF rank[q] > rank[p] THEN rank[q] - n ELSE rank[q]]
      /\ held' = [held EXCEPT ![c] = @ \cup Run(p, n)]
      /\ chunks' = IF m = 0 THEN chunks ELSE [chunks EXCEPT ![c] = @ \cup {<<p, m>>}]
  <2>. HIDE DEF Run, Page
  <2>. QED BY <1>p, <1>e DEF Unlink
<1>h. held'[c] = held[c] \cup Run(p, n) /\ \A d \in CPU : d # c => held'[d] = held[d]
  BY <1>i, <1>u DEF PageTypeOK
<1>r. /\ pc'[c] = "idle" /\ \A d \in CPU : d # c => pc'[d] = pc[d]
      /\ pc' \in [CPU -> PcValues]
      /\ nr' \in [CPU -> Nat \ {0}] /\ asked' \in [CPU -> Nat]
      /\ next' \in [CPU -> Address] /\ curr' \in [CPU -> Address]
      /\ run' \in [CPU -> Nat] /\ run_start' \in [CPU -> Address]
      /\ run_prev' \in [CPU -> Address] /\ run_next_pa' \in [CPU -> Int]
      /\ Search'
  BY <1>i, <1>u, Returned
<1>3. Linked' /\ Free' = Free \ Run(p, n)
  <2>1. a = Nil => p = freelist /\ freelist' = e /\ word' = word
    BY <1>1, <1>u
  <2>2. a # Nil => a \in Free /\ word[a] = p /\ word' = [word EXCEPT ![a] = e]
                   /\ freelist' = freelist
    BY <1>1, <1>u
  <2>3. rank' = [q \in Page |-> IF q \in Run(p, n) THEN 0
                                ELSE IF rank[q] > rank[p] THEN rank[q] - n ELSE rank[q]]
    BY <1>u
  <2>4. p \in Page /\ n \in Nat \ {0} /\ PageTypeOK /\ Linked
    BY <1>i, <1>p
  <2>5. \A q \in Run(p, n) : q \in Free /\ rank[q] = rank[p] - (q - p)
    BY <1>1
  <2>. HIDE DEF Run, Page, Nil
  <2>. QED BY <1>2, <2>1, <2>2, <2>3, <2>4, <2>5, ListUnlink
<1>4. PICK R \in SUBSET Free : R = Run(p, n)
  BY <1>1
<1>5. Store!StoreNext
  <2>1. Store!Take(c, R)
    BY <1>3, <1>4, <1>u DEF Store!Take
  <2>. QED BY <2>1 DEF Store!StoreNext
<1>6. Placed'
  BY <1>i, <1>5, StoreStep
<1>7. PageTypeOK' /\ ~fault'
  <2>1. freelist' \in Address
    BY <1>i, <1>e, <1>u DEF PageTypeOK
  <2>2. word' \in [Word -> Address]
    <3>. HIDE DEF Word, Address
    <3>. QED BY <1>i, <1>e, <1>u DEF PageTypeOK
  <2>3. rank' \in [Page -> Nat]
    <3>1. ASSUME NEW q \in Page, q \notin Run(p, n), rank[q] > rank[p] PROVE rank[q] - n \in Nat
      <4>1. p + n - 1 \in Run(p, n)
        BY <1>p
      <4>2. p + n - 1 \in Page /\ rank[p + n - 1] = rank[p] - (n - 1) /\ rank[p + n - 1] > 0
        BY <1>p, <1>1, <4>1 DEF Free
      <4>3. rank[p] \in Nat /\ rank[q] \in Nat
        BY <1>i, <1>p DEF PageTypeOK
      <4>. QED BY <1>p, <3>1, <4>2, <4>3
    <3>2. \A q \in Page : rank[q] \in Nat
      BY <1>i DEF PageTypeOK
    <3>. HIDE DEF Run, Page
    <3>. QED BY <1>u, <3>1, <3>2
  <2>4. held' \in [CPU -> SUBSET Page]
    BY <1>i, <1>1, <1>u DEF PageTypeOK, Free
  <2>5. chunks' \in [CPU -> SUBSET (Nat \X Nat)]
    <3>1. <<p, m>> \in Nat \X Nat
      BY <1>p, <1>e
    <3>. QED BY <1>i, <1>u, <3>1 DEF PageTypeOK
  <2>. HIDE DEF Page, Word, Address
  <2>. QED BY <1>i, <1>r, <1>u, <2>1, <2>2, <2>3, <2>4, <2>5 DEF PageTypeOK
<1>8. Calls'
  <2>1. use.cpus \subseteq {c} /\ \A d \in CPU : d # c => pc[d] = "idle"
    BY <1>i, <1>0, Alone
  <2>. QED BY <1>r, <1>u, <2>1, CallsAlone
<1>9. Chunks'
  <2>1. CASE m = 0
    <3>1. \A d \in CPU : \A b \in chunks'[d] : b \in chunks[d] /\ Whole(b) \subseteq held'[d]
      BY <1>h, <1>i, <1>u, <2>1 DEF Chunks
    <3>. QED BY <1>i, <3>1, ChunksKept
  <2>2. CASE m # 0
    <3>0. PICK k : k = <<p, m>>
      OBVIOUS
    <3>1. chunks'[c] = chunks[c] \cup {k} /\ \A d \in CPU : d # c => chunks'[d] = chunks[d]
      BY <1>i, <1>u, <2>2, <3>0 DEF PageTypeOK
    <3>2. /\ k[2] \in Nat \ {0} /\ 2^OrderOf(k[2]) = n /\ k[1] = p
          /\ k[2] <= 2^OrderOf(k[2]) /\ Whole(k) = Run(p, n)
      <4>1. n = 2^OrderOf(m) /\ m <= n
        BY <1>i, <1>0, <1>p, <1>e, <2>2 DEF SearchAt
      <4>. HIDE DEF Run
      <4>. QED BY <1>p, <1>e, <2>2, <3>0, <4>1 DEF Whole
    <3>3. \A b \in chunks[c] : Whole(b) \cap Run(p, n) = {}
      <4>1. \A b \in chunks[c] : Whole(b) \subseteq held[c]
        BY <1>i DEF Chunks
      <4>2. held[c] \cap Run(p, n) = {}
        BY <1>i, <1>1 DEF Placed, Store!Partition
      <4>. QED BY <4>1, <4>2
    <3>4. ASSUME NEW b PROVE Whole(b)' = Whole(b) /\ (2^OrderOf(b[2]))' = 2^OrderOf(b[2])
      BY DEF Whole, OrderOf
    <3>5. ASSUME NEW d \in CPU, NEW b \in chunks'[d]
          PROVE  /\ b[2] \in Nat \ {0} /\ 2^OrderOf(b[2]) \in Nat
                 /\ b[2] <= 2^OrderOf(b[2])
                 /\ b[1] % 2^OrderOf(b[2]) = 0
                 /\ Whole(b) \subseteq held'[d]
                 /\ \A x \in chunks'[d] : x # b => Whole(b) \cap Whole(x) = {}
      <4>. HIDE DEF Run
      <4>1. CASE d = c /\ b = k
        BY <1>h, <1>p, <1>1, <3>1, <3>2, <3>3, <4>1
      <4>2. CASE d = c /\ b # k
        BY <1>h, <1>i, <3>1, <3>2, <3>3, <4>2 DEF Chunks
      <4>3. CASE d # c
        BY <1>h, <1>i, <3>1, <4>3 DEF Chunks
      <4>. QED BY <4>1, <4>2, <4>3
    <3>. QED BY <3>4, <3>5 DEF Chunks
  <2>. QED BY <2>1, <2>2
<1>. QED
  BY <1>r, <1>3, <1>5, <1>6, <1>7, <1>8, <1>9 DEF PageInv

LEMMA PageInitInv ==
  ASSUME PageInit, Orderly
  PROVE  PageInv /\ Store!StoreInit
<1>u. use \in Use /\ use.cpus \subseteq CPU
  BY UsesAssumption DEF PageInit, Use
<1>0. Free = {} /\ RankOf(freelist) = 0
  BY DEF PageInit, Free, RankOf
<1>b. Boot \in CPU
  BY CpuAssumption DEF Boot
<1>1. PageTypeOK /\ ~fault
  <2>1. Nil \in Address /\ Junk \in Address /\ Nil \in Int
    OBVIOUS
  <2>2. held \in [CPU -> SUBSET Page]
    BY DEF PageInit
  <2>. HIDE DEF Page, Word, Address, Nil, Junk
  <2>. QED BY <2>1, <2>2 DEF PageInit, PageTypeOK, PcValues
<1>2. Linked
  BY <1>0 DEF PageInit, Linked
<1>3. Store!StoreInit
  BY <1>0, <1>b DEF PageInit, Store!StoreInit
<1>4. Placed
  BY <1>3 DEF Store!StoreInit, Placed, Store!StoreTypeOK, Store!Partition
<1>5. Calls
  <2>1. \A d \in CPU : pc[d] = "idle" /\ chunks[d] = {}
    BY DEF PageInit
  <2>2. CASE \E c \in CPU : use.cpus \subseteq {c}
    BY <2>1, <2>2 DEF Calls
  <2>3. CASE use.ops \subseteq {"page"} /\ use.spare
    <3>1. Pending = {}
      BY <2>1 DEF Pending
    <3>2. Cardinality(Allocated) <= NPages
      BY <1>1, Counts, FS_Subset
    <3>. QED BY <1>1, <2>1, <2>3, <3>1, <3>2, Counts, FS_EmptySet DEF Calls, NPages
  <2>. QED BY <2>2, <2>3 DEF Orderly, PageInit
<1>6. Search
  BY DEF PageInit, Search, SearchAt
<1>7. Chunks
  BY DEF PageInit, Chunks
<1>. QED
  BY <1>1, <1>2, <1>3, <1>4, <1>5, <1>6, <1>7 DEF PageInv

\* Only uses that the program makes; they do not change.
LEMMA PageNextStep ==
  ASSUME PageInv, [PageNext]_pageVars
  PROVE  PageInv' /\ [Store!StoreNext]_(Store!storeVars)
<1>1. CASE UNCHANGED pageVars
  BY <1>1, IdleStep
<1>2. CASE PageNext
  <2>1. PICK c \in use.cpus :
          \/ AllocPageCheck(c) \/ AllocPagePop(c)
          \/ AllocPages(c) \/ PageMemalign(c) \/ SpinLock(c) \/ Scan(c)
          \/ \E p \in Page : FreePage(c, p) \/ UserWrite(c, p)
          \/ \E p \in Page : \E n \in 0..(Highest + 1 - p) : FreePages(c, p, n)
          \/ \E b \in chunks[c] : PageFree(c, b)
    BY <1>2 DEF PageNext
  <2>2. c \in CPU /\ c \in use.cpus
    BY <2>1, UsesAssumption DEF PageInv, PageTypeOK, Use
  <2>. HIDE DEF Page
  <2>3. CASE AllocPageCheck(c)
    BY <2>2, <2>3, AllocPageCheckStep
  <2>4. CASE AllocPagePop(c)
    BY <2>2, <2>4, AllocPagePopStep
  <2>5. CASE AllocPages(c) \/ PageMemalign(c)
    BY <2>2, <2>5, AllocPagesStep
  <2>6. CASE SpinLock(c)
    BY <2>2, <2>6, SpinLockStep
  <2>7. CASE StartRun(c)
    BY <2>2, <2>7, StartRunStep
  <2>8. CASE ExtendRun(c)
    BY <2>2, <2>8, ExtendRunStep
  <2>9. CASE BreakRun(c)
    BY <2>2, <2>9, BreakRunStep
  <2>10. CASE GiveUp(c)
    BY <2>2, <2>10, GiveUpStep
  <2>11. CASE Unlink(c)
    BY <2>2, <2>11, UnlinkStep
  <2>12. ASSUME NEW p \in Page, FreePage(c, p) \/ UserWrite(c, p)
         PROVE  PageInv' /\ [Store!StoreNext]_(Store!storeVars)
    BY <2>2, <2>12, FreePageStep, UserWriteStep
  <2>13. ASSUME NEW p \in Page, NEW n \in 0..(Highest + 1 - p), FreePages(c, p, n)
         PROVE  PageInv' /\ [Store!StoreNext]_(Store!storeVars)
    BY <2>2, <2>13, FreePagesStep
  <2>14. ASSUME NEW b \in chunks[c], PageFree(c, b)
         PROVE  PageInv' /\ [Store!StoreNext]_(Store!storeVars)
    BY <2>2, <2>14, PageFreeStep
  <2>. QED
    BY <2>1, <2>3, <2>4, <2>5, <2>6, <2>7, <2>8, <2>9, <2>10, <2>11, <2>12, <2>13, <2>14 DEF Scan
<1>. QED
  BY <1>1, <1>2

\* What alloc_page.c keeps, for any heap and any number of CPUs.
THEOREM PageInvariant ==
  ASSUME Orderly
  PROVE  PageSpec => []PageInv
<1>1. PageInit => PageInv
  BY PageInitInv
<1>2. PageInv /\ [PageNext]_pageVars => PageInv'
  BY PageNextStep
<1>. QED
  BY <1>1, <1>2, PTL DEF PageSpec

\* The allocator never follows an overwritten link, its list is a list from
\* freelist to NULL, and page_memalign's blocks are aligned, large enough and apart.
THEOREM PagesIntactCorrect ==
  ASSUME Orderly
  PROVE  PageSpec => []PagesIntact
<1>1. PageInv => PagesIntact
  <2>. SUFFICES ASSUME PageInv PROVE PagesIntact
    OBVIOUS
  <2>i. PageTypeOK /\ ~fault /\ Linked /\ Chunks
    BY DEF PageInv
  <2>1. ASSUME NEW c \in CPU, NEW b \in chunks[c]
        PROVE  Asked(b) \subseteq Whole(b)
    <3>1. b[1] \in Nat /\ b[2] \in Nat /\ 2^OrderOf(b[2]) \in Nat /\ b[2] <= 2^OrderOf(b[2])
      BY <2>i DEF PageTypeOK, Chunks
    <3>. QED BY <3>1 DEF Asked, Whole
  <2>2. BlocksShaped
    <3>. SUFFICES ASSUME NEW c \in CPU, NEW b \in chunks[c]
                  PROVE  /\ b[1] % 2^OrderOf(b[2]) = 0
                         /\ Asked(b) \subseteq held[c]
                         /\ \A e \in chunks[c] : e # b => Asked(b) \cap Asked(e) = {}
      BY DEF BlocksShaped
    <3>1. Asked(b) \subseteq Whole(b) /\ \A e \in chunks[c] : Asked(e) \subseteq Whole(e)
      BY <2>1
    <3>2. /\ b[1] % 2^OrderOf(b[2]) = 0
          /\ Whole(b) \subseteq held[c]
          /\ \A e \in chunks[c] : e # b => Whole(b) \cap Whole(e) = {}
      BY <2>i DEF Chunks
    <3>. QED BY <3>1, <3>2
  <2>. QED BY <2>i, <2>2 DEF PagesIntact
<1>. QED
  BY <1>1, PageInvariant, PTL

\* The list of free pages and the callers' pages implement the page store.
THEOREM ImplementsStoreCorrect ==
  ASSUME Orderly
  PROVE  PageSpec => ImplementsStore
<1>1. PageInit => Store!StoreInit
  BY PageInitInv
<1>2. PageInv /\ [PageNext]_pageVars => [Store!StoreNext]_(Store!storeVars)
  BY PageNextStep
<1>. QED
  BY <1>1, <1>2, PageInvariant, PTL DEF PageSpec, ImplementsStore, Store!StoreSpec

\* A page is on the list or with one CPU, never both, and never with two.
THEOREM ExclusiveOwnerCorrect ==
  ASSUME Orderly
  PROVE  PageSpec => []ExclusiveOwner
<1>1. Store!Partition => ExclusiveOwner
  BY DEF Store!Partition, ExclusiveOwner
<1>. QED
  BY <1>1, ImplementsStoreCorrect, StorePartition, PTL DEF ImplementsStore

-----------------------------------------------------------------------------
(* The boot-time allocator and malloc. *)

HIDE DEF Page, Nil, Junk, Word, Address, Run

USE RamAssumption, LimitAssumption, NrRegionsAssumption, AlignAssumption, SizeAssumption
    DEF NULL, Meta

\* Rounding up to an alignment moves an address up, by less than the alignment.
LEMMA AlignUp ==
    ASSUME NEW x \in Nat, NEW a \in Nat \ {0}
    PROVE  Align(x, a) \in Nat /\ x <= Align(x, a) /\ Align(x, a) < x + a
  <1>1. (-x) % a \in 0..(a - 1)
    OBVIOUS
  <1> QED
    BY <1>1 DEF Align

\* A region that fits lies between the free range's bottom and its top.
LEMMA TakeKeeps ==
    ASSUME IndInv, top # 0, NEW size \in Nat, NEW align \in Nat \ {0},
           base < TopSafe, Fits(size, align), Take(size, align),
           UNCHANGED <<top, alignMin>>, aborted' \in BOOLEAN
    PROVE  IndInv'
  <1> DEFINE addr == Align(base, align)
             new == [addr |-> addr, end |-> addr + size]
  <1>1. base \in Nat /\ top \in Nat /\ top = RamBase + RamSize /\ RamBase <= base
    BY DEF IndInv, TypeOK, FreeAboveGrants
  <1>2. addr \in Nat /\ base <= addr
    BY <1>1, AlignUp
  <1>3. addr + size <= top
    BY <1>1, <1>2 DEF Fits, TopSafe
  <1>4. /\ base' = addr + size
        /\ grants' = grants \cup {new}
        /\ nr_regions' \in Nat
    BY DEF Take, IndInv, TypeOK
  <1>5. new \in [addr : Nat, end : Nat]
    BY <1>2
  <1> HIDE DEF addr
  <1>6. TypeOK'
    BY <1>1, <1>2, <1>4, <1>5 DEF TypeOK, IndInv
  <1>7. \A g \in grants : g.addr \in Nat /\ g.end \in Nat /\ g.addr <= g.end /\ g.end <= base
    BY DEF IndInv, TypeOK, FreeAboveGrants
  <1>8. FreeAboveGrants'
    BY <1>1, <1>2, <1>3, <1>4, <1>7 DEF FreeAboveGrants
  <1>9. GrantsDisjoint'
    BY <1>1, <1>2, <1>3, <1>4, <1>7 DEF GrantsDisjoint, IndInv, Disjoint
  <1> QED
    BY <1>6, <1>8, <1>9 DEF IndInv

\* Every request leaves the free range above the regions handed out.
LEMMA NextKeeps ==
    ASSUME IndInv, [Next]_vars
    PROVE  IndInv'
  <1>1. CASE PhysAllocInit
    <2>1. base' = RamBase /\ top' = RamBase + RamSize /\ nr_regions' = 0 /\ grants' = {}
      BY <1>1 DEF PhysAllocInit, IndInv, FreeAboveGrants
    <2>2. alignMin' = alignMin /\ aborted' = aborted
      BY <1>1 DEF PhysAllocInit
    <2> QED
      BY <2>1, <2>2 DEF IndInv, TypeOK, GrantsDisjoint, FreeAboveGrants
  <1>2. ASSUME NEW a \in Aligns, PhysAllocSetMinimumAlignment(a)
        PROVE  IndInv'
    BY <1>2 DEF PhysAllocSetMinimumAlignment, IndInv, TypeOK, GrantsDisjoint,
                FreeAboveGrants, Disjoint
  <1>3. ASSUME NEW a \in Aligns, NEW s \in 0..MaxSize, Memalign(a, s)
        PROVE  IndInv'
    <2> DEFINE al == IF a <= PtrSize THEN PtrSize ELSE a
               blk == IF al > alignMin THEN al ELSE alignMin
               sz == BlockSize(a, s)
    <2>1. alignMin \in Aligns /\ alignMin \in Nat \ {0}
      BY DEF IndInv, TypeOK
    <2>2. blk \in Nat \ {0}
      BY <2>1
    <2>3. sz \in Nat
      <3> DEFINE want == (IF a <= PtrSize THEN s ELSE s + a - 1) + Meta
      <3>1. want \in Nat
        OBVIOUS
      <3> HIDE DEF want
      <3>2. Align(want, alignMin) \in Nat
        BY <3>1, <2>1, AlignUp
      <3> QED
        BY <3>2 DEF BlockSize, want
    <2>4. EarlyMemalign(sz, blk) /\ UNCHANGED <<top, alignMin>>
      BY <1>3 DEF Memalign
    <2> HIDE DEF sz, blk
    <2>5. aborted' \in BOOLEAN
      BY <2>4 DEF EarlyMemalign
    <2>6. CASE base < TopSafe /\ Fits(sz, blk)
      <3>1. Take(sz, blk)
        BY <2>4, <2>6 DEF EarlyMemalign
      <3>2. top # 0
        BY <2>6 DEF TopSafe, IndInv, TypeOK
      <3> QED
        BY <2>2, <2>3, <2>4, <2>5, <2>6, <3>1, <3>2, TakeKeeps
    <2>7. CASE ~(base < TopSafe /\ Fits(sz, blk))
      <3>1. UNCHANGED <<base, nr_regions, grants>>
        BY <2>4, <2>7 DEF EarlyMemalign
      <3> QED
        BY <3>1, <2>4, <2>5 DEF IndInv, TypeOK, GrantsDisjoint, FreeAboveGrants, Disjoint
    <2> QED
      BY <2>6, <2>7
  <1>4. CASE PhysAllocGetUnused
    <2> DEFINE new == [addr |-> base, end |-> top]
    <2>1. /\ base' = top /\ top' = top
          /\ nr_regions' = nr_regions + 1
          /\ grants' = grants \cup {new}
          /\ alignMin' = alignMin /\ aborted' = aborted
          /\ base # top
      BY <1>4 DEF PhysAllocGetUnused
    <2>2. base \in Nat /\ top \in Nat /\ top = RamBase + RamSize /\ RamBase <= base /\ base <= top
      BY <2>1 DEF IndInv, TypeOK, FreeAboveGrants
    <2>3. \A g \in grants : g.addr \in Nat /\ g.end \in Nat /\ g.addr <= g.end /\ g.end <= base
      BY DEF IndInv, TypeOK, FreeAboveGrants
    <2>4. TypeOK'
      BY <2>1, <2>2 DEF IndInv, TypeOK
    <2>5. FreeAboveGrants'
      BY <2>1, <2>2, <2>3 DEF FreeAboveGrants
    <2>6. GrantsDisjoint'
      BY <2>1, <2>2, <2>3 DEF GrantsDisjoint, IndInv, Disjoint
    <2> QED
      BY <2>4, <2>5, <2>6 DEF IndInv
  <1>5. CASE UNCHANGED vars
    BY <1>5 DEF vars, IndInv, TypeOK, GrantsDisjoint, FreeAboveGrants, Disjoint
  <1> QED
    BY <1>1, <1>2, <1>3, <1>4, <1>5 DEF Next

\* Before phys_alloc_init there is no memory to give.
LEMMA InitHolds == Init => IndInv
  <1> SUFFICES ASSUME Init PROVE IndInv
    OBVIOUS
  <1>1. base = 0 /\ top = 0 /\ nr_regions = 0 /\ alignMin = DefaultAlign /\ grants = {}
    BY DEF Init
  <1>2. aborted \in BOOLEAN
    BY DEF Init
  <1>3. TypeOK
    BY <1>1, <1>2 DEF TypeOK
  <1>4. GrantsDisjoint /\ FreeAboveGrants
    BY <1>1 DEF GrantsDisjoint, FreeAboveGrants
  <1> QED
    BY <1>3, <1>4 DEF IndInv

\* alloc_phys.c never hands out the same memory twice nor memory outside
\* the range it was given, with or without the 32-bit limit.
THEOREM GrantsDisjointCorrect == Spec => []GrantsDisjoint
  <1>1. Init => IndInv
    BY InitHolds
  <1>2. IndInv /\ [Next]_vars => IndInv'
    BY NextKeeps
  <1>3. IndInv => GrantsDisjoint
    BY DEF IndInv
  <1> QED
    BY <1>1, <1>2, <1>3, PTL DEF Spec

-----------------------------------------------------------------------------
(* What rounding up yields: a multiple. *)

LEMMA DivMod ==
    ASSUME NEW x \in Int, NEW a \in Nat \ {0}
    PROVE  \E q \in Int : x = a * q + (x % a)
  <1>1. x = a * (x \div a) + (x % a) /\ x \div a \in Int
    OBVIOUS
  <1> QED
    BY <1>1

LEMMA MultipleMod ==
    ASSUME NEW q \in Int, NEW a \in Nat \ {0}
    PROVE  (a * q) % a = 0
  OBVIOUS

LEMMA ModMultiple ==
    ASSUME NEW x \in Int, NEW a \in Nat \ {0}, x % a = 0
    PROVE  \E q \in Int : x = a * q
  <1>1. PICK q \in Int : x = a * q + (x % a)
    BY DivMod
  <1>2. a * q \in Int
    OBVIOUS
  <1>3. x = a * q
    BY <1>1, <1>2
  <1> QED
    BY <1>3

\* ALIGN(x, a) is a multiple of a ...
LEMMA AlignMultiple ==
    ASSUME NEW x \in Int, NEW a \in Nat \ {0}
    PROVE  Align(x, a) % a = 0
  <1> DEFINE y == -x
             r == y % a
  <1>1. y \in Int /\ r \in Int /\ x = -y
    OBVIOUS
  <1>2. PICK q \in Int : y = a * q + r
    BY <1>1, DivMod
  <1>3. a * q \in Int /\ a * (-q) = -(a * q) /\ -q \in Int
    OBVIOUS
  <1>4. Align(x, a) = x + r
    BY DEF Align
  <1> HIDE DEF y, r
  <1>5. Align(x, a) = a * (-q)
    BY <1>1, <1>2, <1>3, <1>4
  <1> QED
    BY <1>3, <1>5, MultipleMod

\* ... and x itself when x is one.
LEMMA AlignOfMultiple ==
    ASSUME NEW x \in Int, NEW a \in Nat \ {0}, x % a = 0
    PROVE  Align(x, a) = x
  <1>1. PICK q \in Int : x = a * q
    BY ModMultiple
  <1>2. -x = a * (-q) /\ -q \in Int
    BY <1>1
  <1>3. (-x) % a = 0
    BY <1>2, MultipleMod
  <1> QED
    BY <1>3 DEF Align

\* A multiple of a block's alignment, with the two words of metadata added,
\* is a multiple of the size of a word.
LEMMA MetaAligned ==
    ASSUME NEW x \in Int, NEW a \in Nat \ {0}, x % a = 0, a % PtrSize = 0
    PROVE  (x + Meta) % PtrSize = 0
  <1>1. PtrSize \in Nat \ {0} /\ a \in Int
    OBVIOUS
  <1>2. PICK q \in Int : x = a * q
    BY ModMultiple
  <1>3. PICK r \in Int : a = PtrSize * r
    BY <1>1, ModMultiple
  <1>4. x + Meta = PtrSize * (r * q + 2) /\ r * q + 2 \in Int
    BY <1>1, <1>2, <1>3
  <1> QED
    BY <1>1, <1>4, MultipleMod

\* The address and the length of a block, from those of its region.
LEMMA MemalignFits ==
    ASSUME IndInv, NEW a \in Aligns, NEW s \in 0..MaxSize, Memalign(a, s), ~aborted',
           block'.p # NULL
    PROVE  BlockFits'
  <1> DEFINE align == IF a <= PtrSize THEN PtrSize ELSE a
             blk == IF align > alignMin THEN align ELSE alignMin
             want == (IF a <= PtrSize THEN s ELSE s + a - 1) + Meta
             sz == BlockSize(a, s)
             p == EarlyAddr(sz, blk)
             mem == UserAddr(p, align)
  <1>1. block' = [p |-> p, size |-> sz, align |-> align, mem |-> mem, len |-> s]
    BY DEF Memalign
  <1>2. /\ alignMin \in Aligns /\ alignMin \in Nat \ {0} /\ base \in Nat
        /\ align \in Aligns /\ align \in Nat \ {0}
        /\ blk \in Aligns /\ blk \in Nat \ {0} /\ PtrSize <= blk
    BY DEF IndInv, TypeOK
  <1>3. want \in Nat
    OBVIOUS
  <1>4. sz \in Nat /\ want <= sz
    <2> HIDE DEF want
    <2>1. sz = Align(want, alignMin)
      BY DEF BlockSize, want
    <2> HIDE DEF sz
    <2> QED
      BY <1>2, <1>3, <2>1, AlignUp
  <1>5. p = Align(base, blk) /\ p \in Nat /\ p % blk = 0
    <2>1. p # NULL
      BY <1>1
    <2>2. p = Align(base, blk)
      BY <2>1 DEF EarlyAddr
    <2> HIDE DEF p, blk
    <2> QED
      BY <1>2, <2>2, AlignUp, AlignMultiple
  <1>6. mem = Align(p + Meta, align)
    BY DEF UserAddr
  <1>7. mem \in Nat /\ p + Meta <= mem /\ mem < p + Meta + align /\ mem % align = 0
    <2> DEFINE m == p + Meta
    <2>1. m \in Nat /\ m \in Int
      BY <1>5
    <2>2. mem = Align(m, align)
      BY <1>6
    <2> HIDE DEF m, align, mem
    <2>3. Align(m, align) % align = 0
      BY <1>2, <2>1, AlignMultiple
    <2>4. Align(m, align) \in Nat /\ m <= Align(m, align) /\ Align(m, align) < m + align
      BY <1>2, <2>1, AlignUp
    <2> QED
      BY <2>2, <2>3, <2>4 DEF m
  <1>8. mem + s <= p + sz
    <2>1. CASE a <= PtrSize
      <3>1. blk % PtrSize = 0
        BY <1>2, PowerAssumption
      <3>2. (p + Meta) % PtrSize = 0
        <4> HIDE DEF p, blk
        <4> QED
          BY <1>2, <1>5, <3>1, MetaAligned
      <3>3. p + Meta \in Int /\ align = PtrSize
        BY <1>5, <2>1
      <3>4. mem = p + Meta
        <4> HIDE DEF p, mem, align
        <4> QED
          BY <1>6, <3>2, <3>3, AlignOfMultiple
      <3>5. want = s + Meta
        BY <2>1
      <3> HIDE DEF p, mem, sz, want
      <3> QED
        BY <1>4, <1>5, <3>4, <3>5
    <2>2. CASE a > PtrSize
      <3>1. want = s + a - 1 + Meta /\ align = a
        BY <2>2
      <3> HIDE DEF p, mem, sz, want, align
      <3> QED
        BY <1>2, <1>4, <1>5, <1>7, <3>1
    <2> QED
      BY <2>1, <2>2
  <1> HIDE DEF p, mem, sz, align
  <1> QED
    BY <1>1, <1>5, <1>7, <1>8 DEF BlockFits

\* What malloc and memalign (lib/alloc.c) return on top of the boot-time
\* allocator: the two words of metadata are in front of the memory, both are
\* inside the region, and the address is aligned as asked, for every memory,
\* alignment and size, also for small alignments, for which no slack is
\* asked for.
THEOREM BlockFitsCorrect == Spec => []BlockFits
  <1>1. Init => IndInv /\ BlockFits
    <2> SUFFICES ASSUME Init PROVE IndInv /\ BlockFits
      OBVIOUS
    <2>1. IndInv
      BY InitHolds
    <2>2. block = [p |-> 1, size |-> Meta, align |-> 1, mem |-> 1 + Meta, len |-> 0]
      BY DEF Init, NoBlock
    <2>3. (1 + Meta) % 1 = 0
      OBVIOUS
    <2>4. BlockFits
      BY <2>2, <2>3 DEF BlockFits
    <2> QED
      BY <2>1, <2>4
  <1>2. IndInv /\ BlockFits /\ [Next]_vars => IndInv' /\ BlockFits'
    <2> SUFFICES ASSUME IndInv, BlockFits, [Next]_vars PROVE BlockFits'
      BY NextKeeps
    <2>1. ASSUME NEW a \in Aligns, NEW s \in 0..MaxSize, Memalign(a, s)
          PROVE  BlockFits'
      <3>1. CASE aborted'
        BY <2>1, <3>1 DEF Memalign, BlockFits
      <3>2. CASE ~aborted' /\ block'.p # NULL
        BY <2>1, <3>2, MemalignFits
      <3>3. CASE block'.p = NULL
        BY <3>3 DEF BlockFits
      <3> QED
        BY <3>1, <3>2, <3>3
    <2>2. CASE block' = block
      BY <2>2 DEF BlockFits
    <2> QED
      BY <2>1, <2>2 DEF Next, vars, PhysAllocInit, PhysAllocSetMinimumAlignment, PhysAllocGetUnused
  <1> QED
    BY <1>1, <1>2, PTL DEF Spec
=============================================================================
