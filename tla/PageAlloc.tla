------------------------------ MODULE PageAlloc ------------------------------
(***************************************************************************)
(* The page allocator of lib/alloc_page.c: a linked list of free pages     *)
(* that is threaded through the first word of each free page, and the      *)
(* alloc_ops that malloc() uses on top of it.                              *)
(*                                                                         *)
(* Memory is counted in pages.  Address 0 is NULL; it is mapped, and holds *)
(* the AP trampoline, so reading through it yields Junk.  A section under  *)
(* spin_lock without a loop is one step, the loop of alloc_pages is one    *)
(* step per iteration; the accesses of freelist outside the lock (lines    *)
(* 39, 60 and 80) are steps of their own.                                  *)
(***************************************************************************)
EXTENDS Integers, FiniteSets

CONSTANTS
    CPU,
    Lowest, Highest, \* bound: pages Lowest..Highest are the heap
    MaxOrder,   \* bound: largest order passed to alloc_pages
    Uses        \* how a program uses the allocator: a subset of Use

ASSUME CpuAssumption == CPU # {} /\ IsFiniteSet(CPU)
ASSUME HeapAssumption == Lowest \in Nat \ {0} /\ Highest \in Nat /\ Lowest <= Highest
ASSUME OrderAssumption == MaxOrder \in Nat

\* What arithmetic says of powers: they are positive, and one is at least n
\* and less than 2n.
ASSUME PowersAssumption ==
    /\ \A o \in 0..MaxOrder : 2^o \in Nat \ {0}
    /\ \A n \in 1..2^MaxOrder :
          /\ \A o \in 0..n : 2^o \in Nat \ {0}
          /\ \E o \in 0..n : 2^o >= n /\ (o = 0 \/ 2^(o - 1) < n)

\* The CPUs that call it, the boot CPU among them; the entry points that they
\* call; and whether callers keep their demand below the supply.
Use == [cpus : SUBSET CPU, ops : SUBSET {"page", "pages", "memalign"}, spare : BOOLEAN]
ASSUME UsesAssumption == Uses \subseteq Use

\* One CPU uses the allocator, in any way; or several take single pages, and
\* never more than there are.
Orderly ==
    \A u \in Uses : \/ \E c \in CPU : u.cpus \subseteq {c}
                    \/ u.ops \subseteq {"page"} /\ u.spare

Page == Lowest..Highest
NPages == Highest - Lowest + 1
Nil == 0
Junk == Highest + 1
Word == Page \cup {Nil}     \* the addresses a word can be read from
Address == Word \cup {Junk}
NoCpu == "no cpu"

VARIABLES
    use,        \* the use that is made of it
    freelist,   \* head of the list
    word,       \* word[p]: the first word of page p
    lock,       \* who walks the list in alloc_pages
    pc,
    nr, asked,  \* per CPU: 1 << order, and the size that page_memalign was asked for
    next, curr, run, run_start, run_prev, run_next_pa,  \* per CPU: the locals of alloc_pages
    rank,       \* ghost: how many pages of the list start at p; 0 if it is not on it
    held,       \* ghost: pages the CPU got and did not give back
    chunks,     \* ghost: what page_memalign returned, as <<base, size>>
    lost,       \* ghost: pages nobody can give back any more
    fault       \* a dereference of Junk

search == <<nr, asked, next, curr, run, run_start, run_prev, run_next_pa>>
ghosts == <<rank, held, chunks, lost>>
pageVars == <<use, freelist, word, lock, pc, search, ghosts, fault>>

Boot == CHOOSE c \in CPU : TRUE

\* The pages p, p + 1, ..., p + n - 1.
Run(p, n) == p..(p + n - 1)

\* At start the list is empty and the boot CPU has the heap to give.
PageInit ==
    /\ use \in Uses
    /\ freelist = Nil
    /\ word = [p \in Word |-> Junk]
    /\ lock = NoCpu
    /\ pc = [c \in CPU |-> "idle"]
    /\ nr = [c \in CPU |-> 1]
    /\ asked = [c \in CPU |-> 0]
    /\ next = [c \in CPU |-> Nil]
    /\ curr = [c \in CPU |-> Nil]
    /\ run = [c \in CPU |-> 0]
    /\ run_start = [c \in CPU |-> Nil]
    /\ run_prev = [c \in CPU |-> Nil]
    /\ run_next_pa = [c \in CPU |-> Nil]
    /\ rank = [p \in Page |-> 0]
    /\ held = [c \in CPU |-> IF c = Boot THEN Page ELSE {}]
    /\ chunks = [c \in CPU |-> {}]
    /\ lost = {}
    /\ fault = FALSE

Pending == {c \in CPU : pc[c] # "idle"}
Allocated == lost \cup UNION {held[c] : c \in CPU}
MayAsk(n) == use.spare => Cardinality(Allocated) + Cardinality(Pending) + n <= NPages

\* The length of the list from address a on.
RankOf(a) == IF a \in Page THEN rank[a] ELSE 0

\* Mutant: the size is rounded down, so the block is too small.
OrderOf_RoundDown(n) == CHOOSE o \in 0..n : 2^o <= n /\ 2^(o + 1) > n

\* page_memalign rounds the size up to a power of two.
OrderOf(n) == CHOOSE o \in 0..n : 2^o >= n /\ (o = 0 \/ 2^(o - 1) < n)

\* The pages alloc_pages took for a block, and the ones its owner knows of.
Whole(b) == Run(b[1], 2^OrderOf(b[2]))
Asked(b) == Run(b[1], b[2])

\* c is not inside a call; the lock is free.
Idle(c) == pc[c] = "idle" /\ ~fault
Unlocked == lock = NoCpu

-----------------------------------------------------------------------------
(* Giving pages back. *)

\* free_pages: mem is linked in front, page by page.  A size of 0 empties
\* the list, without the lock; setup_vm may do that before there is one.
FreePagesTo(p, n) ==
    IF n = 0
    THEN freelist' = Nil /\ UNCHANGED <<word, rank>>
    ELSE /\ Unlocked
         /\ freelist' = p
         /\ word' = [q \in Word |->
                       IF q \in Run(p, n - 1) THEN q + 1
                       ELSE IF q = p + n - 1 THEN freelist
                       ELSE word[q]]
         /\ rank' = [q \in Page |->
                       IF q \in Run(p, n) THEN RankOf(freelist) + (p + n - q) ELSE rank[q]]

FreePages(c, p, n) ==
    /\ Idle(c)
    /\ Run(p, n) \subseteq held[c]
    /\ \A b \in chunks[c] : Run(p, n) \cap Whole(b) = {}
    /\ n = 0 => freelist = Nil
    /\ FreePagesTo(p, n)
    /\ held' = [held EXCEPT ![c] = @ \ Run(p, n)]
    /\ UNCHANGED <<use, lock, pc, search, chunks, lost, fault>>

FreePage(c, p) ==
    /\ Idle(c) /\ Unlocked
    /\ p \in held[c]
    /\ \A b \in chunks[c] : p \notin Whole(b)
    /\ word' = [word EXCEPT ![p] = freelist]
    /\ freelist' = p
    /\ rank' = [rank EXCEPT ![p] = RankOf(freelist) + 1]
    /\ held' = [held EXCEPT ![c] = @ \ {p}]
    /\ UNCHANGED <<use, lock, pc, search, chunks, lost, fault>>

\* page_free gives back the size that was asked for.
PageFree(c, b) ==
    /\ Idle(c)
    /\ b \in chunks[c]
    /\ FreePagesTo(b[1], b[2])
    /\ held' = [held EXCEPT ![c] = @ \ Whole(b)]
    /\ lost' = lost \cup (Whole(b) \ Asked(b))
    /\ chunks' = [chunks EXCEPT ![c] = @ \ {b}]
    /\ UNCHANGED <<use, lock, pc, search, fault>>

-----------------------------------------------------------------------------
(* alloc_page *)

\* Mutant: no test for an empty list.
AllocPageCheck_Dropped(c) ==
    /\ "page" \in use.ops
    /\ Idle(c)
    /\ MayAsk(1)
    /\ pc' = [pc EXCEPT ![c] = "pop"]
    /\ UNCHANGED <<use, freelist, word, lock, search, ghosts, fault>>

\* if (!freelist) return 0; the lock is not held.
AllocPageCheck(c) ==
    /\ "page" \in use.ops
    /\ Idle(c)
    /\ MayAsk(1)
    /\ pc' = [pc EXCEPT ![c] = IF freelist = Nil THEN "idle" ELSE "pop"]
    /\ UNCHANGED <<use, freelist, word, lock, search, ghosts, fault>>

\* Mutant: p is returned, freelist is not advanced.
AllocPagePop_NoAdvance(c) ==
    /\ pc[c] = "pop" /\ ~fault /\ Unlocked
    /\ freelist \in Page
    /\ held' = [held EXCEPT ![c] = @ \cup {freelist}]
    /\ pc' = [pc EXCEPT ![c] = "idle"]
    /\ UNCHANGED <<use, freelist, word, lock, search, rank, chunks, lost, fault>>

\* p = freelist; freelist = *freelist, whatever freelist is by now.
AllocPagePop(c) ==
    /\ pc[c] = "pop" /\ ~fault /\ Unlocked
    /\ fault' = (freelist = Junk)
    /\ freelist' = IF freelist = Junk THEN Junk ELSE word[freelist]
    /\ rank' = [p \in Page |-> IF p = freelist THEN 0 ELSE rank[p]]
    /\ held' = [held EXCEPT ![c] = @ \cup ({freelist} \cap Page)]
    /\ pc' = [pc EXCEPT ![c] = "idle"]
    /\ UNCHANGED <<use, word, lock, search, chunks, lost>>

-----------------------------------------------------------------------------
(* alloc_pages *)

\* void *next = freelist, before the lock is taken; the other locals are 0.
AllocPagesRead(c, o, n) ==
    /\ Idle(c)
    /\ MayAsk(2^o)
    /\ nr' = [nr EXCEPT ![c] = 2^o]
    /\ asked' = [asked EXCEPT ![c] = n]
    /\ next' = [next EXCEPT ![c] = freelist]
    /\ pc' = [pc EXCEPT ![c] = "lock"]
    /\ UNCHANGED <<use, freelist, word, lock, curr, run, run_start, run_prev, run_next_pa, ghosts,
                   fault>>

\* alloc_pages gives up the lock and its locals.
Return(c) ==
    /\ lock' = NoCpu
    /\ pc' = [pc EXCEPT ![c] = "idle"]
    /\ nr' = [nr EXCEPT ![c] = 1]
    /\ asked' = [asked EXCEPT ![c] = 0]
    /\ next' = [next EXCEPT ![c] = Nil]
    /\ curr' = [curr EXCEPT ![c] = Nil]
    /\ run' = [run EXCEPT ![c] = 0]
    /\ run_start' = [run_start EXCEPT ![c] = Nil]
    /\ run_prev' = [run_prev EXCEPT ![c] = Nil]
    /\ run_next_pa' = [run_next_pa EXCEPT ![c] = Nil]

AllocPages(c) ==
    "pages" \in use.ops /\ \E o \in 0..MaxOrder : AllocPagesRead(c, o, 0)

PageMemalign(c) ==
    "memalign" \in use.ops /\ \E n \in 1..2^MaxOrder : AllocPagesRead(c, OrderOf(n), n)

SpinLock(c) ==
    /\ pc[c] = "lock" /\ ~fault /\ Unlocked
    /\ lock' = c
    /\ pc' = [pc EXCEPT ![c] = "scan"]
    /\ UNCHANGED <<use, freelist, word, search, ghosts, fault>>

\* prev = curr; curr = next; then a look at curr.
Scans(c) == pc[c] = "scan" /\ ~fault /\ next[c] \in Page

Advance(c) ==
    /\ curr' = [curr EXCEPT ![c] = next[c]]
    /\ next' = [next EXCEPT ![c] = word[next[c]]]

\* The first page of a run: it is aligned to the size of the block.
StartRun(c) ==
    /\ Scans(c)
    /\ run[c] = 0 /\ next[c] % nr[c] = 0
    /\ Advance(c)
    /\ run' = [run EXCEPT ![c] = 1]
    /\ run_start' = [run_start EXCEPT ![c] = next[c]]
    /\ run_prev' = [run_prev EXCEPT ![c] = curr[c]]
    /\ run_next_pa' = [run_next_pa EXCEPT ![c] = next[c] + 1]
    /\ pc' = [pc EXCEPT ![c] = IF nr[c] = 1 THEN "unlink" ELSE "scan"]
    /\ UNCHANGED <<use, freelist, word, lock, nr, asked, ghosts, fault>>

\* The next page of the run.
ExtendRun(c) ==
    /\ Scans(c)
    /\ run[c] > 0 /\ next[c] = run_next_pa[c]
    /\ Advance(c)
    /\ run' = [run EXCEPT ![c] = @ + 1]
    /\ run_next_pa' = [run_next_pa EXCEPT ![c] = @ + 1]
    /\ pc' = [pc EXCEPT ![c] = IF run[c] + 1 = nr[c] THEN "unlink" ELSE "scan"]
    /\ UNCHANGED <<use, freelist, word, lock, nr, asked, run_start, run_prev, ghosts, fault>>

\* A page that no run can use.  One that breaks a run does not start another.
BreakRun(c) ==
    /\ Scans(c)
    /\ IF run[c] = 0 THEN next[c] % nr[c] # 0 ELSE next[c] # run_next_pa[c]
    /\ Advance(c)
    /\ run' = [run EXCEPT ![c] = 0]
    /\ UNCHANGED <<use, freelist, word, lock, pc, nr, asked, run_start, run_prev, run_next_pa,
                   ghosts, fault>>

\* The end of the list: alloc_pages returns NULL.
GiveUp(c) ==
    /\ pc[c] = "scan" /\ ~fault /\ next[c] \notin Page
    /\ fault' = (next[c] = Junk)
    /\ Return(c)
    /\ UNCHANGED <<use, freelist, word, ghosts>>

\* run == n: the run leaves the list, and alloc_pages returns its first page.
Unlink(c) ==
    LET p == run_start[c]
        n == nr[c]
    IN  /\ pc[c] = "unlink" /\ ~fault
        /\ IF run_prev[c] # Nil
           THEN word' = [word EXCEPT ![run_prev[c]] = next[c]] /\ UNCHANGED freelist
           ELSE freelist' = next[c] /\ UNCHANGED word
        /\ rank' = [q \in Page |-> IF q \in Run(p, n) THEN 0
                                   ELSE IF rank[q] > rank[p] THEN rank[q] - n ELSE rank[q]]
        /\ held' = [held EXCEPT ![c] = @ \cup Run(p, n)]
        /\ chunks' = IF asked[c] = 0 THEN chunks
                     ELSE [chunks EXCEPT ![c] = @ \cup {<<p, asked[c]>>}]
        /\ Return(c)
        /\ UNCHANGED <<use, lost, fault>>

-----------------------------------------------------------------------------
\* The owner of a page writes to it.
UserWrite(c, p) ==
    /\ Idle(c)
    /\ p \in held[c]
    /\ word[p] # Junk
    /\ word' = [word EXCEPT ![p] = Junk]
    /\ UNCHANGED <<use, freelist, lock, pc, search, ghosts, fault>>

Scan(c) == StartRun(c) \/ ExtendRun(c) \/ BreakRun(c) \/ GiveUp(c) \/ Unlink(c)

PageNext ==
    \E c \in use.cpus :
        \/ AllocPageCheck(c) \/ AllocPagePop(c)
        \/ AllocPages(c) \/ PageMemalign(c) \/ SpinLock(c) \/ Scan(c)
        \/ \E p \in Page : FreePage(c, p) \/ UserWrite(c, p)
        \/ \E p \in Page : \E n \in 0..(Highest + 1 - p) : FreePages(c, p, n)
        \/ \E b \in chunks[c] : PageFree(c, b)

PageSpec == PageInit /\ [][PageNext]_pageVars

-----------------------------------------------------------------------------
(* Properties. *)

\* The pages on the list.
Free == {p \in Page : rank[p] > 0}

\* From freelist, links lead through every page of Free once and to NULL.
Linked ==
    /\ freelist \in Free \cup {Nil}
    /\ \A p \in Free :
          /\ rank[p] <= RankOf(freelist)
          /\ word[p] \in Free \cup {Nil}
          /\ RankOf(word[p]) = rank[p] - 1
    /\ \A p, q \in Free : rank[p] = rank[q] => p = q

\* A block of page_memalign is contiguous, aligned to its order, large
\* enough for the size that was asked for, and shares no page with another.
BlocksShaped ==
    \A c \in CPU : \A b \in chunks[c] :
        /\ b[1] % 2^OrderOf(b[2]) = 0
        /\ Asked(b) \subseteq held[c]
        /\ \A e \in chunks[c] : e # b => Asked(b) \cap Asked(e) = {}

\* No allocator call ever follows a pointer that a page's owner has
\* overwritten; the list is a list, and blocks are whole, aligned and apart.
PagesIntact == ~fault /\ Linked /\ BlocksShaped

\* The linked list, the locals and the ghosts implement the page store: a
\* call hands out free pages only, and a page never has two owners.
Store == INSTANCE PageStore WITH free <- Free
ImplementsStore == Store!StoreSpec

\* No page is on the free list and with a CPU, or with two CPUs.
ExclusiveOwner ==
    /\ \A c \in CPU : held[c] \cap Free = {}
    /\ \A c, d \in CPU : c # d => held[c] \cap held[d] = {}

-----------------------------------------------------------------------------
(* The inductive invariant, for orderly uses. *)

PcValues == {"idle", "pop", "lock", "scan", "unlink"}

PageTypeOK ==
    /\ use \in Uses
    /\ freelist \in Address
    /\ word \in [Word -> Address]
    /\ pc \in [CPU -> PcValues]
    /\ nr \in [CPU -> Nat \ {0}]
    /\ asked \in [CPU -> Nat]
    /\ next \in [CPU -> Address]
    /\ curr \in [CPU -> Address]
    /\ run \in [CPU -> Nat]
    /\ run_start \in [CPU -> Address]
    /\ run_prev \in [CPU -> Address]
    /\ run_next_pa \in [CPU -> Int]
    /\ rank \in [Page -> Nat]
    /\ held \in [CPU -> SUBSET Page]
    /\ chunks \in [CPU -> SUBSET (Nat \X Nat)]
    /\ lost \subseteq Page

\* Every page is on the list, with one CPU, or lost.
Placed == Store!StoreTypeOK /\ Store!Partition

Calls ==
    \/ \E c \in CPU : /\ use.cpus \subseteq {c}
                      /\ \A d \in CPU : d # c => pc[d] = "idle"
                      /\ pc[c] = "pop" => freelist # Nil
    \/ /\ use.ops \subseteq {"page"} /\ use.spare
       /\ \A c \in CPU : pc[c] \in {"idle", "pop"} /\ chunks[c] = {}
       /\ Cardinality(Allocated) + Cardinality(Pending) <= NPages

\* What alloc_pages on c knows of the run it has found so far.
RunFound(c) ==
    LET p == run_start[c] IN
    /\ p \in Page /\ p % nr[c] = 0
    /\ curr[c] = p + run[c] - 1 /\ run_next_pa[c] = p + run[c]
    /\ \A q \in Run(p, run[c]) : q \in Free /\ rank[q] = rank[p] - (q - p)
    /\ run_prev[c] = Nil => p = freelist
    /\ run_prev[c] # Nil => run_prev[c] \in Free /\ word[run_prev[c]] = p

SearchAt(c) ==
    /\ pc[c] \in {"idle", "pop", "lock"} => curr[c] = Nil /\ run[c] = 0
    /\ pc[c] \in {"lock", "scan", "unlink"} =>
          /\ curr[c] = Nil => next[c] = freelist /\ run[c] = 0
          /\ curr[c] # Nil => curr[c] \in Free /\ next[c] = word[curr[c]]
          /\ asked[c] # 0 => nr[c] = 2^OrderOf(asked[c]) /\ asked[c] <= nr[c]
    /\ pc[c] = "scan" => run[c] < nr[c]
    /\ pc[c] = "unlink" => run[c] = nr[c]
    /\ run[c] > 0 => RunFound(c)

Search == \A c \in CPU : SearchAt(c)

Chunks ==
    \A c \in CPU : \A b \in chunks[c] :
        /\ b[2] \in Nat \ {0} /\ 2^OrderOf(b[2]) \in Nat
        /\ b[2] <= 2^OrderOf(b[2])
        /\ b[1] % 2^OrderOf(b[2]) = 0
        /\ Whole(b) \subseteq held[c]
        /\ \A e \in chunks[c] : e # b => Whole(b) \cap Whole(e) = {}

PageInv == PageTypeOK /\ ~fault /\ Linked /\ Placed /\ Calls /\ Search /\ Chunks
=============================================================================
