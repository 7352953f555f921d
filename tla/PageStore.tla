------------------------------ MODULE PageStore ------------------------------
(***************************************************************************)
(* What a page allocator promises: a page is free, or one CPU has it, or   *)
(* it is lost for good (the tail that page_free does not give back).       *)
(***************************************************************************)
EXTENDS FiniteSets

CONSTANTS CPU, Page

VARIABLES free, held, lost

storeVars == <<free, held, lost>>

StoreInit ==
    /\ free = {}
    /\ lost = {}
    /\ held \in {[c \in CPU |-> IF c = b THEN Page ELSE {}] : b \in CPU}

\* A CPU gets pages that were free (S is a set of free pages) ...
Take(c, S) ==
    /\ held' = [held EXCEPT ![c] = @ \cup S]
    /\ UNCHANGED lost
    /\ free' = free \ S

\* ... and gives back pages that it has (S); some of them (T) may be lost.
Give(c, S, T) ==
    /\ held' = [held EXCEPT ![c] = @ \ S]
    /\ lost' = lost \cup T
    /\ free' = free \cup (S \ T)

StoreNext ==
    \E c \in CPU :
        \/ \E S \in SUBSET free : Take(c, S)
        \/ \E S \in SUBSET held[c] : \E T \in SUBSET S : Give(c, S, T)

StoreSpec == StoreInit /\ [][StoreNext]_storeVars

StoreTypeOK ==
    /\ free \subseteq Page
    /\ lost \subseteq Page
    /\ held \in [CPU -> SUBSET Page]

\* A page has one place: the free list, one CPU, or the lost pages.
Partition ==
    /\ free \cap lost = {}
    /\ \A c \in CPU : held[c] \cap (free \cup lost) = {}
    /\ \A c, d \in CPU : c # d => held[c] \cap held[d] = {}
    /\ \A p \in Page : p \in free \/ p \in lost \/ \E c \in CPU : p \in held[c]

=============================================================================
