------------------------------- MODULE ArchRun -------------------------------
(***************************************************************************)
(* What scripts/arch-run.bash does around a test, in two parts that do not *)
(* meet.                                                                   *)
(*                                                                         *)
(* env_add_errata and env_generate_errata: which ERRATA_<commit> variables *)
(* a test gets, from errata.txt, from the kernel's version, from the       *)
(* user's environment and from the user's environ file; and ERRATA() of    *)
(* lib/errata.h, which reads them.  A version is a sequence of at most     *)
(* four numbers, v.p.s-x; s and x may be missing.                          *)
(*                                                                         *)
(* run_migration: a source and a destination QEMU, the guest that moves    *)
(* from one to the other, and the script that watches the source's output  *)
(* and its monitor.  QEMU is external.                                     *)
(***************************************************************************)
EXTENDS Integers, Sequences

CONSTANTS
    Commit,     \* commits named in errata.txt
    MaxNumber   \* bound: numbers in a version

ASSUME NumberAssumption == MaxNumber \in Nat
\* A commit is named by hexadecimal digits.
ASSUME CommitAssumption == "FORCE" \notin Commit

Number == 0..MaxNumber
MinVersion == UNION {[1..n -> Number] : n \in 2..4}

\* uname -r always has three numbers.
KernelVersion == UNION {[1..n -> Number] : n \in 3..4}

Val == {"y", "n"}
Unset == "unset"
FORCE == "FORCE"
Name == Commit \cup {FORCE}
NoVars == [c \in Name |-> Unset]

VARIABLES
    kernel,     \* the host's version
    minver,     \* errata.txt: the minimum version for each commit
    default,    \* ENVIRON_DEFAULT = "yes"
    env,        \* ERRATA_ variables of the shell's environment; run_tests.sh -a
                \* exports ERRATA_FORCE=y
    file,       \* ERRATA_ lines of the environ file
    given,      \* whether the user gave an environ file
    initrd,     \* the ERRATA_ variables that the guest gets
    user,       \* ghost: env as it was
    done

errataVars == <<kernel, minver, default, env, file, given, initrd, user, done>>

ErrataInit ==
    /\ kernel \in KernelVersion
    /\ minver \in [Commit -> MinVersion]
    /\ default \in BOOLEAN
    /\ env \in [Name -> Val \cup {Unset}] /\ user = env
    /\ given \in BOOLEAN
    /\ file \in [Name -> Val \cup {Unset}]
    /\ ~given => file = NoVars
    /\ initrd = NoVars /\ done = FALSE

-----------------------------------------------------------------------------
Has(v, i) == Len(v) >= i

\* The comparison of the host's version k with a minimum m.
Have(k, m) ==
    IF k[1] > m[1] \/ (k[1] = m[1] /\ k[2] > m[2]) THEN "y"
    ELSE IF k[1] = m[1] /\ k[2] = m[2]
    THEN IF Has(k, 3) /\ Has(m, 3)
         THEN IF k[3] > m[3] THEN "y"
              ELSE IF k[3] = m[3]
              THEN IF Has(k, 4) /\ Has(m, 4)
                   THEN IF k[4] >= m[4] THEN "y" ELSE "n"
                   ELSE IF Has(m, 4) /\ m[4] # 0 THEN "n" ELSE "y"
              ELSE "n"
         ELSE IF Has(m, 3) /\ m[3] # 0 THEN "n" ELSE "y"
    ELSE "n"

\* env_generate_errata: a variable that is set already stays.
Generated ==
    [c \in Name |-> IF default /\ c # FORCE /\ env[c] = Unset
                    THEN Have(kernel, minver[c]) ELSE env[c]]

AnyErrata(e) == \E c \in Name : e[c] # Unset

\* Mutant: the file's line wins over the user's variable.
Imported_FileWins == [c \in Name |-> IF file[c] # Unset THEN file[c] ELSE env[c]]

\* The file's lines, for variables that are not set.
Imported == [c \in Name |-> IF env[c] = Unset THEN file[c] ELSE env[c]]

\* env_add_errata and initrd_create: the guest gets a new file with all
\* variables if there is one, else the user's file, else nothing.
EnvAddErrata ==
    LET e == IF given /\ AnyErrata(env) THEN Imported
             ELSE IF ~given THEN Generated
             ELSE env
    IN  /\ ~done
        /\ done' = TRUE
        /\ env' = e
        /\ initrd' = IF AnyErrata(e) THEN e ELSE file
        /\ UNCHANGED <<kernel, minver, default, file, given, user>>

\* errata() of lib/errata.h.
Errata(c) == initrd[FORCE] = "y" \/ initrd[c] = "y"

ErrataNext == EnvAddErrata
ErrataSpec == ErrataInit /\ [][ErrataNext]_errataVars

-----------------------------------------------------------------------------
(* Properties. *)

Part(v, i) == IF Has(v, i) THEN v[i] ELSE 0

\* The order of versions: the first number that differs decides.
AtLeast(k, m) ==
    \/ \A i \in 1..4 : Part(k, i) = Part(m, i)
    \/ \E i \in 1..4 : /\ Part(k, i) > Part(m, i)
                       /\ \A j \in 1..(i - 1) : Part(k, j) = Part(m, j)

\* "By default, when the user does not provide an environ, then an environ
\* generated from the errata.txt file and the host's kernel version is
\* provided" (README.md): the host's version decides, in the order of
\* versions, where nobody set the variable.
VersionDecides ==
    done /\ default /\ ~given /\ user[FORCE] # "y" =>
        \A c \in Commit : user[c] = Unset =>
            (Errata(c) <=> AtLeast(kernel, minver[c]))

\* "the unsafe unit test is only run when a) the ERRATA_abcdef012345 environ
\* variable is provided and 'y' b) the ERRATA_FORCE environ variable is
\* provided and 'y'" (README.md): the user's environment comes first, then
\* the user's file, and what they say reaches the guest.
UserDecides ==
    done => \A c \in Name :
        /\ user[c] # Unset => initrd[c] = user[c]
        /\ user[c] = Unset /\ given => initrd[c] = file[c]

\* What the guest is told comes from the user if the user says anything,
\* and otherwise from the kernel's version.
ErrataDecided == VersionDecides /\ UserDecides

-----------------------------------------------------------------------------
(* run_migration *)

CONSTANTS
    Timeouts,   \* whether timeout(1) may end a QEMU
    Aborts      \* whether the guest may abort before it asks to be migrated

Unknown == -1

VARIABLES
    pc,         \* the script
    src, dst,   \* "off", "starting", "running", "paused", "incoming", "exited"
    m_guest,    \* "booting", "asking", "reading", "ended"
    migout,     \* whether ${migout1} has the word
    mig,        \* the source's migration: "none", "active", "completed", "failed"
    migstatus,  \* what the script last read of it, "" if nobody answered
    fifo,       \* whether the key was written
    m_status,   \* the destination's exit status
    m_ret,
    result,     \* ghost: the status that the guest ended with
    timedout    \* ghost: whether timeout(1) ended a QEMU

migrationVars == <<pc, src, dst, m_guest, migout, mig, migstatus, fifo, m_status, m_ret, result, timedout>>
machines == <<src, dst, m_guest, mig, m_status, result, timedout>>
files == <<migout, fifo>>

MigrationInit ==
    /\ pc = "launch" /\ src = "off" /\ dst = "off" /\ m_guest = "booting"
    /\ migout = FALSE /\ mig = "none" /\ migstatus = "" /\ fifo = FALSE
    /\ m_status = Unknown /\ m_ret = Unknown /\ result = Unknown /\ timedout = FALSE

-----------------------------------------------------------------------------
(* The script. *)

Launch ==
    /\ pc = "launch" /\ pc' = "prompt"
    /\ src' = "running" /\ dst' = "starting"
    /\ UNCHANGED <<m_guest, mig, m_status, files, migstatus, m_ret, result, timedout>>

\* The loop on grep ends only when the word is there.
SawPrompt ==
    /\ pc = "prompt" /\ migout
    /\ pc' = "migrate"
    /\ UNCHANGED <<machines, files, migstatus, m_ret>>

\* "migrate" on the source's monitor; it needs somebody at ${migsock}.
Migrate ==
    /\ pc = "migrate" /\ pc' = "query"
    /\ mig' = IF src # "running" THEN mig
              ELSE IF dst = "incoming" THEN "active" ELSE "failed"
    /\ UNCHANGED <<src, dst, m_guest, m_status, files, migstatus, m_ret, result, timedout>>

Answer == IF src \in {"running", "paused"} THEN mig ELSE ""

Query ==
    /\ pc = "query" /\ pc' = "loop"
    /\ migstatus' = Answer
    /\ UNCHANGED <<machines, files, m_ret>>

QuitBoth ==
    /\ src' = IF src = "off" THEN src ELSE "exited"
    /\ dst' = IF dst = "incoming" THEN "exited" ELSE dst

\* Mutant: a failed migration is not noticed.
QueryAgain_NoFailed ==
    /\ pc = "loop" /\ migstatus # "completed"
    /\ migstatus' = Answer
    /\ UNCHANGED <<pc, machines, files, m_ret>>

\* The body of the second loop.
QueryAgain ==
    /\ pc = "loop" /\ migstatus # "completed"
    /\ migstatus' = Answer
    /\ IF Answer = "failed"
       THEN pc' = "done" /\ m_ret' = 2 /\ QuitBoth
       ELSE UNCHANGED <<pc, src, dst, m_ret>>
    /\ UNCHANGED <<m_guest, mig, m_status, files, result, timedout>>

\* Mutant: the loop is left as soon as the migration is under way.
Completed_Active == migstatus \in {"active", "completed"}

Completed == migstatus = "completed"

\* "quit" on the source's monitor.
QuitSource ==
    /\ pc = "loop" /\ Completed
    /\ pc' = "key"
    /\ src' = "exited"
    /\ UNCHANGED <<dst, m_guest, mig, m_status, files, migstatus, m_ret, result, timedout>>

PressKey ==
    /\ pc = "key" /\ pc' = "wait"
    /\ fifo' = TRUE
    /\ UNCHANGED <<machines, migout, migstatus, m_ret>>

\* wait $incoming_pid; ret=$?; wait
WaitIncoming ==
    /\ pc = "wait" /\ dst = "exited" /\ src = "exited"
    /\ pc' = "done" /\ m_ret' = m_status
    /\ UNCHANGED <<machines, files, migstatus>>

-----------------------------------------------------------------------------
(* The guest and QEMU. *)

On(q) == q = "running"

\* puts("Now migrate the VM, then press a key to continue...")
Ask ==
    /\ m_guest = "booting" /\ On(src)
    /\ m_guest' = "asking" /\ migout' = TRUE
    /\ UNCHANGED <<pc, src, dst, mig, m_status, fifo, migstatus, m_ret, result, timedout>>

\* getchar: the source's input is at its end, the destination's is the fifo.
ReadKey ==
    /\ m_guest = "asking" /\ On(dst) /\ fifo
    /\ m_guest' = "reading"
    /\ UNCHANGED <<pc, src, dst, mig, m_status, files, migstatus, m_ret, result, timedout>>

\* It succeeds, fails or aborts.
GuestEnds ==
    /\ m_guest = "reading" /\ On(dst)
    /\ m_guest' = "ended" /\ dst' = "exited"
    /\ \E s \in {0, 3, 127} : m_status' = s /\ result' = s
    /\ UNCHANGED <<pc, src, mig, files, migstatus, m_ret, timedout>>

GuestAborts ==
    /\ Aborts /\ m_guest = "booting" /\ On(src)
    /\ m_guest' = "ended" /\ src' = "exited" /\ result' = 127
    /\ UNCHANGED <<pc, dst, mig, m_status, files, migstatus, m_ret, timedout>>

Listen ==
    /\ dst = "starting" /\ dst' = "incoming"
    /\ UNCHANGED <<pc, src, m_guest, mig, m_status, files, migstatus, m_ret, result, timedout>>

Transfer ==
    /\ mig = "active" /\ src = "running" /\ dst = "incoming"
    /\ \/ mig' = "completed" /\ src' = "paused" /\ dst' = "running" /\ UNCHANGED m_status
       \/ mig' = "failed" /\ src' = src /\ dst' = "exited" /\ m_status' = 1
    /\ UNCHANGED <<pc, m_guest, files, migstatus, m_ret, result, timedout>>

\* timeout(1) around each QEMU.
TimeOut ==
    /\ Timeouts
    /\ \/ src \in {"running", "paused"} /\ src' = "exited" /\ UNCHANGED <<dst, m_status>>
       \/ dst \in {"starting", "incoming", "running"} /\ dst' = "exited" /\ m_status' = 124 /\ UNCHANGED src
    /\ timedout' = TRUE
    /\ UNCHANGED <<pc, m_guest, mig, files, migstatus, m_ret, result>>

Script ==
    \/ Launch \/ SawPrompt \/ Migrate \/ Query \/ QueryAgain \/ QuitSource
    \/ PressKey \/ WaitIncoming

World == Ask \/ ReadKey \/ GuestEnds \/ GuestAborts \/ Listen \/ Transfer

MigrationNext == Script \/ World \/ TimeOut
MigrationSpec == MigrationInit /\ [][MigrationNext]_migrationVars

-----------------------------------------------------------------------------
(* Properties. *)

\* The status that run_migration returns is 2 for a migration that failed,
\* and else that of the guest, read off the destination it had moved to:
\* the source is not ended and the key is not pressed while the guest is
\* still under way.
ReturnsGuestStatus ==
    pc = "done" => \/ m_ret = 2 /\ mig = "failed"
                   \/ m_ret \in {result, 124} /\ mig = "completed"

\* Unless a QEMU is timed out, or the guest ends before it asks, the script
\* ends, whether the migration succeeds or fails and however its steps fall
\* between the script's.
MigrationEnds == <>(pc = "done" \/ timedout \/ (m_guest = "ended" /\ ~migout))
=============================================================================
