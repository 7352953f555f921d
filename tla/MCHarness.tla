------------------------------ MODULE MCHarness ------------------------------
(***************************************************************************)
(* Instances of TestRun and ArchRun for TLC: the scripts that prepare a    *)
(* test, run it and judge it.  They meet in an exit status and a file, so  *)
(* one of them runs at a time.                                             *)
(***************************************************************************)
EXTENDS TestRun, ArchRun

VARIABLE part

all == <<part, vars, errataVars, migrationVars>>

TestRunOff ==
    /\ st = "off" /\ conf = 0 /\ opts = 0 /\ via = 0 /\ code = 0 /\ line = 0 /\ status = 0
    /\ tests = 0 /\ failures = 0 /\ xfailures = 0 /\ skipped = 0 /\ prefixes = 0 /\ summary = 0
    /\ stderr = 0 /\ ret = 0 /\ verdict = "off" /\ truth = "off"

ErrataOff ==
    /\ done = FALSE /\ kernel = 0 /\ minver = 0 /\ default = 0 /\ env = 0
    /\ file = 0 /\ given = 0 /\ initrd = 0 /\ user = 0

HarnessInit ==
    /\ MigrationInit
    /\ \/ part = "test" /\ Init /\ ErrataOff
       \/ part = "errata" /\ ErrataInit /\ TestRunOff
       \/ part = "migration" /\ TestRunOff /\ ErrataOff

\* A step of one part leaves the others alone.
Testing(A) == part = "test" /\ A /\ UNCHANGED <<part, errataVars, migrationVars>>
Probing(A) == part = "errata" /\ A /\ UNCHANGED <<part, vars, migrationVars>>
Migrating(A) == part = "migration" /\ A /\ UNCHANGED <<part, vars, errataVars>>

HarnessNext ==
    \/ Testing(Next)
    \/ Probing(ErrataNext)
    \/ Migrating(MigrationNext)

\* The fairness of run_migration; the other two need none.
HarnessSpec ==
    /\ HarnessInit /\ [][HarnessNext]_all
    /\ WF_all(Migrating(Script)) /\ WF_all(Migrating(Ask))
    /\ WF_all(Migrating(ReadKey)) /\ WF_all(Migrating(GuestEnds))
    /\ WF_all(Migrating(Listen)) /\ WF_all(Migrating(Transfer))

\* What the scripts print and return about a test (lib/report.c, runtime.bash,
\* arch-run.bash): a pass is earned, and a status means what it says.  See
\* TestRun.
VerdictMeant == PassIsEarned /\ StatusIsMeant

\* The errata environment and the migration of arch-run.bash: the version
\* decides about an erratum unless the user does, and the status is that of
\* the migrated guest.  See ArchRun.
ScriptsRight == ErrataDecided /\ ReturnsGuestStatus

\* The migration script ends, see ArchRun.
ScriptEnds == part = "migration" => MigrationEnds
=============================================================================
