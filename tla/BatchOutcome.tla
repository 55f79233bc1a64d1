---------------------------- MODULE BatchOutcome ----------------------------
(***************************************************************************)
(* The pure arithmetic of a batch's settlement (src/queue/batch-status.js): *)
(* how many failures a batch has, and which terminal status, if any, the   *)
(* three counters amount to.  Counters are natural numbers here: the code's *)
(* Math.max(0, Number(x) || 0) is the identity on what the database returns.*)
(***************************************************************************)
EXTENDS Integers

Larger(x, y)  == IF x >= y THEN x ELSE y
Smaller(x, y) == IF x <= y THEN x ELSE y

\* Failures the runs table cannot show are added from the queue's failed set,
\* and only when the table does not account for every requested job.
ResolveFailedCount(requested, completed, dbFailed, orphanFailed) ==
    IF completed + dbFailed < requested THEN dbFailed + orphanFailed ELSE dbFailed

Outstanding(requested, completed, failed) ==
    Larger(0, requested - (completed + failed))

Settled(requested, completed, failed, skipped) ==
    requested > 0 /\ completed + failed + skipped >= requested

\* What is reported as skipped: once settled, whatever produced no run.
SkippedCount(requested, completed, failed, skipped) ==
    LET outstanding == Outstanding(requested, completed, failed)
    IN  IF Settled(requested, completed, failed, skipped)
        THEN outstanding
        ELSE Smaller(skipped, outstanding)

\* A variant that takes a batch with unanswered leftovers for a completed one.
SettledIgnoringSkipped(requested, completed, failed, skipped) ==
    IF completed = 0
    THEN IF failed > 0 THEN "failed" ELSE "partial"
    ELSE IF failed > 0 THEN "partial" ELSE "completed"

\* The terminal status of a settled batch.
SettledStatus(requested, completed, failed, skipped) ==
    IF completed = 0
    THEN IF failed > 0 THEN "failed" ELSE "partial"
    ELSE IF failed > 0 \/ SkippedCount(requested, completed, failed, skipped) > 0
         THEN "partial"
         ELSE "completed"
=============================================================================
