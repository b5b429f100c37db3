---------------------------- MODULE MCTaskRoutes ----------------------------
EXTENDS TaskRoutes
CONSTANTS alice, bob, carol, root, t1

Job(op, subject, task) == [op |-> op, subject |-> subject, task |-> task]

\* Two callers who may reuse one idempotency key, the approval of the other's
\* task, a cancel by one who may not write and a retry by the admin; the
\* requests pick freely, so two of them can ask for the same thing.
MixedJobs == {Job("create", alice, None), Job("create", bob, None),
              Job("approve", bob, t1), Job("cancel", carol, t1), Job("retry", root, t1)}
=============================================================================
