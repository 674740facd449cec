------------------------------ MODULE MCHostApi ------------------------------
(* Request sets of the runs: what callers may send, in any order and any     *)
(* number of times.                                                          *)
EXTENDS HostApi

Req(verb, op, gen, flag) == [verb |-> verb, op |-> op, gen |-> gen, flag |-> flag]

\* One life of a machine and the next: create, start, a stop, a second boot under
\* the first one's generation (refused) or its own, destroy, and a re-creation
\* that reuses an operation id; commands of the first life may arrive late.
LifecycleRequests ==
    {Req("create", "a", 1, FALSE), Req("start", "a", 1, FALSE), Req("force-stop", "a", 1, FALSE),
     Req("start", "b", 1, FALSE), Req("start", "c", 2, FALSE), Req("destroy", "a", 2, TRUE),
     Req("create", "b", 3, TRUE), Req("destroy", "a", 3, TRUE)}

\* A restore and two boots, and the guest reports of both.
BootRequests ==
    {Req("create", "a", 1, FALSE), Req("start", "a", 1, FALSE),
     Req("force-stop", "a", 1, FALSE), Req("restore", "a", 1, FALSE), Req("start", "b", 2, FALSE)}

\* Starts around a fence, and a restore.
FaultRequests ==
    {Req("create", "a", 1, FALSE), Req("start", "a", 1, FALSE), Req("fence", "a", 1, FALSE),
     Req("restore", "a", 1, FALSE)}

\* What could stay unresolved: a refused start, a snapshot of a machine that is
\* not stopped, a re-creation over a retained disk.
LiveRequests ==
    {Req("create", "a", 1, FALSE), Req("start", "a", 1, FALSE), Req("snapshot", "a", 1, FALSE),
     Req("shutdown", "a", 1, FALSE), Req("destroy", "a", 2, TRUE), Req("destroy", "b", 2, FALSE),
     Req("create", "b", 3, TRUE)}
=============================================================================
