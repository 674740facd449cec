------------------------------- MODULE MCRunner -------------------------------
EXTENDS Runner

\* Both machines at once exceed the memory, and would exceed two running.
Mb == [a |-> 2, b |-> 3]

\* The one machine is asked for everything; the other competes with it.
AllCalls ==
    [a |-> {Op(k, 1, FALSE) : k \in {"create", "start", "shutdown", "force-stop", "fence"}}
           \cup {Op("create", 2, FALSE), Op("reseed", 2, FALSE)}
           \cup {Op("destroy", 1, wipe) : wipe \in BOOLEAN},
     b |-> {Op("create", 1, FALSE), Op("start", 1, FALSE), Op("force-stop", 1, FALSE)}]
=============================================================================
