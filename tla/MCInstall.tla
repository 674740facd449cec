------------------------------- MODULE MCInstall -------------------------------
EXTENDS Uninstaller

Two == <<"root", "kernel">>
\* Both artifacts end in a hole. The builds share their version; they differ
\* in both artifacts, and only one of them splits the root file system.
TwoBuilds ==
    [one |-> [root |-> <<<<0, 1>>, <<0>>>>, kernel |-> <<<<0, 0>>>>],
     two |-> [root |-> <<<<1, 1, 0>>>>, kernel |-> <<<<0, 1>>>>]]
SameVersion == [one |-> "3.1", two |-> "3.1"]
Sizes == [root |-> 4, kernel |-> 0]
=============================================================================
