------------------------------- MODULE Journal -------------------------------
(***************************************************************************)
(* What the engine's journal of operations promises for one managed id,    *)
(* whoever retries, crashes or answers late (README "Private cloud host    *)
(* API", docs/host-storage.md): operations are accepted one at a time and  *)
(* in generation order, each is resolved at most once, nothing accepted or *)
(* resolved is ever forgotten, and nothing below the current incarnation   *)
(* is ever accepted or resolved again.                                     *)
(***************************************************************************)
EXTENDS Naturals

CONSTANTS Requests,  \* requests, each with a verb, an op, a gen and a flag
          Results    \* settled results

VARIABLES gen,       \* the generation of the latest accepted operation
          inc,       \* the generation the current incarnation began with, or 0
          accepted,  \* the operations whose intent is recorded
          result     \* their results, "none" while unresolved

jvars == <<gen, inc, accepted, result>>

Unresolved == {r \in accepted : result[r] = "none"}

SameOperation(p, q) == p.verb = q.verb /\ p.op = q.op

Init ==
    /\ gen = 0 /\ inc = 0
    /\ accepted = {}
    /\ result = [r \in Requests |-> "none"]

\* An incarnation begins with a create of a strictly higher generation.
Incarnate(r) == \/ UNCHANGED inc
                \/ r.verb = "create" /\ r.gen > gen /\ inc' = r.gen

Accept(r) ==
    /\ Unresolved = {}
    /\ \A q \in accepted : ~SameOperation(q, r)
    /\ r.gen >= gen
    /\ gen' = r.gen
    /\ Incarnate(r)
    /\ accepted' = accepted \cup {r}
    /\ UNCHANGED result

Resolve(r, res) ==
    /\ r \in Unresolved
    /\ r.gen >= inc
    /\ result' = [result EXCEPT ![r] = res]
    /\ UNCHANGED <<gen, inc, accepted>>

Next == \E r \in Requests : Accept(r) \/ \E res \in Results : Resolve(r, res)

Spec == Init /\ [][Next]_jvars
=============================================================================
