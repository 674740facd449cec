----------------------------- MODULE HostApiReady -----------------------------
(***************************************************************************)
(* HostApi with a history variable: which launches of the machine the      *)
(* record has disowned.  The engine keeps no such number; it lists the     *)
(* boot ids it has heard of in previous_boot_ids, which must come to the   *)
(* same although it has not heard of them all.                             *)
(***************************************************************************)
EXTENDS HostApi

VARIABLE disowned   \* the launches there had been when a boot was last
                    \* prepared or an identity last minted

\* The record starts anew: a create, a restore, or a start that saw the machine off.
StartsAnew == mem'.prepared # mem.prepared \/ minted' # minted

Disowns == disowned' = IF StartsAnew THEN machine.boot ELSE disowned

ReadySpec ==
    /\ Init /\ disowned = 0
    /\ [][Next /\ Disowns]_<<vars, disowned>>

\* An answer that is ready rests on a report of a launch later than any the record
\* has disowned: whatever heartbeat comes late, of whichever boot, whatever is
\* retried, abandoned or crashes, and although guests power themselves off, no boot
\* from before the last prepared start, restore or creation makes the machine ready
\* (host-api.js:36-42, 232-238; host-storage.js:51-67).
ReadyIsNotDisowned ==
    \A status \in Statuses :
        Ready(mem, status) => disowned < mem.boot_id /\ mem.boot_id <= machine.boot

=============================================================================
