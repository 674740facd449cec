----------------------------- MODULE HostRuntime -----------------------------
(***************************************************************************)
(* What the native runtime (runtime/native/host.py) promises its only      *)
(* client, the engine, about ONE machine: the state it keeps and, for each *)
(* mutation, the set of outcomes the engine may meet.  Pure operators over *)
(* a machine record, so that the engine's module can hold the machine as a *)
(* variable and another module can check the supervisor against them.      *)
(*                                                                         *)
(* exists    machine.json is in place                                      *)
(* disk      birth token of the root disk, seed: token in identity.img     *)
(* power     the QEMU process: off, on, or told to quit and not yet gone   *)
(* boot      how many times QEMU was launched, cred: seed this boot read   *)
(* fenced    the runner's own permanent fence, in machine.json             *)
(* retained  a disk kept by destroy(delete_disk = false)                   *)
(***************************************************************************)
EXTENDS Naturals

Power == {"off", "on", "quitting"}

Machine == [exists: BOOLEAN, disk: Nat, seed: Nat, power: Power, boot: Nat,
            cred: Nat, fenced: BOOLEAN, retained: BOOLEAN]

NoMachine == [exists |-> FALSE, disk |-> 0, seed |-> 0, power |-> "off",
              boot |-> 0, cred |-> 0, fenced |-> FALSE, retained |-> FALSE]

(* ok: 2xx. gone: 404. limit: the 422 of the two admission limits.          *)
(* error: any other failure the engine cannot interpret (422, 503).         *)
CallReplies == {"ok", "gone", "limit", "error"}

CallKinds == {"create", "start", "shutdown", "force-stop", "destroy",
              "storage", "reseed", "fence", "restore", "snapshot"}

(* A describe that meets the machine is truthful or evasive, never wrong:   *)
(* "stopped" needs evidence that the process is gone, "running" an answer   *)
(* of its QMP socket, which a process told to quit no longer gives. While a *)
(* mutation holds the machine's lock it is always "unknown", whether or not *)
(* the machine exists.                                                      *)
Observed(m, busy) ==
    IF busy THEN {"unknown"}
    ELSE IF ~m.exists THEN {"gone"}
    ELSE CASE m.power = "off"      -> {"stopped"}
           [] m.power = "on"       -> {"running"}
           [] m.power = "quitting" -> {"starting"}

(* What it may answer besides: an uncertain status, no answer, or, of a     *)
(* live process, the other of the two live statuses.                        *)
Evasive(m) ==
    {"unknown", "error"} \cup IF m.power = "off" THEN {} ELSE {"running", "starting"}

Outcome(m, reply) == [machine |-> m, reply |-> reply]

Failure(m) == Outcome(m, "error")

(* create is idempotent for the same specification, which includes the      *)
(* registration token; the disk only appears by the final rename.           *)
Create(m, token) ==
    IF m.exists
    THEN {Outcome(m, IF m.disk = token THEN "ok" ELSE "error")}
    ELSE IF m.retained THEN {Failure(m)}
    ELSE {Outcome([m EXCEPT !.exists = TRUE, !.disk = token, !.seed = token,
                            !.power = "off", !.fenced = FALSE], "ok")}

Launch(m) == [m EXCEPT !.power = "on", !.boot = @ + 1, !.cred = m.seed]

(* Mutated form: the runner trusts the engine's fence and keeps none.       *)
StartMutant(m) ==
    IF ~m.exists THEN {Outcome(m, "gone")}
    ELSE IF m.power # "off" THEN {Outcome(m, "ok")}
    ELSE {Outcome(Launch(m), "ok"), Outcome(m, "limit")}

Start(m) ==
    IF ~m.exists THEN {Outcome(m, "gone")}
    ELSE IF m.fenced THEN {Failure(m)}
    ELSE IF m.power # "off" THEN {Outcome(m, "ok")}
    ELSE {Outcome(Launch(m), "ok"), Outcome(m, "limit")}

Quit(m) == IF m.power = "on" THEN [m EXCEPT !.power = "quitting"] ELSE m

(* system_powerdown only asks: the guest powers off later, or never. A       *)
(* process on its way out may no longer answer on its QMP socket, or have    *)
(* removed it: then the call fails, or finds no file.                        *)
Stop(m, force) ==
    IF ~m.exists THEN {Outcome(m, "gone")}
    ELSE {Outcome(IF force THEN Quit(m) ELSE m, "ok")}
         \cup IF m.power = "quitting" THEN {Failure(m), Outcome(m, "gone")} ELSE {}

Destroy(m, wipe) ==
    IF ~m.exists
    THEN {Outcome([m EXCEPT !.retained = @ /\ ~wipe], "ok")}
    ELSE IF m.power # "off" THEN {Failure(m)}
    ELSE {Outcome([NoMachine EXCEPT !.boot = m.boot, !.cred = m.cred,
                                    !.retained = m.retained \/ ~wipe], "ok")}

Reseed(m, token) ==
    IF ~m.exists THEN {Outcome(m, "gone")}
    ELSE IF m.power # "off" THEN {Failure(m)}
    ELSE {Outcome([m EXCEPT !.seed = token], "ok")}

(* snapshot and restore insist on a stopped machine. Neither touches the    *)
(* fields above: restore replaces the disk's content, and the seed image    *)
(* is rewritten by the reseed that follows it.                              *)
StoppedWork(m) ==
    IF ~m.exists THEN {Outcome(m, "gone")}
    ELSE {Outcome(m, IF m.power = "off" THEN "ok" ELSE "error")}

OtherStorage(m) == {Outcome(m, IF m.exists THEN "ok" ELSE "gone")}

(* The flag is durable first; success is only answered once QEMU is gone,   *)
(* which a hundred polls may be too few to see. Asking QEMU to quit can     *)
(* fail as in Stop.                                                         *)
Fence(m) ==
    IF ~m.exists THEN {Outcome(m, "gone")}
    ELSE LET f == [m EXCEPT !.fenced = TRUE]
         IN  {Outcome([f EXCEPT !.power = "off"], "ok")}
             \cup (IF m.power = "off" THEN {} ELSE {Failure(Quit(f))})
             \cup (IF m.power = "quitting" THEN {Outcome(f, "gone")} ELSE {})

(* What a failed mutation may leave behind: nothing, or a fence that could  *)
(* not reach QEMU.                                                          *)
Leftovers(kind, m) ==
    {m} \cup IF kind = "fence" /\ m.exists THEN {[m EXCEPT !.fenced = TRUE]} ELSE {}

(* How it is answered: a call that needs the QMP socket answers a machine     *)
(* without one as if the machine were missing.                                *)
Failed(kind) ==
    {"error"} \cup IF kind \in {"shutdown", "force-stop", "fence"} THEN {"gone"} ELSE {}

Outcomes(kind, m, token, wipe) ==
    CASE kind = "create"     -> Create(m, token)
      [] kind = "start"      -> Start(m)
      [] kind = "shutdown"   -> Stop(m, FALSE)
      [] kind = "force-stop" -> Stop(m, TRUE)
      [] kind = "destroy"    -> Destroy(m, wipe)
      [] kind = "reseed"     -> Reseed(m, token)
      [] kind = "fence"      -> Fence(m)
      [] kind \in {"snapshot", "restore"} -> StoppedWork(m)
      [] OTHER               -> OtherStorage(m)

(* The two ways a QEMU process ends on its own.                             *)
ProcessExits(m)  == IF m.power = "quitting" THEN [m EXCEPT !.power = "off"] ELSE m
GuestPowersOff(m) == IF m.power = "on" THEN [m EXCEPT !.power = "off"] ELSE m

=============================================================================
