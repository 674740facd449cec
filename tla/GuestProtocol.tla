----------------------------- MODULE GuestProtocol -----------------------------
(***************************************************************************)
(* One computer's guest daemon (guest/mola-guest/internal/daemon) against  *)
(* the engine's half of the guest protocol (src/guest.js and the /guest    *)
(* routes of src/server.js): enrolment, heartbeats, the shutdown the       *)
(* engine asks for, reboots at any point, and disks that carry an earlier  *)
(* identity or another computer's.                                         *)
(*                                                                         *)
(* A request the daemon gave up waiting for may be handled later, and its  *)
(* answer is lost.  A crash of the engine drops what is in flight and      *)
(* forgets the heartbeat challenges, which decide nothing, so it is no     *)
(* action of its own.  The store's files are written whole, by rename.     *)
(***************************************************************************)
EXTENDS Naturals, FiniteSets

CONSTANTS
    Tokens,      \* machine tokens; a value nobody holds any more is used again
    MaxLate,     \* bound: requests in flight that nobody waits for
    MaxBoots,    \* bound: boots of the guest
    MaxRestores, \* bound: restores, each rotating the registration token
    MaxFaults    \* bound: answers the daemon does not wait for, keys replayed

ASSUME GuestConstants ==
    /\ {"none", "other"} \cap Tokens = {}
    /\ MaxLate \in Nat /\ MaxBoots \in Nat /\ MaxRestores \in Nat /\ MaxFaults \in Nat

VARIABLES
    rec,      \* the computer's record in the registry
    stored,   \* the guest's state directory, on its disk
    guest,    \* the daemon: where it is, its boot, the seed of that boot
    net,      \* requests in flight
    answer,   \* the answer the daemon has received
    misled,   \* history: was another computer's credential used?
    faults

vars == <<rec, stored, guest, net, answer, misled, faults>>

\* seed: registration_token. hash: the token whose hash is stored, minted for the
\* seed hashSeed. beat: the boot that reported last, beatSeed the seed it read.
Record == [seed: Nat, hash: Tokens \cup {"none"}, hashSeed: Nat, beat: Nat, beatSeed: Nat,
           desired: {"running", "stopped"}]

\* token: machine-token. computer: computer-id, compared with the one in the
\* boot's configuration. machine-id and enrollment-key are there once computer or
\* token are, and are sent whatever they are.
Store == [token: Tokens \cup {"none", "other"}, computer: {"none", "self", "other"}]

Blank   == [token |-> "none", computer |-> "none"]
Foreign == [token |-> "other", computer |-> "other"]

Pcs == {"off", "start", "clearing", "register", "registering", "naming", "beat", "beating",
        "ack", "acking", "halting"}

Request == [kind: {"register", "heartbeat", "ack"}, token: Tokens \cup {"none", "other"},
            seed: Nat, boot: Nat, key: BOOLEAN, live: BOOLEAN]

NoAnswer == [status |-> 0, token |-> "none", desired |-> "none"]

Init ==
    /\ rec = [seed |-> 1, hash |-> "none", hashSeed |-> 0, beat |-> 0, beatSeed |-> 0,
              desired |-> "running"]
    /\ stored \in {Blank, Foreign}
    /\ guest = [pc |-> "off", boot |-> 0, seed |-> 0]
    /\ net = {} /\ answer = NoAnswer
    /\ misled = FALSE /\ faults = 0

Late == {m \in net : ~m.live}

\* What is in flight once the daemon waits no longer for an answer.
Abandoned == {Late} \cup IF Cardinality(Late) < MaxLate
                         THEN {{[m EXCEPT !.live = FALSE] : m \in net}} ELSE {}

Goto(pc) == guest' = [guest EXCEPT !.pc = pc]

-----------------------------------------------------------------------------
(* The daemon *)

\* SMBIOS or identity.img give the boot its seed and its computer id.
Boots ==
    /\ guest.pc = "off" /\ guest.boot < MaxBoots
    /\ guest' = [pc |-> "start", boot |-> guest.boot + 1, seed |-> rec.seed]
    /\ UNCHANGED <<rec, stored, net, answer, misled, faults>>

\* The power is cut, or the guest reboots or powers off by itself.
Ends ==
    /\ guest.pc # "off"
    /\ Goto("off")
    /\ net' \in Abandoned
    /\ answer' = NoAnswer
    /\ UNCHANGED <<rec, stored, misled, faults>>

\* ensureRegistered, up to its first request.
IsForeign == stored.computer \notin {"none", "self"}

EnsureRegistered ==
    /\ guest.pc = "start"
    /\ IF IsForeign THEN Goto("clearing")
       ELSE IF stored.token # "none" THEN Goto("beat") ELSE Goto("register")
    /\ UNCHANGED <<rec, stored, net, answer, misled, faults>>

\* ClearIdentity removes the token first, so that a boot that ends half-way leaves
\* no credential behind. Mutated form: the name goes first.
ClearIdentityMutant ==
    /\ guest.pc = "clearing"
    /\ IF stored.computer # "none"
       THEN stored' = [stored EXCEPT !.computer = "none"] /\ UNCHANGED guest
       ELSE stored' = Blank /\ Goto("start")
    /\ UNCHANGED <<rec, net, answer, misled, faults>>

ClearIdentity ==
    /\ guest.pc = "clearing"
    /\ IF stored.token # "none"
       THEN stored' = [stored EXCEPT !.token = "none"] /\ UNCHANGED guest
       ELSE stored' = Blank /\ Goto("start")
    /\ UNCHANGED <<rec, net, answer, misled, faults>>

Sends(kind, next) ==
    /\ net' = net \cup {[kind |-> kind, token |-> IF kind = "register" THEN "none" ELSE stored.token,
                         seed |-> guest.seed, boot |-> guest.boot, key |-> TRUE, live |-> TRUE]}
    /\ Goto(next)
    /\ UNCHANGED <<rec, stored, answer, misled, faults>>

Registers  == guest.pc = "register" /\ Sends("register", "registering")
Beats      == guest.pc = "beat" /\ Sends("heartbeat", "beating")
Acks       == guest.pc = "ack" /\ Sends("ack", "acking")

Waiting == guest.pc \in {"registering", "beating", "acking"}

Receives(statuses) ==
    /\ answer.status \in statuses
    /\ answer' = NoAnswer
    /\ UNCHANGED <<rec, net, misled, faults>>

\* A registration the daemon still waits for is not refused: a restore, which
\* retires its seed, needs the guest to be off.
Registered ==
    /\ guest.pc = "registering"
    /\ Receives({200})
    /\ stored' = [stored EXCEPT !.token = answer.token]
    /\ Goto("naming")

Named ==
    /\ guest.pc = "naming"
    /\ stored' = [stored EXCEPT !.computer = "self"]
    /\ Goto("beat")
    /\ UNCHANGED <<rec, net, answer, misled, faults>>

Heard ==
    /\ guest.pc = "beating"
    /\ Receives({200})
    /\ Goto(IF answer.desired = "stopped" THEN "ack" ELSE "beat")
    /\ UNCHANGED stored

\* A rejected credential is forgotten and the daemon enrols again in the same boot.
Unauthorized ==
    /\ guest.pc = "beating"
    /\ Receives({401})
    /\ stored' = [stored EXCEPT !.token = "none"]
    /\ Goto("start")

\* The acknowledgement is best effort. Mutated form: it must succeed.
AcknowledgedMutant ==
    /\ guest.pc = "acking"
    /\ Receives({204, 401})
    /\ Goto(IF answer.status = 204 THEN "halting" ELSE "ack") /\ UNCHANGED stored

Acknowledged ==
    /\ guest.pc = "acking"
    /\ Receives({204, 401})
    /\ Goto("halting") /\ UNCHANGED stored

\* The daemon waits no longer: the request, or its answer, is late or lost.
\* Mutated form: the answer stays for the next request.
GivesUpMutant ==
    /\ Waiting
    /\ faults < MaxFaults /\ faults' = faults + 1
    /\ net' \in Abandoned
    /\ Goto(CASE guest.pc = "registering" -> "register" [] guest.pc = "beating" -> "beat"
              [] OTHER -> "halting")
    /\ UNCHANGED <<rec, stored, answer, misled>>

GivesUp ==
    /\ Waiting
    /\ faults < MaxFaults /\ faults' = faults + 1
    /\ net' \in Abandoned
    /\ answer' = NoAnswer
    /\ Goto(CASE guest.pc = "registering" -> "register" [] guest.pc = "beating" -> "beat"
              [] OTHER -> "halting")
    /\ UNCHANGED <<rec, stored, misled>>

Halts ==
    /\ guest.pc = "halting"
    /\ Goto("off")
    /\ UNCHANGED <<rec, stored, net, answer, misled, faults>>

-----------------------------------------------------------------------------
(* The engine *)

\* Somebody repeats a registration it saw, at will without an enrolment key, and with
\* one, its own or the guest's, as often as the faults allow.
Replays(seed, key) ==
    /\ Cardinality(Late) < MaxLate
    /\ IF key THEN faults < MaxFaults /\ faults' = faults + 1 ELSE UNCHANGED faults
    /\ net' = net \cup {[kind |-> "register", token |-> "none", seed |-> seed, boot |-> 0,
                         key |-> key, live |-> FALSE]}
    /\ UNCHANGED <<rec, stored, guest, answer, misled>>

Answers(m, status, token, desired) ==
    /\ net' = net \ {m}
    /\ answer' = IF m.live THEN [status |-> status, token |-> token, desired |-> desired] ELSE answer
    /\ UNCHANGED <<stored, guest, faults>>

InUse == {rec.hash, stored.token, answer.token} \cup {m.token : m \in net}
Fresh == CHOOSE t \in Tokens : t \notin InUse

\* A registration that knows the seed and either comes first or offers a key.
\* Mutated form: the key is not asked for.
RedeemableMutant(m) == m.seed = rec.seed

Redeemable(m) == m.seed = rec.seed /\ (rec.hash = "none" \/ m.key)

Register(m) ==
    /\ m.kind = "register"
    /\ IF Redeemable(m)
       THEN /\ rec' = [rec EXCEPT !.hash = Fresh, !.hashSeed = m.seed]
            /\ Answers(m, 200, Fresh, "none")
       ELSE Answers(m, 401, "none", "none") /\ UNCHANGED rec
    /\ UNCHANGED misled

\* A token of another computer authenticates, as that computer.
Authenticated(m) == m.token # "none" /\ m.token = rec.hash

Heartbeat(m) ==
    /\ m.kind = "heartbeat"
    /\ rec' = IF Authenticated(m) THEN [rec EXCEPT !.beat = m.boot, !.beatSeed = m.seed] ELSE rec
    /\ IF Authenticated(m) \/ m.token = "other"
       THEN Answers(m, 200, "none", rec.desired) ELSE Answers(m, 401, "none", "none")
    /\ misled' = (misled \/ m.token = "other")

ShutdownAck(m) ==
    /\ m.kind = "ack"
    /\ rec' = IF Authenticated(m) THEN [rec EXCEPT !.desired = "stopped"] ELSE rec
    /\ Answers(m, IF Authenticated(m) \/ m.token = "other" THEN 204 ELSE 401, "none", "none")
    /\ misled' = (misled \/ m.token = "other")

Handles == \E m \in net : Register(m) \/ Heartbeat(m) \/ ShutdownAck(m)

\* Starts and stops, of either API, change what is desired.
Commands(desired) ==
    /\ rec.desired # desired
    /\ rec' = [rec EXCEPT !.desired = desired]
    /\ UNCHANGED <<stored, guest, net, answer, misled, faults>>

\* A restore, of a stopped computer: the identity is rotated and the disk may come
\* from its own past or from another computer that had enrolled.
\* Mutated form: the credential of the old guest is kept.
RestoreMutant ==
    /\ guest.pc = "off" /\ rec.seed <= MaxRestores
    /\ rec' = [rec EXCEPT !.seed = @ + 1, !.beat = 0, !.beatSeed = 0, !.desired = "stopped"]
    /\ stored' \in {stored, Foreign}
    /\ UNCHANGED <<guest, net, answer, misled, faults>>

Restore ==
    /\ guest.pc = "off" /\ rec.seed <= MaxRestores
    /\ rec' = [rec EXCEPT !.seed = @ + 1, !.hash = "none", !.hashSeed = 0, !.beat = 0,
                          !.beatSeed = 0, !.desired = "stopped"]
    /\ stored' \in {stored, Foreign}
    /\ UNCHANGED <<guest, net, answer, misled, faults>>

Daemon ==
    \/ EnsureRegistered \/ ClearIdentity \/ Registers \/ Registered \/ Named
    \/ Beats \/ Heard \/ Unauthorized \/ Acks \/ Acknowledged \/ Halts

Next ==
    \/ Daemon \/ GivesUp \/ Boots \/ Ends \/ Handles \/ Restore
    \/ \E s \in 1..rec.seed, key \in BOOLEAN : Replays(s, key)
    \/ \E d \in {"running", "stopped"} : Commands(d)

(* The daemon runs while its guest does. The engine handles each request in *)
(* its turn, however many others come in. Nobody has to boot the guest.     *)
Fairness == /\ WF_vars(Daemon)
            /\ WF_vars(\E m \in net \ Late : Register(m) \/ Heartbeat(m) \/ ShutdownAck(m))

Spec == Init /\ [][Next]_vars /\ Fairness

-----------------------------------------------------------------------------
(* Properties *)

GuestTypeOK ==
    /\ rec \in Record /\ stored \in Store
    /\ guest \in [pc: Pcs, boot: 0..MaxBoots, seed: Nat]
    /\ net \subseteq Request /\ Cardinality(Late) <= MaxLate /\ Cardinality(net \ Late) <= 1
    /\ answer.status \in {0, 200, 204, 401}
    /\ answer # NoAnswer => Waiting
    /\ misled \in BOOLEAN /\ faults \in 0..MaxFaults

\* Nothing of the time before a restore survives it: neither a credential minted
\* for a revoked seed nor the report of a guest that booted with one, whatever
\* registrations and heartbeats were still under way (host-storage.js:51-59).
RestoreRevokes ==
    /\ rec.hash # "none" => rec.hashSeed = rec.seed
    /\ rec.beat # 0 => rec.beatSeed = rec.seed

\* A guest never speaks with a credential that came with another computer's disk,
\* even when it is cut off while it discards that identity (daemon.go:211-226).
ForkIsItself == ~misled

\* Every boot that lasts is heard from: a lost registration answer, a registration
\* handled twice or repeated by somebody else, who may mint a credential with a key of
\* his own, a revoked credential on the disk and a reboot between any two writes of
\* the store all heal (daemon.go:155-176).
EveryBootIsHeard ==
    \A n \in 1..MaxBoots :
        (guest.boot = n /\ guest.pc # "off") ~> (guest.pc = "off" \/ rec.beat = n)

\* A guest that is to stop does, unless it is to run again before it hears of it.
StopIsObeyed ==
    (rec.desired = "stopped" /\ guest.pc # "off") ~> (rec.desired = "running" \/ guest.pc = "off")

=============================================================================
