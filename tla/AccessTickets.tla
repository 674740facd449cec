---------------------------- MODULE AccessTickets ----------------------------
(***************************************************************************)
(* Desktop and SSH tickets of one managed machine (src/desktop.js,         *)
(* src/ssh.js) against the mutations of the private host API, which revoke *)
(* them, and against the lock of the id, which both sides wait for.        *)
(*                                                                         *)
(* Mutations are as in HostApi, reduced to what a ticket can tell: when    *)
(* they hold the lock, what they write to the record, when they revoke,    *)
(* and when the runtime may act.  Describes that only fill in an answer    *)
(* are left out, and a time is never compared: whatever may have expired   *)
(* may be refused.                                                         *)
(***************************************************************************)
EXTENDS Naturals, Sequences

CONSTANTS
    Tickets,     \* the tickets callers may ask for, each with its one client
    Mutations,   \* the verbs callers may send
    MaxLine,     \* bound: requests waiting for the lock
    MaxCalls,    \* bound: runtime calls in flight
    MaxGen,      \* bound: generations
    MaxBoots,    \* bound: boots of the guest, QEMU launches included
    MaxFaults,   \* bound: lost answers, failing flushes, crashes
    None

\* storage stands for the storage verbs that touch only snapshot files, stop
\* for shutdown and force-stop.
Revoking == {"start", "stop", "destroy", "restore", "fence"}
Verbs    == Revoking \cup {"storage"}

ASSUME TicketConstants ==
    /\ Mutations \subseteq Verbs
    /\ MaxLine \in Nat /\ MaxCalls \in Nat /\ MaxGen \in Nat /\ MaxBoots \in Nat
    /\ MaxFaults \in Nat
    /\ None \notin Tickets

VARIABLES
    record,   \* what the registry's record says
    disk,     \* what machines.json says
    qemu,     \* the process: is it on, its launch, and the guest's own boot
    calls,    \* mutations in flight at the supervisor
    line,     \* requests for the lock of the id; the first one holds it
    pc,       \* where the holder of the lock is
    seen,     \* what its describe saw
    ticket,   \* the tickets and the transports they were redeemed for
    faults

vars == <<record, disk, qemu, calls, line, pc, seen, ticket, faults>>

records == <<record, disk>>

-----------------------------------------------------------------------------

Record == [gen: Nat, boot: Nat, desired: {"running", "stopped"},
           pending: Verbs \cup {"none"}, fenced: BOOLEAN, deleted: BOOLEAN]

\* unused: not asked for. asked: the request for it waits or runs. minted: in the
\* map of unredeemed tickets. redeemed: out of the map, validation pending.
\* allowed, denied: validated. dialing, open: connected upstream.
States == {"unused", "asked", "minted", "redeemed", "allowed", "denied",
           "dialing", "open", "closed"}

\* gen and boot are the binding; launch is the QEMU the ticket was minted for, far
\* the one its transport reached. The code keeps neither of the last two.
Ticket == [state: States, revoked: BOOLEAN, gen: Nat, boot: Nat, launch: Nat, far: Nat]

Job == [work: {"desktop", "ssh", "validate"}, ticket: Tickets] \cup [work: Verbs, ticket: {None}]

Unused == [state |-> "unused", revoked |-> FALSE, gen |-> 0, boot |-> 0,
           launch |-> 0, far |-> 0]

Init ==
    /\ record = [gen |-> 1, boot |-> 0, desired |-> "stopped", pending |-> "none",
                 fenced |-> FALSE, deleted |-> FALSE]
    /\ disk = record
    /\ qemu = [on |-> FALSE, launch |-> 0, guest |-> 0]
    /\ calls = <<>> /\ line = <<>> /\ pc = "waiting" /\ seen = "none"
    /\ ticket = [t \in Tickets |-> Unused]
    /\ faults = 0

Fault == faults < MaxFaults /\ faults' = faults + 1

\* A flush writes everything, or throws after memory has changed.
Flushes(rec)     == record' = rec /\ disk' = rec /\ UNCHANGED faults
FlushThrows(rec) == record' = rec /\ UNCHANGED disk /\ Fault

State(t)      == ticket[t].state
Becomes(t, s) == ticket' = [ticket EXCEPT ![t].state = s]

-----------------------------------------------------------------------------
(* The lock: each id has a chain of promises, first come, first served.     *)

Enters(job) == Len(line) < MaxLine /\ line' = Append(line, job)

Holds(work)  == line # <<>> /\ Head(line).work = work
Holder       == Head(line).ticket
Releases     == line' = Tail(line) /\ pc' = "waiting" /\ seen' = "none"
KeepsLock(p) == line' = line /\ pc' = p /\ seen' = "none"

\* The holder's describe: the truth at that moment, or no answer worth having.
Observes ==
    /\ pc = "describe" /\ seen = "none"
    /\ seen' \in {IF qemu.on THEN "running" ELSE "stopped", "unknown"}
    /\ UNCHANGED <<records, qemu, calls, line, pc, ticket, faults>>

Observed(s) == pc = "describe" /\ seen = s

-----------------------------------------------------------------------------
(* Asking for a ticket *)

Asks(t, kind) ==
    /\ State(t) = "unused"
    /\ Enters([work |-> kind, ticket |-> t])
    /\ Becomes(t, "asked")
    /\ UNCHANGED <<records, qemu, calls, pc, seen, faults>>

\* The record is looked up, and the runtime is asked about the machine.
MintBegins ==
    /\ Holds("desktop") \/ Holds("ssh")
    /\ pc = "waiting"
    /\ ~record.deleted
    /\ Holds("ssh") => ~record.fenced
    /\ KeepsLock("describe")
    /\ UNCHANGED <<records, qemu, calls, ticket, faults>>

MintRefused ==
    /\ \/ pc = "waiting" /\ record.deleted /\ (Holds("desktop") \/ Holds("ssh"))
       \/ pc = "waiting" /\ record.fenced /\ Holds("ssh")
       \/ pc = "describe" /\ seen # "none" /\ (Holds("desktop") \/ Holds("ssh"))
       \/ pc = "exec" /\ Holds("ssh")
    /\ Becomes(Holder, "closed")
    /\ Releases
    /\ UNCHANGED <<records, qemu, calls, faults>>

\* What readiness demands besides a fresh heartbeat of a new boot, which may or may
\* not have come.
MayBeReady(s) ==
    /\ s = "running" /\ record.desired = "running"
    /\ record.boot # 0 /\ record.pending = "none" /\ ~record.fenced

Minted(t, gen, boot) ==
    ticket' = [ticket EXCEPT ![t] =
                 [@ EXCEPT !.state = "minted", !.gen = gen, !.boot = boot, !.launch = qemu.launch]]

DesktopMinted ==
    /\ Holds("desktop") /\ pc = "describe" /\ MayBeReady(seen)
    /\ Minted(Holder, record.gen, record.boot)
    /\ Releases
    /\ UNCHANGED <<records, qemu, calls, faults>>

\* The binding is taken, then the gateway key is delivered over another await, under
\* the lock. SSH does not ask for readiness.
SshDelivers ==
    /\ Holds("ssh") /\ Observed("running")
    /\ record.boot # 0 /\ record.desired = "running"
    /\ ticket' = [ticket EXCEPT ![Holder] = [@ EXCEPT !.gen = record.gen, !.boot = record.boot]]
    /\ Flushes(record)
    /\ KeepsLock("exec")
    /\ UNCHANGED <<qemu, calls>>

\* Mutated form: the ticket is validated before it is given out, by waiting for the
\* lock a second time.
SshMintedMutant ==
    /\ Holds("ssh") /\ pc = "exec"
    /\ line' = Append(line, [work |-> "validate", ticket |-> Holder])
    /\ pc' = "revalidate"
    /\ UNCHANGED <<records, qemu, calls, seen, ticket, faults>>

SshMinted ==
    /\ Holds("ssh") /\ pc = "exec"
    /\ Minted(Holder, ticket[Holder].gen, ticket[Holder].boot)
    /\ Releases
    /\ UNCHANGED <<records, qemu, calls, faults>>

-----------------------------------------------------------------------------
(* Redeeming it *)

\* Out of the map and into the set of active targets, in one step.
Redeems(t) ==
    /\ State(t) = "minted"
    /\ Enters([work |-> "validate", ticket |-> t])
    /\ Becomes(t, "redeemed")
    /\ UNCHANGED <<records, qemu, calls, pc, seen, faults>>

Bound(t) == record.gen = ticket[t].gen /\ record.boot # 0 /\ record.boot = ticket[t].boot

ValidationBegins ==
    /\ Holds("validate") /\ pc = "waiting"
    /\ ~record.deleted /\ Bound(Holder)
    /\ KeepsLock("describe")
    /\ UNCHANGED <<records, qemu, calls, ticket, faults>>

\* The client may have gone meanwhile.
Validated(s) ==
    /\ IF State(Holder) = "redeemed" THEN Becomes(Holder, s) ELSE UNCHANGED ticket
    /\ Releases
    /\ UNCHANGED <<records, qemu, calls, faults>>

ValidationSucceeds ==
    /\ Holds("validate") /\ pc = "describe"
    /\ ~record.deleted /\ Bound(Holder) /\ MayBeReady(seen)
    /\ Validated("allowed")

ValidationFails ==
    /\ Holds("validate")
    /\ \/ pc = "waiting" /\ (record.deleted \/ ~Bound(Holder))
       \/ pc = "describe" /\ seen # "none"
    /\ Validated("denied")

\* Mutated form: the answer of the validation is all that counts.
DialsMutant(t) ==
    /\ State(t) = "allowed"
    /\ Becomes(t, "dialing")
    /\ UNCHANGED <<records, qemu, calls, line, pc, seen, faults>>

\* The continuation of the validation runs some time after it: a mutation may have
\* revoked the target by then.
Dials(t) ==
    /\ State(t) = "allowed" /\ ~ticket[t].revoked
    /\ Becomes(t, "dialing")
    /\ UNCHANGED <<records, qemu, calls, line, pc, seen, faults>>

Refuses(t) ==
    /\ State(t) \in {"allowed", "denied"}
    /\ Becomes(t, "closed")
    /\ UNCHANGED <<records, qemu, calls, line, pc, seen, faults>>

\* The port of the machine leads to whatever QEMU listens on it.
Connects(t) ==
    /\ State(t) = "dialing"
    /\ ticket' = IF qemu.on
                 THEN [ticket EXCEPT ![t] = [@ EXCEPT !.state = "open", !.far = qemu.launch]]
                 ELSE [ticket EXCEPT ![t].state = "closed"]
    /\ UNCHANGED <<records, qemu, calls, line, pc, seen, faults>>

\* The client or the far end closes, or the ticket expires unredeemed.
Ends(t) ==
    /\ State(t) \in {"minted", "redeemed", "allowed", "denied", "dialing", "open"}
    /\ Becomes(t, "closed")
    /\ UNCHANGED <<records, qemu, calls, line, pc, seen, faults>>

-----------------------------------------------------------------------------
(* Mutations *)

Sends(v) ==
    /\ Enters([work |-> v, ticket |-> None])
    /\ UNCHANGED <<records, qemu, calls, pc, seen, ticket, faults>>

\* Mutated form: transports that are being validated or connected are forgotten.
RevokedMutant(t) ==
    IF State(t) \in {"minted", "open"} THEN [ticket[t] EXCEPT !.state = "closed"] ELSE ticket[t]

\* Unredeemed tickets are deleted, transports cut, and validations in progress marked.
Revoked(t) ==
    CASE State(t) \in {"minted", "dialing", "open"} -> [ticket[t] EXCEPT !.state = "closed"]
      [] State(t) \in {"redeemed", "allowed"}       -> [ticket[t] EXCEPT !.revoked = TRUE]
      [] OTHER                                      -> ticket[t]

Revokes(v) ==
    ticket' = IF v \in Revoking THEN [t \in Tickets |-> Revoked(t)] ELSE ticket

\* A generation identifies one boot; the first start shares the one of create.
Generations(v) ==
    IF v = "start" /\ qemu.launch # 0 THEN {record.gen + 1} ELSE {record.gen, record.gen + 1}

Journalled(v, gen) ==
    LET rec == [record EXCEPT !.gen = gen, !.pending = v]
    IN  CASE v = "fence"   -> [rec EXCEPT !.fenced = TRUE, !.desired = "stopped"]
          [] v = "restore" -> [rec EXCEPT !.boot = 0, !.desired = "stopped"]
          [] OTHER         -> rec

\* desired_state is written again in front of the runtime work of every attempt.
Asked(rec, v) ==
    IF v \in {"stop", "destroy"} THEN [rec EXCEPT !.desired = "stopped"] ELSE rec

\* From revocation to the first await: a start describes the machine, all others
\* call the runtime. A retry has not flushed what it finds in memory.
Proceeds(v, rec, saved) ==
    /\ record' = Asked(rec, v)
    /\ Revokes(v)
    /\ UNCHANGED qemu
    /\ \/ /\ disk' = IF v \in {"stop", "destroy"} THEN record' ELSE saved
          /\ IF v = "start"
             THEN KeepsLock("describe") /\ UNCHANGED calls
             ELSE /\ Len(calls) < MaxCalls
                  /\ calls' = Append(calls, v)
                  /\ KeepsLock("sent")
          /\ UNCHANGED faults
       \/ /\ v \in {"stop", "destroy"} /\ disk' = saved
          /\ Fault /\ Releases /\ UNCHANGED calls

Admissible(v) ==
    /\ ~record.deleted /\ record.pending = "none"
    /\ v = "start" => ~record.fenced

\* A restore asks first whether the machine is stopped.
RestoreProbes ==
    /\ Holds("restore") /\ pc = "waiting"
    /\ Admissible("restore")
    /\ KeepsLock("describe")
    /\ UNCHANGED <<records, qemu, calls, ticket, faults>>

Accepts(v) ==
    /\ Holds(v) /\ Admissible(v)
    /\ IF v = "restore" THEN Observed("stopped") ELSE pc = "waiting"
    /\ \E gen \in Generations(v) :
          /\ gen <= MaxGen
          /\ \/ Proceeds(v, Journalled(v, gen), Journalled(v, gen))
             \/ \* nothing is revoked
                /\ FlushThrows(Journalled(v, gen))
                /\ Releases
                /\ UNCHANGED <<qemu, calls, ticket>>

Retries(v) ==
    /\ Holds(v) /\ pc = "waiting"
    /\ ~record.deleted /\ record.pending = v
    /\ v = "start" => ~record.fenced
    /\ Proceeds(v, record, disk)

MutationRefused ==
    /\ \E v \in Verbs : Holds(v)
    /\ \/ pc = "waiting"
       \/ pc = "describe" /\ ~Holds("start") /\ seen \in {"running", "unknown"}
       \/ pc = "describe" /\ Holds("start") /\ seen = "unknown"
    /\ pc = "waiting" => \/ record.deleted
                         \/ record.pending \notin {"none", Head(line).work}
                         \/ record.fenced /\ Holds("start")
                         \/ record.gen = MaxGen
    /\ Releases
    /\ UNCHANGED <<records, qemu, calls, ticket, faults>>

\* A start disowns the boot it had, in its first attempt that sees the machine
\* stopped.
StartCalls ==
    /\ Holds("start") /\ pc = "describe" /\ seen \in {"running", "stopped"}
    /\ \E boot \in {record.boot} \cup IF seen = "stopped" THEN {0} ELSE {} :
          LET rec == [record EXCEPT !.desired = "running", !.boot = boot]
          IN  \/ /\ Flushes(rec)
                 /\ Len(calls) < MaxCalls
                 /\ calls' = Append(calls, "start")
                 /\ KeepsLock("sent")
              \/ FlushThrows(rec) /\ Releases /\ UNCHANGED calls
    /\ UNCHANGED <<qemu, ticket>>

Launched == [on |-> TRUE, launch |-> qemu.launch + 1, guest |-> qemu.guest + 1]
Off      == [qemu EXCEPT !.on = FALSE]

\* What the supervisor does to QEMU. A start may be refused by the limits of the
\* host, a shutdown only asks.
Effects(v) ==
    CASE v = "start" -> {qemu} \cup IF qemu.on \/ qemu.guest = MaxBoots THEN {} ELSE {Launched}
      [] v = "stop"  -> {qemu, Off}
      [] v \in {"destroy", "fence"} -> {Off}
      [] OTHER       -> {qemu}

CarriesOut ==
    /\ calls # <<>>
    /\ qemu' \in Effects(Head(calls))
    /\ calls' = Tail(calls)
    /\ pc' = IF pc = "sent" /\ Len(calls) = 1 THEN "answered" ELSE pc
    /\ UNCHANGED <<records, line, seen, ticket, faults>>

\* The call fails, or its answer does not come in time: the operation stays pending,
\* and the call may yet be carried out.
CallLost ==
    /\ pc = "sent" /\ calls # <<>>
    /\ Fault
    /\ Releases
    /\ calls' \in {calls, SubSeq(calls, 1, Len(calls) - 1)}
    /\ UNCHANGED <<records, qemu, ticket>>

\* A start that was refused by the limits leaves the machine to be stopped.
Settles ==
    /\ pc = "answered"
    /\ \E desired \in {record.desired} \cup IF Holds("start") /\ ~qemu.on THEN {"stopped"} ELSE {} :
          LET rec == [record EXCEPT !.pending = "none", !.desired = desired,
                                    !.deleted = @ \/ Holds("destroy")]
          IN  Flushes(rec) \/ FlushThrows(rec)
    /\ Releases
    /\ UNCHANGED <<qemu, calls, ticket>>

-----------------------------------------------------------------------------
(* The guest and the engine *)

\* Heartbeats take no lock, and may be late.
Heartbeat ==
    /\ ~record.deleted
    /\ \E b \in 1..qemu.guest : \/ Flushes([record EXCEPT !.boot = b])
                               \/ FlushThrows([record EXCEPT !.boot = b])
    /\ UNCHANGED <<qemu, calls, line, pc, seen, ticket>>

GuestReboots ==
    /\ qemu.on /\ qemu.guest < MaxBoots
    /\ qemu' = [qemu EXCEPT !.guest = @ + 1]
    /\ UNCHANGED <<records, calls, line, pc, seen, ticket, faults>>

GuestPowersOff ==
    /\ qemu.on
    /\ qemu' = [qemu EXCEPT !.on = FALSE]
    /\ UNCHANGED <<records, calls, line, pc, seen, ticket, faults>>

\* Tickets and transports are in memory only.
EngineCrashes ==
    /\ Fault
    /\ calls' = <<>> /\ line' = <<>> /\ pc' = "waiting" /\ seen' = "none"
    /\ ticket' = [t \in Tickets |->
                    IF State(t) = "unused" THEN ticket[t] ELSE [ticket[t] EXCEPT !.state = "closed"]]
    /\ record' = disk
    /\ UNCHANGED <<disk, qemu>>

-----------------------------------------------------------------------------

MintSteps     == MintBegins \/ MintRefused \/ DesktopMinted \/ SshDelivers \/ SshMinted
ValidateSteps == ValidationBegins \/ ValidationSucceeds \/ ValidationFails
MutateSteps   == RestoreProbes \/ MutationRefused \/ StartCalls \/ Settles
                 \/ \E v \in Verbs : Accepts(v) \/ Retries(v)
HolderSteps   == Observes \/ MintSteps \/ ValidateSteps \/ MutateSteps

ClientSteps ==
    \/ \E v \in Mutations : Sends(v)
    \/ \E t \in Tickets : \/ Asks(t, "desktop") \/ Asks(t, "ssh") \/ Redeems(t) \/ Ends(t)

Continues(t) == Dials(t) \/ Refuses(t) \/ Connects(t)

OtherSteps == CarriesOut \/ CallLost \/ Heartbeat \/ GuestReboots \/ GuestPowersOff
              \/ EngineCrashes

Next == HolderSteps \/ ClientSteps \/ OtherSteps \/ \E t \in Tickets : Continues(t)

Spec == Init /\ [][Next]_vars

\* Node's event loop runs continuations, the supervisor answers or is given up.
LiveSpec ==
    /\ Spec
    /\ WF_vars(HolderSteps) /\ WF_vars(CarriesOut)
    /\ \A t \in Tickets : WF_vars(Continues(t))

-----------------------------------------------------------------------------
(* Correctness *)

\* Every variable stays within the shape the code gives it.
TicketsTypeOK ==
    /\ record \in Record /\ disk \in Record
    /\ qemu \in [on: BOOLEAN, launch: Nat, guest: Nat]
    /\ calls \in Seq(Verbs) /\ line \in Seq(Job)
    /\ pc \in {"waiting", "describe", "exec", "sent", "answered"}
    /\ seen \in {"none", "running", "stopped", "unknown"}
    /\ ticket \in [Tickets -> Ticket]
    /\ faults \in Nat

\* While a call that stops, starts, restores or removes the machine can still be
\* carried out, no transport to it is open or being opened, not even one whose
\* validation was under way when the call was prepared (README: "Stop/start/destroy
\* revokes outstanding tickets and closes existing desktop transports, including
\* connections awaiting validation").
TransportsDieFirst ==
    (\E i \in DOMAIN calls : calls[i] \in Revoking)
      => \A t \in Tickets : State(t) \notin {"dialing", "open"}

\* A transport leads to the very QEMU its ticket was minted for, although the next
\* one listens on the same port and late heartbeats may bring back its boot id
\* (README: tickets "are bound to the current boot ID and generation, checked again
\* at WebSocket redemption").
ReachesItsLaunch ==
    \A t \in Tickets : State(t) = "open" => ticket[t].far = ticket[t].launch

\* Whoever asked for a ticket, or came with one, is answered: nobody waits for the
\* lock for ever, neither behind a lost call nor behind himself (ssh.js:19).
Waiting(t) == State(t) \in {"asked", "redeemed", "allowed", "denied", "dialing"}

NobodyWaitsForEver == \A t \in Tickets : Waiting(t) ~> ~Waiting(t)

=============================================================================
