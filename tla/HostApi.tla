------------------------------- MODULE HostApi -------------------------------
(***************************************************************************)
(* The private host API of the engine (src/host-api.js, src/host-storage.js*)
(* and the registry of src/state.js) for ONE managed machine id.           *)
(*                                                                         *)
(* A journal of operations is kept in the machine's record.  Mutations run *)
(* one at a time under the id's lock, and every await of a mutation is a   *)
(* point where the engine may crash, a runtime call may be abandoned, a    *)
(* GET may read, and the guest may report or power off.  GETs take no lock.*)
(*                                                                         *)
(* A request that is refused changes nothing and is not an action.         *)
(***************************************************************************)
EXTENDS HostRuntime, Sequences, FiniteSets

CONSTANTS
    OpIds,        \* operation_id values callers use
    Requests,     \* the mutation requests that may ever be sent
    MaxCalls,     \* bound: runtime calls in flight
    MaxFaults,    \* bound: crashes, timeouts, refusals, evasive answers
    MaxBoots,     \* bound: QEMU launches
    FlushFaults,  \* may a registry flush throw (disk full)?
    Orphans,      \* does the supervisor outlive a killed engine?
    Heartbeats,   \* does the guest report at all?
    SelfPowerOff  \* may the guest power itself off unasked?

LifecycleVerbs == {"create", "start", "shutdown", "force-stop", "destroy"}
StorageVerbs   == {"snapshot", "restore", "storage", "fence"}
Verbs          == LifecycleVerbs \cup StorageVerbs

\* flag is delete_disk of a destroy and recreate of a create. A request value
\* is the request's fingerprint; "storage" is any of the storage verbs that
\* touch only snapshot files (delete, import, seal).
RequestType == [verb: Verbs, op: OpIds, gen: Nat \ {0}, flag: BOOLEAN]

ASSUME RequestsAssumption ==
    /\ Requests \subseteq RequestType
    /\ IsFiniteSet(Requests)

ASSUME BoundsAssumption ==
    /\ MaxCalls \in Nat \ {0} /\ MaxFaults \in Nat /\ MaxBoots \in Nat

ASSUME SwitchesAssumption ==
    /\ FlushFaults \in BOOLEAN /\ Orphans \in BOOLEAN
    /\ Heartbeats \in BOOLEAN /\ SelfPowerOff \in BOOLEAN

Key(r) == <<r.verb, r.op>>

Statuses == {"running", "starting", "stopped", "unknown"}
Results  == Statuses \cup {"destroyed", "limit", "storage"}

(***************************************************************************)
(* ops holds the accepted requests: the journal maps verb:operation_id to  *)
(* a fingerprint, so no two members share a key.  result is "none" until   *)
(* the operation is settled.  boot_id and previous hold the number of the  *)
(* QEMU launch whose guest reported it (0 is null); fresh stands for a     *)
(* heartbeat after boot_requested_at, less than 60 s old, with every       *)
(* capability.  inc is incarnation_generation, 0 when absent.              *)
(***************************************************************************)
Record == [exists: BOOLEAN, deleted: BOOLEAN, fenced: BOOLEAN, gen: Nat, inc: Nat,
           token: Nat, desired: {"running", "stopped"}, boot_id: Nat,
           previous: SUBSET Nat, fresh: BOOLEAN, ops: SUBSET Requests,
           result: [Requests -> Results \cup {"none"}], prepared: SUBSET Requests]

NoRecord == [exists |-> FALSE, deleted |-> FALSE, fenced |-> FALSE, gen |-> 0, inc |-> 0,
             token |-> 0, desired |-> "stopped", boot_id |-> 0, previous |-> {},
             fresh |-> FALSE, ops |-> {}, result |-> [r \in Requests |-> "none"],
             prepared |-> {}]

Pending(rec) == {r \in rec.ops : rec.result[r] = "none"}

VARIABLES
    mem,      \* the record in the engine's memory
    disk,     \* the record in machines.json
    handler,  \* the mutation holding the id's lock: where it is, for what request,
              \* and the answer to its last runtime call
    reader,   \* one GET in flight: the revision it saw first, what it observed
    machine,  \* the runtime's machine (HostRuntime)
    queue,    \* runtime calls in flight, in the order the supervisor takes them
    orphans,  \* calls a supervisor still holds after its engine was killed
    beats,    \* heartbeats sent by a guest and not yet handled
    answers,  \* the settled answers callers were given, per request
    minted,   \* how many registration tokens were minted
    faults    \* how many faults happened

vars == <<mem, disk, handler, reader, machine, queue, orphans, beats, answers, minted, faults>>

records == <<mem, disk>>
runtime == <<machine, queue, orphans>>
history == <<answers, minted>>

NoRequest == [verb |-> "none", op |-> "none", gen |-> 0, flag |-> FALSE]
Idle      == [pc |-> "idle", req |-> NoRequest, reply |-> "none"]
NoReader  == [pc |-> "idle", before |-> <<>>, seen |-> "none"]

\* Awaits of a describe or list, and awaits of a mutation's runtime call.
ProbePcs == {"held", "vacated", "unheld", "probe", "prepare", "settling", "report"}
CallPcs  == {"create", "launch", "stop", "settle", "remove", "storage", "reseed"}
Pcs      == {"idle", "begin"} \cup ProbePcs \cup CallPcs

At(pc)        == handler.pc = pc
Answered(pc, replies) == At(pc) /\ handler.reply \in replies
Goto(pc, r)   == [pc |-> pc, req |-> r, reply |-> "none"]

Fault == faults < MaxFaults /\ faults' = faults + 1

(***************************************************************************)
(* Registry.flush replaces machines.json whole.  When it throws, the       *)
(* change stays in memory, the handler's promise rejects and the lock goes *)
(* to the next request.                                                    *)
(***************************************************************************)
Saved(rec) == mem' = rec /\ disk' = rec /\ UNCHANGED faults

FlushThrows(rec) ==
    /\ FlushFaults /\ Fault
    /\ mem' = rec /\ UNCHANGED disk
    /\ handler' = Idle

Flush(rec, next) == \/ Saved(rec) /\ handler' = next
                    \/ FlushThrows(rec)

Init ==
    /\ mem = NoRecord /\ disk = NoRecord
    /\ handler = Idle /\ reader = NoReader
    /\ machine = NoMachine /\ queue = <<>> /\ orphans = {}
    /\ beats = {}
    /\ answers = [r \in Requests |-> {}]
    /\ minted = 0 /\ faults = 0

-----------------------------------------------------------------------------
(* Descriptions *)

Known == {"running", "starting", "stopped"}

\* status of hostDescription: an unresolved operation (other than the one being
\* settled) masks whatever the runtime says.
Status(rec, seen, settled) ==
    LET pending == Pending(rec) \ settled
        plain   == IF seen \in Known THEN seen ELSE "unknown"
    IN  IF pending = {} THEN plain
        ELSE IF plain # "unknown" /\ \A r \in pending : r.verb \in {"create", "start"}
             THEN "starting"
             ELSE "unknown"

Ready(rec, status) ==
    /\ ~rec.fenced
    /\ status = "running" /\ rec.desired = "running"
    /\ rec.boot_id # 0 /\ rec.boot_id \notin rec.previous
    /\ rec.fresh

Revision(rec) == <<rec.gen, rec.deleted, rec.ops, Pending(rec)>>

\* What describe answers once its runtime read is back: the old snapshot is
\* dropped when the journal moved meanwhile.
\* Mutated form: the old snapshot is passed on.
SeenMutant == reader.seen

Seen == IF reader.before = Revision(mem) THEN reader.seen ELSE "unknown"

ReadStarts ==
    /\ reader.pc = "idle"
    /\ mem.exists /\ ~mem.deleted
    /\ reader' = [pc |-> "asked", before |-> Revision(mem), seen |-> "none"]
    /\ UNCHANGED <<records, handler, runtime, beats, history, faults>>

ReadObserves ==
    /\ reader.pc = "asked"
    /\ \E s \in Observed(machine, FALSE) \cup Evasive(machine) :
          reader' = [reader EXCEPT !.pc = "observed", !.seen = s]
    /\ UNCHANGED <<records, handler, runtime, beats, history, faults>>

\* The answer is Status(mem, Seen, {}) and Ready(mem, that status).
ReadAnswers ==
    /\ reader.pc = "observed"
    /\ reader' = NoReader
    /\ UNCHANGED <<records, handler, runtime, beats, history, faults>>

-----------------------------------------------------------------------------
(* Accepting a request *)

InRetiredIncarnation(r) == mem.exists /\ mem.inc # 0 /\ r.gen < mem.inc

KeyUsed(r) == \E q \in mem.ops : Key(q) = Key(r)

\* A completed destroy of this generation that deleted the disk.
RemovedDisk ==
    \E q \in mem.ops :
        /\ q.verb = "destroy" /\ q.gen = mem.gen /\ q.flag
        /\ mem.result[q] = "destroyed"

\* A generation identifies one boot: only create may share it with its start.
PriorIntent(r) == \E q \in mem.ops : q.gen = r.gen /\ q.verb # "create"

Recreatable(r) == r.flag /\ mem.deleted /\ RemovedDisk /\ r.gen > mem.gen

AcceptableCreate(r) == mem.exists => Recreatable(r) /\ Pending(mem) = {}

\* Mutated form: a new command overtakes an unresolved one.
AcceptableChangeMutant(r) ==
    /\ mem.exists /\ ~mem.deleted
    /\ r.gen >= mem.gen
    /\ r.verb = "start" => ~mem.fenced /\ ~(r.gen = mem.gen /\ PriorIntent(r))

AcceptableChange(r) ==
    /\ mem.exists /\ ~mem.deleted
    /\ r.gen >= mem.gen
    /\ r.verb = "start" => ~mem.fenced /\ ~(r.gen = mem.gen /\ PriorIntent(r))
    /\ Pending(mem) = {}

Acceptable(r) ==
    /\ ~InRetiredIncarnation(r) /\ ~KeyUsed(r)
    /\ IF r.verb = "create" THEN AcceptableCreate(r) ELSE AcceptableChange(r)

\* The first await of an accepted operation, and of a retry of a pending one.
FirstPc(r) ==
    CASE r.verb = "create" -> "create"
      [] r.verb = "start"  -> "prepare"
      [] r.verb \in {"shutdown", "force-stop", "destroy"} -> "begin"
      [] OTHER             -> "storage"

\* A new operation whose checks need the runtime waits for them first, holding
\* the lock: a re-creation for the old machine's absence, a create for list, a
\* snapshot or restore for a stopped machine.
NeedsProbe(r) == r.verb \in {"create", "snapshot", "restore"}

ProbePc(r) ==
    IF r.verb = "create" THEN (IF mem.exists THEN "held" ELSE "unheld") ELSE "probe"

ReceiveProbed(r) ==
    /\ At("idle") /\ Acceptable(r) /\ NeedsProbe(r)
    /\ handler' = Goto(ProbePc(r), r)
    /\ UNCHANGED <<records, reader, runtime, beats, history, faults>>

\* The record an accepted create starts: no trace of an earlier incarnation but
\* its journal.
Created(r) ==
    [exists |-> TRUE, deleted |-> FALSE, fenced |-> FALSE, gen |-> r.gen,
     inc |-> IF mem.exists THEN r.gen ELSE 0, token |-> minted + 1,
     desired |-> "stopped", boot_id |-> 0, previous |-> {}, fresh |-> FALSE,
     ops |-> mem.ops \cup {r}, result |-> mem.result, prepared |-> mem.prepared]

Journalled(r) == [mem EXCEPT !.gen = r.gen, !.ops = @ \cup {r}]

Fenced(rec) == [rec EXCEPT !.fenced = TRUE, !.desired = "stopped"]

\* A restored disk may hold an older bearer token: the identity is reset.
Rotated(rec) == [rec EXCEPT !.token = minted + 1, !.boot_id = 0, !.fresh = FALSE,
                            !.desired = "stopped"]

Accepted(r) ==
    CASE r.verb = "create"  -> Created(r)
      [] r.verb = "fence"   -> Fenced(Journalled(r))
      [] r.verb = "restore" -> Rotated(Journalled(r))
      [] OTHER              -> Journalled(r)

Mints(r) == r.verb \in {"create", "restore"}

\* The synchronous tail of the checks: generation and intent, then flush.
Accept(r) ==
    /\ Flush(Accepted(r), Goto(FirstPc(r), r))
    /\ minted' = IF Mints(r) THEN minted + 1 ELSE minted
    /\ UNCHANGED <<reader, runtime, beats, answers>>

ReceiveNew(r) ==
    /\ At("idle") /\ Acceptable(r) /\ ~NeedsProbe(r)
    /\ Accept(r)

\* A retry of a pending operation goes straight to its runtime work.
ReceiveRetry(r) ==
    /\ At("idle")
    /\ ~InRetiredIncarnation(r)
    /\ r.verb = "start" => ~mem.fenced
    /\ r.verb \in StorageVerbs => mem.exists /\ ~mem.deleted
    /\ r \in Pending(mem) /\ r.gen = mem.gen
    /\ handler' = Goto(FirstPc(r), r)
    /\ UNCHANGED <<records, reader, runtime, beats, history, faults>>

\* A retry of a settled operation is answered from the journal.
ReceiveReplay(r) ==
    /\ At("idle")
    /\ ~InRetiredIncarnation(r)
    /\ r.verb = "start" => ~mem.fenced
    /\ r.verb \in StorageVerbs => mem.exists /\ ~mem.deleted
    /\ r \in mem.ops /\ mem.result[r] # "none"
    /\ answers' = [answers EXCEPT ![r] = @ \cup {mem.result[r]}]
    /\ UNCHANGED <<records, handler, reader, runtime, beats, minted, faults>>

-----------------------------------------------------------------------------
(* Runtime calls *)

Call(kind, r, token) == [kind |-> kind, req |-> r, token |-> token]

\* Mutated form: settle calls a route the runtime does not have.
CallKindMutant ==
    CASE At("create")  -> "create"
      [] At("launch")  -> "start"
      [] At("stop")    -> handler.req.verb
      [] At("settle")  -> "stop"
      [] At("remove")  -> "destroy"
      [] At("storage") -> handler.req.verb
      [] At("reseed")  -> "reseed"

CallKind ==
    CASE At("create")  -> "create"
      [] At("launch")  -> "start"
      [] At("stop")    -> handler.req.verb
      [] At("settle")  -> "force-stop"
      [] At("remove")  -> "destroy"
      [] At("storage") -> handler.req.verb
      [] At("reseed")  -> "reseed"

\* The request leaves the engine. A call whose answer nobody waits for any
\* more stays in the queue: the supervisor carries it out all the same.
CallLeaves ==
    /\ handler.pc \in CallPcs /\ handler.reply = "none"
    /\ Len(queue) < MaxCalls
    /\ queue' = Append(queue, Call(CallKind, handler.req, mem.token))
    /\ handler' = [handler EXCEPT !.reply = "sent"]
    /\ UNCHANGED <<records, reader, machine, orphans, beats, history, faults>>

\* A guest that is killed or powered off leaves no first heartbeat behind.
Heard(b) == b.boot = mem.boot_id \/ b.boot \in mem.previous
Surviving(m) == IF m.power = "off" THEN {b \in beats : Heard(b)} ELSE beats

CarryOut(c, o) ==
    /\ o.machine.boot <= MaxBoots
    /\ machine' = o.machine
    /\ beats' = Surviving(o.machine)

\* Only the last call can be awaited: earlier ones were abandoned.
Reply(reply) ==
    handler' = IF Len(queue) = 1 /\ handler.reply = "sent"
               THEN [handler EXCEPT !.reply = reply] ELSE handler

RuntimeCarriesOut ==
    /\ queue # <<>>
    /\ LET c == Head(queue) IN
       \E o \in Outcomes(c.kind, machine, c.token, c.req.flag) :
          /\ CarryOut(c, o) /\ Reply(o.reply)
    /\ queue' = Tail(queue)
    /\ UNCHANGED <<records, reader, orphans, history, faults>>

RuntimeFails ==
    /\ queue # <<>>
    /\ Fault
    /\ machine' \in Leftovers(Head(queue).kind, machine)
    /\ Reply("error")
    /\ queue' = Tail(queue)
    /\ UNCHANGED <<records, reader, orphans, beats, history>>

OrphanCarriesOut ==
    /\ \E c \in orphans :
          /\ orphans' = orphans \ {c}
          /\ \E o \in Outcomes(c.kind, machine, c.token, c.req.flag) : CarryOut(c, o)
    /\ UNCHANGED <<records, handler, reader, queue, history, faults>>

\* Mutated form: an abandoned call is taken for a successful one.
CallTimesOutMutant ==
    /\ handler.reply = "sent"
    /\ Fault
    /\ handler' = [handler EXCEPT !.reply = "ok"]
    /\ UNCHANGED <<records, reader, runtime, beats, history>>

\* The 120 s abort of #call: the handler throws, the call lives on.
CallTimesOut ==
    /\ handler.reply = "sent"
    /\ Fault
    /\ handler' = Idle
    /\ UNCHANGED <<records, reader, runtime, beats, history>>

\* A describe or list of a locked handler. While an earlier call of this
\* machine is in flight the supervisor only answers "unknown".
ProbeAnswers ==
    /\ handler.pc \in ProbePcs /\ handler.reply = "none"
    /\ \/ /\ \E s \in Observed(machine, queue # <<>>) :
                handler' = [handler EXCEPT !.reply = s]
          /\ UNCHANGED faults
       \/ /\ \E s \in Evasive(machine) : handler' = [handler EXCEPT !.reply = s]
          /\ Fault
    /\ UNCHANGED <<records, reader, runtime, beats, history>>

Rejects ==
    /\ handler' = Idle
    /\ UNCHANGED <<records, reader, runtime, beats, history, faults>>

Proceeds(pc) ==
    /\ handler' = Goto(pc, handler.req)
    /\ UNCHANGED <<records, reader, runtime, beats, history, faults>>

\* A runtime call that failed leaves the operation pending and the caller with
\* an error. Only settle tolerates a missing machine, only a start can meet the
\* admission limits.
CallFails ==
    /\ handler.pc \in CallPcs
    /\ \/ handler.reply = "error"
       \/ handler.reply = "gone" /\ ~At("settle")
    /\ Rejects

-----------------------------------------------------------------------------
(* Settling *)

\* Mutated form: the result is answered without a flush.
SettleMutant(rec, res) ==
    LET settled == [rec EXCEPT !.result[handler.req] = res] IN
    /\ mem' = settled /\ handler' = Idle
    /\ answers' = [answers EXCEPT ![handler.req] = @ \cup {res}]
    /\ UNCHANGED <<disk, reader, runtime, beats, minted, faults>>

\* The result is recorded, flushed, and only then answered.
Settle(rec, res) ==
    LET settled == [rec EXCEPT !.result[handler.req] = res] IN
    /\ \/ /\ Saved(settled) /\ handler' = Idle
          /\ answers' = [answers EXCEPT ![handler.req] = @ \cup {res}]
       \/ FlushThrows(settled) /\ UNCHANGED answers
    /\ UNCHANGED <<reader, runtime, beats, minted>>

\* create, start, shutdown and force-stop answer with a last describe.
Report ==
    /\ At("report") /\ handler.reply # "none"
    /\ Settle(mem, Status(mem, handler.reply, {handler.req}))

-----------------------------------------------------------------------------
(* create *)

CreateVacated ==
    /\ Answered("held", {"gone"})
    /\ Proceeds("vacated")

CreateUnheld ==
    /\ Answered("vacated", {"gone"})
    /\ Proceeds("unheld")

CreateAccepted ==
    /\ Answered("unheld", {"gone"})
    /\ Accept(handler.req)

ProbeRefuses ==
    /\ \/ /\ handler.pc \in {"held", "vacated", "unheld"}
          /\ handler.reply \notin {"none", "gone"}
       \/ At("probe") /\ handler.reply \notin {"none", "stopped"}
    /\ Rejects

CreateDone ==
    /\ Answered("create", {"ok"})
    /\ Proceeds("report")

(* start *)

\* Mutated form: the boot id that is cleared is not disowned.
BootRequestedMutant(rec, r) ==
    [rec EXCEPT !.fresh = FALSE, !.boot_id = 0, !.prepared = @ \cup {r}]

\* One boot request per operation: the guest reports of earlier boots are
\* disowned the first time the machine is seen stopped, never again on a retry.
BootRequested(rec, r) ==
    [rec EXCEPT !.previous = @ \cup ({rec.boot_id} \ {0}),
                !.fresh = FALSE, !.boot_id = 0, !.prepared = @ \cup {r}]

StartPrepares ==
    /\ Answered("prepare", Known)
    /\ LET r   == handler.req
           rec == IF r \notin mem.prepared /\ handler.reply = "stopped"
                  THEN BootRequested(mem, r) ELSE mem
       IN  Flush([rec EXCEPT !.desired = "running"], Goto("launch", r))
    /\ UNCHANGED <<reader, runtime, beats, history>>

StartUncertain ==
    /\ Answered("prepare", {"unknown", "gone", "error"})
    /\ Rejects

Started ==
    /\ Answered("launch", {"ok"})
    /\ Proceeds("report")

\* Mutated form: a known refusal is treated like an ambiguous outcome.
StartLimitedMutant == Answered("launch", {"limit"}) /\ Rejects

\* The two admission limits are known refusals: the operation is settled.
StartLimited ==
    /\ Answered("launch", {"limit"})
    /\ Settle([mem EXCEPT !.desired = "stopped"], "limit")

(* shutdown, force-stop, destroy *)

StopBegins ==
    /\ At("begin")
    /\ Flush([mem EXCEPT !.desired = "stopped"],
             Goto(IF handler.req.verb = "destroy" THEN "settle" ELSE "stop", handler.req))
    /\ UNCHANGED <<reader, runtime, beats, history>>

StopAsked ==
    /\ Answered("stop", {"ok"})
    /\ Proceeds("report")

SettleAsked ==
    /\ Answered("settle", {"ok", "gone"})
    /\ Proceeds("settling")

SettlePolls ==
    /\ Answered("settling", {"running", "starting", "unknown"})
    /\ Proceeds("settling")

SettleGivesUp ==
    /\ Answered("settling", {"running", "starting", "unknown"})
    /\ Fault
    /\ handler' = Idle
    /\ UNCHANGED <<records, reader, runtime, beats, history>>

SettleFails ==
    /\ Answered("settling", {"error"})
    /\ Rejects

Settled ==
    /\ Answered("settling", {"stopped", "gone"})
    /\ Proceeds("remove")

\* Mutated form: a refused removal is taken for a removal.
DestroyedMutant ==
    /\ Answered("remove", {"ok", "error"})
    /\ Settle([mem EXCEPT !.deleted = TRUE, !.token = 0], "destroyed")

Destroyed ==
    /\ Answered("remove", {"ok"})
    /\ Settle([mem EXCEPT !.deleted = TRUE, !.token = 0], "destroyed")

(* storage verbs *)

StorageAccepted ==
    /\ Answered("probe", {"stopped"})
    /\ Accept(handler.req)

\* Mutated form: the restored machine is not reseeded.
StorageRestoredMutant ==
    /\ Answered("storage", {"ok"}) /\ handler.req.verb = "restore"
    /\ Settle(mem, "storage")

StorageRestored ==
    /\ Answered("storage", {"ok"}) /\ handler.req.verb = "restore"
    /\ Proceeds("reseed")

StorageDone ==
    /\ \/ Answered("storage", {"ok"}) /\ handler.req.verb # "restore"
       \/ Answered("reseed", {"ok"})
    /\ Settle(mem, "storage")

-----------------------------------------------------------------------------
(* The guest and the machine *)

GuestReports ==
    /\ Heartbeats /\ machine.power = "on" /\ beats = {}
    /\ beats' = {[boot |-> machine.boot, cred |-> machine.cred]}
    /\ UNCHANGED <<records, handler, reader, runtime, history, faults>>

\* The guest routes take no lock. A heartbeat whose credential was rotated away
\* is answered 401.
HeartbeatHandled ==
    /\ \E b \in beats :
          /\ beats' = beats \ {b}
          /\ IF mem.exists /\ mem.token # 0 /\ b.cred = mem.token
             THEN /\ mem' = [mem EXCEPT !.boot_id = b.boot, !.fresh = TRUE]
                  /\ \/ disk' = mem' /\ UNCHANGED faults
                     \/ FlushFaults /\ Fault /\ UNCHANGED disk
             ELSE UNCHANGED <<records, faults>>
    /\ UNCHANGED <<handler, reader, runtime, history>>

HeartbeatAges ==
    /\ mem.fresh
    /\ mem' = [mem EXCEPT !.fresh = FALSE]
    /\ disk' = [disk EXCEPT !.fresh = FALSE]
    /\ UNCHANGED <<handler, reader, runtime, beats, history, faults>>

MachineStops(m) ==
    /\ machine' = m
    /\ beats' = Surviving(m)
    /\ UNCHANGED <<records, handler, reader, queue, orphans, history, faults>>

QuitCompletes == machine.power = "quitting" /\ MachineStops(ProcessExits(machine))

\* A guest told to stop, by powerdown or by its heartbeat, obeys some time.
GuestGoesDown ==
    /\ machine.power = "on"
    /\ SelfPowerOff \/ mem.desired = "stopped"
    /\ MachineStops(GuestPowersOff(machine))

(* Faults of the engine and of the host *)

\* QEMU outlives the engine. What the supervisor still held is lost with it,
\* unless it is orphaned.
EngineCrashes ==
    /\ Fault
    /\ mem' = disk
    /\ handler' = Idle /\ reader' = NoReader
    /\ queue' = <<>> /\ beats' = {}
    /\ orphans' = IF Orphans THEN orphans \cup {queue[i] : i \in DOMAIN queue} ELSE orphans
    /\ UNCHANGED <<disk, machine, history>>

\* A host takes longer to come back than a heartbeat stays fresh.
HostRestarts ==
    /\ Fault
    /\ mem' = [disk EXCEPT !.fresh = FALSE] /\ disk' = mem'
    /\ handler' = Idle /\ reader' = NoReader
    /\ queue' = <<>> /\ orphans' = {} /\ beats' = {}
    /\ machine' = [machine EXCEPT !.power = "off"]
    /\ UNCHANGED history

\* Any later flush of the registry writes this record too.
LaterFlush ==
    /\ FlushFaults /\ disk # mem
    /\ disk' = mem
    /\ UNCHANGED <<mem, handler, reader, runtime, beats, history, faults>>

-----------------------------------------------------------------------------

Receive == \E r \in Requests : \/ ReceiveProbed(r) \/ ReceiveNew(r)
                               \/ ReceiveRetry(r)  \/ ReceiveReplay(r)

Read == ReadStarts \/ ReadObserves \/ ReadAnswers

CallSteps == CallLeaves \/ RuntimeCarriesOut \/ ProbeAnswers

CreateSteps  == CreateVacated \/ CreateUnheld \/ CreateAccepted \/ ProbeRefuses \/ CreateDone
StartSteps   == StartPrepares \/ StartUncertain \/ Started \/ StartLimited
StopSteps    == StopBegins \/ StopAsked \/ SettleAsked \/ SettlePolls \/ SettleFails
                \/ Settled \/ Destroyed
StorageSteps == StorageAccepted \/ StorageRestored \/ StorageDone
HandlerSteps == CallFails \/ Report \/ CreateSteps \/ StartSteps \/ StopSteps \/ StorageSteps

FaultSteps == RuntimeFails \/ CallTimesOut \/ SettleGivesUp \/ OrphanCarriesOut
              \/ EngineCrashes \/ HostRestarts \/ LaterFlush

GuestSteps == GuestReports \/ HeartbeatHandled \/ HeartbeatAges \/ GuestGoesDown

Next == Receive \/ Read \/ CallSteps \/ HandlerSteps \/ FaultSteps \/ GuestSteps
        \/ QuitCompletes

Spec == Init /\ [][Next]_vars

-----------------------------------------------------------------------------
(* Correctness *)

CallType == [kind: CallKinds, req: Requests, token: Nat]

Replies == CallReplies \cup Statuses \cup {"none", "sent"}

Revisions == {<<>>} \cup (Nat \X BOOLEAN \X (SUBSET Requests) \X (SUBSET Requests))

HandlerOK(h) ==
    /\ h \in [pc: Pcs, req: Requests \cup {NoRequest}, reply: Replies]
    /\ h.pc # "idle" => h.req \in Requests

\* Every variable stays within the shape the code gives it.
TypeOK ==
    /\ mem \in Record /\ disk \in Record
    /\ HandlerOK(handler)
    /\ reader \in [pc: {"idle", "asked", "observed"}, before: Revisions, seen: Replies]
    /\ machine \in Machine
    /\ queue \in Seq(CallType) /\ orphans \subseteq CallType
    /\ beats \subseteq [boot: Nat, cred: Nat]
    /\ answers \in [Requests -> SUBSET Results]
    /\ minted \in Nat /\ faults \in Nat

\* The journal, in memory and on disk, never holds two unresolved operations, nor
\* one that was accepted under another generation, nor two fingerprints for one
\* operation id (host-api.js:162-166, 190, 204; host-storage.js:36-42), whatever
\* flush fails and whenever the engine crashes.
JournalOK(rec) ==
    /\ \A p, q \in Pending(rec) : p = q
    /\ \A p \in Pending(rec) : p.gen = rec.gen
    /\ \A p, q \in rec.ops : Key(p) = Key(q) => p = q

OnePending == JournalOK(mem) /\ JournalOK(disk)

\* No runtime call is made, and none is still under way, but for an operation
\* whose intent is on disk and unresolved ("Intent and credentials are saved
\* before runtime work", host-api.js:52; "do not let a later command overtake an
\* ambiguous runtime call", host-api.js:202).
CallsArePending ==
    \A i \in DOMAIN queue : queue[i].req \in Pending(disk)

\* A machine that is off is only ever launched while a start is unresolved, so a
\* caller told "stopped" may release the capacity (README, host API).
BootNeedsPendingStart ==
    [][machine.power = "off" /\ machine'.power = "on"
         => \E r \in Pending(mem) : r.verb = "start"]_vars

\* If a GET, or the last describe of a mutation, were answered now with
\* "stopped", QEMU would really be gone: a stopped observation older than an
\* accepted command is never passed on (host-api.js:30-35, 81-83).
StoppedIsEvidence ==
    /\ reader.pc = "observed" /\ Status(mem, Seen, {}) = "stopped" => machine.power = "off"
    /\ At("report") /\ Status(mem, handler.reply, {handler.req}) = "stopped"
         => machine.power = "off"

\* A GET that would answer ready speaks of the guest that is booted now: its
\* boot id is the last launch's, not one reported by an earlier boot
\* (README.md:290-291). The code does not keep this: a start that meets a QEMU on
\* its way out prepares no boot (host-api.js:232-243). What it does keep is
\* ReadyIsNotDisowned in HostApiReady.
ReadyIsThisBoot ==
    reader.pc = "observed" /\ Ready(mem, Status(mem, Seen, {})) => mem.boot_id = machine.boot

\* After a fence was answered, and until the machine is destroyed, QEMU is off and
\* stays off (docs/host-storage.md: only a successful response is stop evidence).
FenceIsStopEvidence ==
    mem.fenced /\ ~mem.deleted /\ (\E r \in mem.ops : r.verb = "fence" /\ r.gen >= mem.inc
                                                     /\ mem.result[r] # "none")
      => machine.power = "off"

\* A disk only disappears under an unresolved destroy of the current incarnation:
\* a delayed command of a retired one cannot reach the new disk
\* (host-api.js:158-160, docs/host-storage.md).
DiskNeedsPendingDestroy ==
    [][machine.exists /\ ~machine'.exists
         => \E r \in Pending(mem) : r.verb = "destroy" /\ r.gen = mem.gen]_vars

\* Every settled answer a caller is given for a request is the same, across
\* retries, crashes and re-creation of the id (README: "Exact completed retries
\* replay that saved response even across service restarts").
ReplaysAgree ==
    \A r \in Requests : \A x, y \in answers[r] : x = y

\* With nothing unresolved, the identity image on the machine carries the
\* registration token of the record: a restore that fails half way cannot leave a
\* guest that boots with a revoked identity (host-storage.js:51-67).
SeedMatches ==
    mem.exists /\ ~mem.deleted /\ Pending(mem) = {} =>
       machine.exists /\ machine.seed = mem.token

\* The record of a deleted machine is the tombstone of a machine that is gone.
TombstoneIsGone ==
    mem.deleted => ~machine.exists

-----------------------------------------------------------------------------
(* What machines.json promises, as an abstract specification (Journal).      *)

J == INSTANCE Journal WITH
        gen <- disk.gen, inc <- disk.inc, accepted <- disk.ops, result <- disk.result

\* As long as flushes do not throw, the file implements the abstract journal:
\* whatever the interleaving of requests, runtime answers and crashes, it only
\* ever gains one intent at a time, in generation order, or the result of the
\* one that is unresolved.
JournalSpec == J!Spec

-----------------------------------------------------------------------------
(* Liveness: the caller retries an unresolved operation until it is settled, *)
(* the engine and the supervisor keep running, and faults are finitely many. *)

Retry == \E r \in Requests : ReceiveRetry(r)

Fairness ==
    /\ WF_vars(Retry)
    /\ WF_vars(CallLeaves) /\ WF_vars(RuntimeCarriesOut) /\ WF_vars(ProbeAnswers)
    /\ WF_vars(HandlerSteps) /\ WF_vars(QuitCompletes)

LiveSpec == Spec /\ Fairness

\* No accepted operation stays unresolved for ever: retrying it always works in
\* the end ("The CP must retry/reconcile that intent first", host-api.js:202).
PendingSettles ==
    \A r \in Requests : r \in Pending(mem) ~> r \notin Pending(mem)

=============================================================================
