------------------------------- MODULE LocalApi -------------------------------
(***************************************************************************)
(* The local /v1 machine routes of the engine (src/server.js) over the     *)
(* registry (src/state.js), with the reconciliation at start and the       *)
(* compensation of a failed create.                                        *)
(*                                                                         *)
(* Unlike the private host API nothing here is journalled and no route     *)
(* takes a lock: requests interleave at every await.  A change of the      *)
(* registry and its flush are one turn of the event loop, so memory and    *)
(* machines.json agree whenever the engine can die; a flush that throws is *)
(* left to HostApi.  The runtime is HostRuntime, one machine per id.       *)
(***************************************************************************)
EXTENDS HostRuntime, Sequences, SequencesExt, FiniteSets

CONSTANTS
    Ids,        \* machine ids: of machines created here, or found at start
    Cloud,      \* those of them that the private host API manages
    Tombstones, \* those of them that it has destroyed
    Workers,    \* requests served at the same time
    MaxBoots,   \* bound: QEMU launches of a machine
    MaxFaults   \* bound: crashes, timeouts, failures, evasive answers

ASSUME LocalConstants ==
    /\ Cloud \subseteq Ids /\ Tombstones \subseteq Ids \ Cloud /\ MaxBoots \in Nat /\ MaxFaults \in Nat

VARIABLES
    records,  \* the registry, machines.json with it
    worker,   \* what each worker is doing, and the answer to its last await
    machine,  \* the runtime's machines
    calls,    \* per machine, calls at the engine's supervisor; the first holds its lock
    orphans,  \* per machine and kind, how many calls supervisors of killed engines still hold
    engine,   \* down, up, or blind: up after a start that could not list
    past,     \* history: what callers were told of an id
    strays,   \* history: ids whose machine an orphaned create made and no DELETE has removed
    faults

vars == <<records, worker, machine, calls, orphans, engine, past, strays, faults>>

former == <<orphans, strays>>

\* cleanup is needs_cleanup. What heartbeats write is in GuestProtocol.
Kinds  == {"none", "local", "adopted", "cloud", "tombstone"}
Record == [kind: Kinds, cleanup: BOOLEAN, desired: {"running", "stopped"}]
NoRecord == [kind |-> "none", cleanup |-> FALSE, desired |-> "running"]

Ops  == {"none", "create", "delete", "start", "stop"}
Pcs  == {"idle", "creating", "starting", "settling", "polling", "removing", "commanding",
         "describing", "answered"}
Idle == [pc |-> "idle", op |-> "none", id |-> "none", reply |-> "none", status |-> "none"]

\* The mutations that this API makes the runtime carry out.
LocalKinds == {"create", "start", "shutdown", "force-stop", "destroy"}

Fault == faults < MaxFaults /\ faults' = faults + 1

Managed == Cloud \cup Tombstones

\* The runtime may hold a machine whether a record names it or not: after a hard
\* kill, a machines.json that was lost, or a create carried out too late.
Found(power) == [NoMachine EXCEPT !.exists = TRUE, !.disk = 1, !.seed = 1, !.power = power, !.boot = 1]

Init ==
    /\ records = [i \in Ids |-> [NoRecord EXCEPT !.kind = IF i \in Cloud THEN "cloud"
                                 ELSE IF i \in Tombstones THEN "tombstone" ELSE "none"]]
    /\ machine \in [Ids -> {NoMachine, Found("on"), Found("off")}]
    /\ \A i \in Ids : machine[i] = Found("off") <=> i \in Managed
    /\ worker = [w \in Workers |-> Idle]
    /\ calls = [i \in Ids |-> <<>>]
    /\ orphans = [i \in Ids |-> [kind \in LocalKinds |-> 0]]
    /\ strays = {}
    /\ engine = "down"
    /\ past = [i \in Ids |-> IF machine[i].exists \/ i \in Managed THEN "known" ELSE "fresh"]
    /\ faults = 0

-----------------------------------------------------------------------------
(* The registry *)

Has(i) == records[i].kind # "none"

\* update() of an id that was removed meanwhile changes nothing.
\* Mutated form: it is written whatever was there.
UpdatedMutant(i, rec) == [records EXCEPT ![i] = IF Has(i) THEN rec ELSE [rec EXCEPT !.kind = "local"]]

Updated(i, rec) == IF Has(i) THEN [records EXCEPT ![i] = rec] ELSE records

Removed(i) == [records EXCEPT ![i] = NoRecord]

\* Records whose id the reconciler knows. Mutated form: it forgets tombstones.
KnownIdsMutant == {i \in Ids : records[i].kind \notin {"none", "tombstone"}}

KnownIds == {i \in Ids : Has(i)}

(* Before it listens, the engine adopts what the runtime holds and no       *)
(* record names. A list that fails is ignored.                              *)
EngineStarts ==
    /\ engine = "down"
    /\ \/ /\ engine' = "up"
          /\ records' = [i \in Ids |-> IF machine[i].exists /\ i \notin KnownIds
                                       THEN [NoRecord EXCEPT !.kind = "adopted"] ELSE records[i]]
          /\ UNCHANGED faults
       \/ engine' = "blind" /\ Fault /\ UNCHANGED records
    /\ UNCHANGED <<worker, machine, calls, past, former>>

(* Killed. Its supervisor dies with it, or outlives it with the calls it    *)
(* holds: the next engine starts another over the same directories, and     *)
(* locks are those of a process.                                            *)
Held(i, kind) == Cardinality({k \in DOMAIN calls[i] : calls[i][k].kind = kind})

EngineCrashes ==
    /\ engine # "down" /\ Fault
    /\ engine' = "down"
    /\ worker' = [w \in Workers |-> Idle]
    /\ calls' = [i \in Ids |-> <<>>]
    /\ orphans' \in {orphans,
                     [i \in Ids |-> [kind \in LocalKinds |-> orphans[i][kind] + Held(i, kind)]]}
    /\ UNCHANGED <<records, machine, past, strays>>

(* Carried out at any time, beside what the new supervisor does, or never.  *)
OrphanCarriesOut(i) ==
    \E kind \in LocalKinds :
        /\ orphans[i][kind] > 0
        /\ orphans' = [orphans EXCEPT ![i][kind] = @ - 1]
        /\ \E m \in {o.machine : o \in Outcomes(kind, machine[i], 1, TRUE)} \cup {machine[i]} :
              /\ m.boot <= MaxBoots
              /\ machine' = [machine EXCEPT ![i] = m]
              /\ strays' = IF m.exists /\ ~machine[i].exists THEN strays \cup {i} ELSE strays
        /\ UNCHANGED <<records, worker, calls, engine, past, faults>>

-----------------------------------------------------------------------------
(* Calls of the runtime *)

\* A call waits behind whoever holds the machine's lock; who is next among those
\* who wait is open.
Call(w, i, kind) ==
    \E k \in 1..(Len(calls[i]) + 1) :
        /\ k = 1 => calls[i] = <<>>
        /\ calls' = [calls EXCEPT ![i] = InsertAt(@, k, [by |-> w, kind |-> kind])]

Goto(w, pc) == worker' = [worker EXCEPT ![w].pc = pc, ![w].reply = "none"]
Describe(w, i) == worker' = [worker EXCEPT ![w] = [Idle EXCEPT !.pc = "describing", !.id = i]]
Done(w)     == worker' = [worker EXCEPT ![w] = Idle]
Heard(by, reply) == IF by = "nobody" THEN worker ELSE [worker EXCEPT ![by].reply = reply]

At(w, pc, replies) == worker[w].pc = pc /\ worker[w].reply \in replies

Next1(i) == calls' = [calls EXCEPT ![i] = Tail(@)]

RuntimeCarriesOut(i) ==
    /\ calls[i] # <<>>
    /\ \E o \in Outcomes(Head(calls[i]).kind, machine[i], 1, TRUE) :
          /\ o.machine.boot <= MaxBoots
          /\ machine' = [machine EXCEPT ![i] = o.machine]
          /\ worker' = Heard(Head(calls[i]).by, o.reply)
    /\ Next1(i)
    /\ UNCHANGED <<records, engine, past, faults, former>>

\* It refuses (no space for a clone, QEMU does not launch) and leaves all as it was.
RuntimeFails(i) ==
    /\ calls[i] # <<>> /\ Fault
    /\ worker' = Heard(Head(calls[i]).by, "error")
    /\ Next1(i)
    /\ UNCHANGED <<records, machine, engine, past, former>>

\* 120 s are over: the call stays where it is.
CallTimesOut(i) ==
    \E k \in DOMAIN calls[i] :
        /\ calls[i][k].by # "nobody" /\ Fault
        /\ worker' = Heard(calls[i][k].by, "error")
        /\ calls' = [calls EXCEPT ![i][k].by = "nobody"]
        /\ UNCHANGED <<records, machine, engine, past, former>>

\* What a describe may answer, and what it costs in faults.
Describes(i, s) ==
    \/ s \in Observed(machine[i], calls[i] # <<>>) /\ UNCHANGED faults
    \/ s \in Evasive(machine[i]) /\ Fault

-----------------------------------------------------------------------------
(* Requests *)

Serve(w, op, i, pc) ==
    /\ engine # "down" /\ worker[w].pc = "idle"
    /\ worker' = [worker EXCEPT ![w] = [Idle EXCEPT !.op = op, !.id = i, !.pc = pc]]

Local(i) == records[i].kind \in {"local", "adopted"}

\* Every create has a new id.
CreateBegins(w, i) ==
    /\ past[i] = "fresh"
    /\ Serve(w, "create", i, "creating")
    /\ records' = [records EXCEPT ![i] = [NoRecord EXCEPT !.kind = "local"]]
    /\ Call(w, i, "create")
    /\ past' = [past EXCEPT ![i] = "known"]
    /\ UNCHANGED <<machine, engine, faults, former>>

DeleteBegins(w, i) ==
    /\ Local(i)
    /\ Serve(w, "delete", i, "settling")
    /\ Call(w, i, "force-stop")
    /\ UNCHANGED <<records, machine, engine, past, faults, former>>

StartBegins(w, i) ==
    /\ Local(i)
    /\ Serve(w, "start", i, "commanding")
    /\ Call(w, i, "start")
    /\ UNCHANGED <<records, machine, engine, past, faults, former>>

StopBegins(w, i, kind) ==
    /\ Local(i)
    /\ Serve(w, "stop", i, "commanding")
    /\ records' = Updated(i, [records[i] EXCEPT !.desired = "stopped"])
    /\ Call(w, i, kind)
    /\ UNCHANGED <<machine, engine, past, faults, former>>

GetBegins(w, i) ==
    /\ records[i].kind \in {"local", "adopted", "cloud"}
    /\ engine # "down" /\ worker[w].pc = "idle"
    /\ Describe(w, i)
    /\ UNCHANGED <<records, machine, calls, engine, past, faults, former>>

-----------------------------------------------------------------------------
(* Progress of a request *)

Created(w) ==
    /\ At(w, "creating", {"ok"})
    /\ Goto(w, "starting")
    /\ Call(w, worker[w].id, "start")
    /\ UNCHANGED <<records, machine, engine, past, faults, former>>

\* The rollback of a create that failed in the runtime begins by settling.
RollsBack(w) ==
    /\ At(w, "creating", CallReplies \ {"ok"}) \/ At(w, "starting", CallReplies \ {"ok"})
    /\ Goto(w, "settling")
    /\ Call(w, worker[w].id, "force-stop")
    /\ UNCHANGED <<records, machine, engine, past, faults, former>>

\* Stopped, or a describe that fails for any reason.
PollSettles(w) ==
    LET i == worker[w].id IN
    /\ At(w, "polling", {"none"})
    /\ \E s \in {"stopped", "gone", "error"} : Describes(i, s)
    /\ Goto(w, "removing")
    /\ Call(w, i, "destroy")
    /\ UNCHANGED <<records, machine, engine, past, former>>

\* The rest of delete and of the rollback, after the runtime's destroy.
\* Mutated form: the rollback forgets the machine whatever became of it.
TornDownMutant(w, gone) ==
    LET i == worker[w].id IN
    /\ records' = IF gone \/ worker[w].op = "create" THEN Removed(i)
                  ELSE Updated(i, [records[i] EXCEPT !.cleanup = TRUE])
    /\ past' = [past EXCEPT ![i] = IF gone /\ worker[w].op = "delete" THEN "deleted"
                                   ELSE IF worker[w].op = "create" /\ @ # "deleted" THEN "failed" ELSE @]
    /\ strays' = IF gone /\ ~machine[i].exists THEN strays \ {i} ELSE strays
    /\ Done(w)

TornDown(w, gone) ==
    LET i == worker[w].id IN
    /\ records' = IF gone THEN Removed(i)
                  ELSE Updated(i, [records[i] EXCEPT !.cleanup = TRUE])
    /\ past' = [past EXCEPT ![i] = IF gone /\ worker[w].op = "delete" THEN "deleted"
                                   ELSE IF worker[w].op = "create" /\ @ # "deleted" THEN "failed" ELSE @]
    /\ strays' = IF gone /\ ~machine[i].exists THEN strays \ {i} ELSE strays
    /\ Done(w)

\* A forced stop that failed is not an obstacle: the describe decides.
\* Mutated form: it is, as for the private host API.
SettlesMutant(w) ==
    /\ \/ At(w, "settling", {"ok"}) /\ Goto(w, "polling") /\ UNCHANGED <<records, past, strays>>
       \/ At(w, "settling", CallReplies \ {"ok"}) /\ TornDown(w, FALSE)
    /\ UNCHANGED <<machine, calls, orphans, engine, faults>>

Settles(w) ==
    /\ At(w, "settling", CallReplies)
    /\ Goto(w, "polling")
    /\ UNCHANGED <<records, machine, calls, engine, past, faults, former>>

\* Forty polls were not enough: QEMU hangs, or an abandoned call holds the lock.
TooSlow(i) == IF calls[i] # <<>> /\ Head(calls[i]).by = "nobody" THEN UNCHANGED faults ELSE Fault

\* Mutated form: an error without a trace.
SettleGivesUpMutant(w) ==
    /\ At(w, "polling", {"none"}) /\ TooSlow(worker[w].id)
    /\ past' = [past EXCEPT ![worker[w].id] = IF worker[w].op = "create" /\ @ # "deleted"
                                              THEN "failed" ELSE @]
    /\ Done(w)
    /\ UNCHANGED <<records, machine, calls, engine, former>>

SettleGivesUp(w) ==
    /\ At(w, "polling", {"none"}) /\ TooSlow(worker[w].id)
    /\ TornDown(w, FALSE)
    /\ UNCHANGED <<machine, calls, orphans, engine>>

Destroyed(w) ==
    /\ At(w, "removing", CallReplies)
    /\ TornDown(w, worker[w].reply = "ok")
    /\ UNCHANGED <<machine, calls, orphans, engine, faults>>

\* start writes desired_state after the runtime's answer, stop wrote it before.
Commanded(w) ==
    LET i == worker[w].id IN
    /\ At(w, "commanding", {"ok"})
    /\ records' = IF worker[w].op = "start" THEN Updated(i, [records[i] EXCEPT !.desired = "running"])
                  ELSE records
    /\ IF Has(i) THEN Describe(w, i) ELSE Done(w)
    /\ UNCHANGED <<machine, calls, engine, past, faults, former>>

CommandFails(w) ==
    /\ At(w, "commanding", CallReplies \ {"ok"})
    /\ Done(w)
    /\ UNCHANGED <<records, machine, calls, engine, past, faults, former>>

CreateAnswers(w) ==
    /\ At(w, "starting", {"ok"})
    /\ Describe(w, worker[w].id)
    /\ UNCHANGED <<records, machine, calls, engine, past, faults, former>>

\* presentStatus of what describe returned, null when it threw; ready if the last
\* heartbeat is fresh and claims a shell. Mutated form: what the runtime says is
\* passed on.
PresentStatusMutant(s) == {IF s = "running" THEN "ready" ELSE s}

PresentStatus(s) ==
    IF s \in {"stopped", "starting", "unknown"} THEN {s} ELSE {"ready", "booting"}

Presents(w) ==
    LET i == worker[w].id IN
    /\ At(w, "describing", {"none"})
    /\ \E s \in {"running", "starting", "stopped", "unknown", "gone", "error"} :
          /\ Describes(i, s)
          /\ \E status \in PresentStatus(s) :
                worker' = [worker EXCEPT ![w] = [Idle EXCEPT !.pc = "answered", !.reply = s,
                                                             !.status = status]]
    /\ UNCHANGED <<records, machine, calls, engine, past, former>>

Answers(w) ==
    /\ worker[w].pc = "answered"
    /\ Done(w)
    /\ UNCHANGED <<records, machine, calls, engine, past, faults, former>>

-----------------------------------------------------------------------------
MachineStops(i) ==
    /\ machine' \in {[machine EXCEPT ![i] = ProcessExits(@)], [machine EXCEPT ![i] = GuestPowersOff(@)]}
    /\ machine' # machine
    /\ UNCHANGED <<records, worker, calls, engine, past, faults, former>>

Request(w) == \E i \in Ids :
    \/ CreateBegins(w, i) \/ DeleteBegins(w, i) \/ StartBegins(w, i) \/ GetBegins(w, i)
    \/ \E kind \in {"shutdown", "force-stop"} : StopBegins(w, i, kind)

Progress(w) ==
    \/ Created(w) \/ RollsBack(w) \/ Settles(w) \/ PollSettles(w) \/ Destroyed(w)
    \/ Commanded(w) \/ CommandFails(w) \/ CreateAnswers(w) \/ Presents(w) \/ Answers(w)

Next ==
    \/ EngineStarts \/ EngineCrashes
    \/ \E w \in Workers : Request(w) \/ Progress(w) \/ SettleGivesUp(w)
    \/ \E i \in Ids : RuntimeCarriesOut(i) \/ RuntimeFails(i) \/ CallTimesOut(i)
                      \/ MachineStops(i)

(* Handlers run on, the runtime carries out its calls and QEMU obeys quit.  *)
(* A poll finds the machine stopped sooner or later if it keeps meeting it  *)
(* so.  Whoever was told that a machine needs cleaning up asks again.       *)
Fairness ==
    /\ WF_vars(EngineStarts)
    /\ \A w \in Workers : WF_vars(Progress(w)) /\ SF_vars(PollSettles(w))
    /\ \A i \in Ids \ Managed :
          /\ WF_vars(RuntimeCarriesOut(i))
          /\ WF_vars(machine[i].power = "quitting" /\ MachineStops(i))
          /\ SF_vars(\E w \in Workers : records[i].cleanup /\ DeleteBegins(w, i))

Spec == Init /\ [][Next]_vars /\ Fairness

-----------------------------------------------------------------------------
(* Properties *)

LocalTypeOK ==
    /\ records \in [Ids -> Record]
    /\ worker \in [Workers -> [pc: Pcs, op: Ops, id: Ids \cup {"none"},
                               reply: CallReplies \cup {"none", "running", "starting", "stopped", "unknown"},
                               status: {"none", "ready", "booting", "starting", "stopped", "unknown"}]]
    /\ machine \in [Ids -> Machine]
    /\ \A i \in Ids : calls[i] \in Seq([by: Workers \cup {"nobody"}, kind: LocalKinds])
    /\ orphans \in [Ids -> [LocalKinds -> Nat]]
    /\ strays \subseteq Ids
    /\ engine \in {"down", "up", "blind"}
    /\ past \in [Ids -> {"fresh", "known", "failed", "deleted"}]
    /\ faults \in 0..MaxFaults

\* Whatever fails, is abandoned after 120 s or is deleted meanwhile by another
\* request: once an engine has listed the runtime's machines, every machine has
\* a record that names it, in machines.json too (server.js:47-50, 175-179). Only
\* one can be without: it was made by a create that had outlived its engine.
NothingNameless ==
    engine = "up" => \A i \in Ids : machine[i].exists => Has(i) \/ i \in strays

\* A create that was answered with an error leaves no machine behind, nor will
\* one appear, by a call of this or of an earlier engine, unless its record says
\* that it needs to be cleaned up (server.js:180-186).
FailedCreateIsFlagged ==
    \A i \in Ids : past[i] = "failed" =>
        \/ records[i].cleanup
        \/ /\ ~machine[i].exists /\ orphans[i]["create"] = 0
           /\ \A k \in DOMAIN calls[i] : calls[i][k].kind # "create"

\* A machine whose DELETE was answered with 200 never comes back: neither its
\* disk, by a create that was still under way, nor its record, by a start, a stop
\* or a rollback that was (server.js:203-222). Only a create that has outlived
\* its engine can bring it back.
DeletedStaysGone ==
    \A i \in Ids : past[i] = "deleted" => (~machine[i].exists /\ ~Has(i)) \/ i \in strays

\* No request of this API and no start of the engine stops, removes, adopts or
\* renames a machine of the private host API, live or tombstoned
\* (server.js:55-57, 199-200).
ManagedIsUntouched ==
    [][\A i \in Managed : /\ records'[i] = records[i]
                          /\ machine'[i].exists = machine[i].exists
                          /\ calls'[i] = <<>> /\ orphans'[i] = orphans[i]]_vars

\* A machine that needs cleaning up is gone in the end if somebody goes on
\* deleting it (server.js:216-219: "so it can be retried").
FlaggedIsDeleted ==
    \A i \in Ids \ Managed : records[i].cleanup ~> ~Has(i)
=============================================================================
