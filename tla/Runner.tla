-------------------------------- MODULE Runner --------------------------------
(***************************************************************************)
(* The supervisor (runtime/native/host.py, class Runner) over several      *)
(* machines: its files, its QEMU processes and what it holds of them in    *)
(* memory.  One mutation runs at a time, under the lock of its machine and *)
(* runner.lock (Handler.dispatch); each action is what it does up to the   *)
(* next change on disk, so that a crash may come between any two.          *)
(*                                                                         *)
(* A machine whose lock is taken, by a mutation that waits for its turn or *)
(* by another describe, is "unknown" to a start that counts machines.      *)
(* Snapshot files and the content of disks are left out.                   *)
(***************************************************************************)
EXTENDS Naturals, FiniteSetsExt

CONSTANTS
    Ids,
    Calls,       \* machine -> the mutations it may be asked for
    Memory,      \* machine -> memory_mb
    MaxRunning,  \* max_running of the configuration
    MaxMemory,   \* max_memory_mb
    Linux,       \* does the platform tell one process from another (/proc)?
    MaxBoots,    \* bound: launches of each machine
    MaxFaults    \* bound: crashes, reboots and failing system calls

ASSUME RunnerConstants ==
    /\ IsFiniteSet(Ids) /\ Memory \in [Ids -> Nat]
    /\ \A i \in Ids : \A op \in Calls[i] :
          /\ op.kind \in {"create", "start", "shutdown", "force-stop", "fence", "destroy", "reseed"}
          /\ op.spec \in Nat \ {0} /\ op.wipe \in BOOLEAN
    /\ MaxRunning \in Nat /\ MaxMemory \in Nat /\ Linux \in BOOLEAN
    /\ MaxBoots \in Nat /\ MaxFaults \in Nat

VARIABLES
    folder,    \* machines/<id>
    staging,   \* machines/.creating-<id>
    retained,  \* retained/<id>.ext4: the disk, 0 when there is none
    marker,    \* running.marker
    sock,      \* is there a QMP socket file?
    qemu,      \* the process
    child,     \* in memory: does the supervisor hold the Popen of the last launch?
    up,        \* does the supervisor run?
    job,       \* the mutation that holds runner.lock
    before,    \* history: its machine, as the caller knows it, when it began
    kept,      \* history: the disk that destroy(delete_disk = false) promised to keep
    faults

files == <<folder, staging, retained>>
launch == <<marker, sock, qemu, child>>
vars == <<files, launch, up, job, before, kept, faults>>

Contract == INSTANCE HostRuntime

\* meta: is machine.json there? root: the disk, named after the specification it
\* was cloned for, 0 when there is none. seed: the token in identity.img.
Folder == [dir: BOOLEAN, meta: BOOLEAN, spec: Nat, root: Nat, seed: Nat, fenced: BOOLEAN,
           retaining: BOOLEAN]
NoFolder == [dir |-> FALSE, meta |-> FALSE, spec |-> 0, root |-> 0, seed |-> 0,
             fenced |-> FALSE, retaining |-> FALSE]

\* intent: the specification intent.json names, 0 without one. litter: other files.
NoStaging == [dir |-> FALSE, intent |-> 0, litter |-> FALSE]

\* boot 0 in a marker that exists is {launching: true}.
NoMarker == [exists |-> FALSE, boot |-> 0]

\* spec: the specification a create comes with, or the token of a reseed.
\* wipe: a destroy's delete_disk.
Op(kind, spec, wipe) == [kind |-> kind, spec |-> spec, wipe |-> wipe]
NoOp == Op("none", 1, FALSE)

Pcs == {"idle", "discards", "stages", "intends", "names", "copies", "publishes", "marks",
        "spawns", "receipts", "looks", "flags", "renames", "removes", "seeds", "fences", "quits",
        "polls", "done"}

NoJob == [pc |-> "idle", id |-> "none", op |-> NoOp, half |-> FALSE, reply |-> "none"]

\* The machine as the engine may know it (HostRuntime).
Abs(i) ==
    LET f == folder[i] IN
    [exists |-> f.meta, disk |-> IF f.meta THEN f.spec ELSE 0, seed |-> IF f.meta THEN f.seed ELSE 0,
     power |-> IF qemu[i].power = "launching" THEN "on" ELSE qemu[i].power, boot |-> qemu[i].boot,
     cred |-> qemu[i].cred, fenced |-> f.meta /\ f.fenced, retained |-> retained[i] # 0]

\* What a removal that was cut short leaves behind.
Whole(i) == folder[i].meta /\ folder[i].root # 0 /\ folder[i].seed # 0
Half(i) == folder[i].dir /\ ~Whole(i)

Init ==
    /\ folder = [i \in Ids |-> NoFolder] /\ staging = [i \in Ids |-> NoStaging]
    /\ retained = [i \in Ids |-> 0] /\ marker = [i \in Ids |-> NoMarker]
    /\ sock = [i \in Ids |-> FALSE] /\ child = [i \in Ids |-> FALSE]
    /\ qemu = [i \in Ids |-> [power |-> "off", boot |-> 0, cred |-> 0]]
    /\ up = TRUE /\ job = NoJob /\ before = Contract!NoMachine
    /\ kept = [i \in Ids |-> 0] /\ faults = 0

-----------------------------------------------------------------------------
(* status *)

Alive(i) == qemu[i].power # "off"

\* known_process_exited: the marker names a process that is no more.
\* Mutated form: a marker without a process id is taken for a launch that failed.
KnownExitedMutant(i) == Linux /\ ~(Alive(i) /\ qemu[i].boot = marker[i].boot)

KnownExited(i) ==
    Linux /\ marker[i].boot # 0 /\ ~(Alive(i) /\ qemu[i].boot = marker[i].boot)

\* What status concludes when QMP does not answer, of which a process that
\* lives may always be guilty.
SeenStopped(i) ==
    IF child[i] THEN ~Alive(i)
    ELSE IF marker[i].exists THEN KnownExited(i) ELSE ~sock[i]

Statuses(i) ==
    {IF SeenStopped(i) THEN "stopped" ELSE IF child[i] THEN "starting" ELSE "unknown"}
    \cup IF Alive(i) /\ sock[i] THEN {"running", "unknown"} ELSE {}

\* clear_running_marker, which follows wherever a process was seen to be gone.
Clears(i) ==
    /\ child' = [child EXCEPT ![i] = FALSE]
    /\ marker' = [marker EXCEPT ![i] = NoMarker]
    /\ sock' = [sock EXCEPT ![i] = FALSE]

\* GETs run beside a mutation of another machine.
Describes(i) ==
    /\ up /\ job.id # i /\ folder[i].meta /\ SeenStopped(i)
    /\ Clears(i)
    /\ UNCHANGED <<files, qemu, up, job, before, kept, faults>>

-----------------------------------------------------------------------------
(* The course of a mutation *)

\* It enters with the locks held and gets to pc, or is answered at once.
Enters(i, op, pc, reply) ==
    /\ job' = [pc |-> pc, id |-> i, op |-> op, half |-> Half(i), reply |-> reply]
    /\ before' = Abs(i)

Replies(i, op, reply) == Enters(i, op, "done", reply)

Goto(pc) == job' = [job EXCEPT !.pc = pc] /\ UNCHANGED before
Done(reply) == job' = [job EXCEPT !.pc = "done", !.reply = reply] /\ UNCHANGED before
At(pc) == up /\ job.pc = pc

-----------------------------------------------------------------------------
(* create *)

Unrecognized(i, spec) ==
    IF staging[i].intent # 0 THEN staging[i].intent # spec ELSE staging[i].litter

Create(i, op) ==
    /\ IF folder[i].meta
       THEN Replies(i, op, IF folder[i].spec = op.spec THEN "ok" ELSE "error")
       ELSE IF folder[i].dir \/ retained[i] # 0 \/ Unrecognized(i, op.spec)
            THEN Replies(i, op, "error")
            ELSE Enters(i, op, IF staging[i].dir THEN "discards" ELSE "stages", "none")
    /\ UNCHANGED <<files, launch, kept>>

Stages(i, s, pc) == staging' = [staging EXCEPT ![i] = s] /\ Goto(pc)

\* rmtree of the staging directory, in any order.
Discards(i) ==
    /\ At("discards")
    /\ LET s == staging[i] IN
       \/ s.intent # 0 /\ Stages(i, [s EXCEPT !.intent = 0], "discards")
       \/ s.litter /\ Stages(i, [s EXCEPT !.litter = FALSE], "discards")
       \/ s.intent = 0 /\ ~s.litter /\ Stages(i, NoStaging, "stages")
    /\ UNCHANGED <<folder, retained, launch, kept>>

\* mkdir; write_json of the intent, by a temporary file and a rename; the files.
Builds(i) ==
    /\ LET s == staging[i] IN
       \/ At("stages")  /\ Stages(i, [s EXCEPT !.dir = TRUE], "intends")
       \/ At("intends") /\ Stages(i, [s EXCEPT !.litter = TRUE], "names")
       \/ At("names")   /\ Stages(i, [s EXCEPT !.intent = job.op.spec, !.litter = FALSE], "copies")
       \/ At("copies")  /\ Stages(i, [s EXCEPT !.litter = TRUE], "publishes")
    /\ UNCHANGED <<folder, retained, launch, kept>>

Publishes(i) ==
    /\ At("publishes")
    /\ folder' = [folder EXCEPT ![i] = [NoFolder EXCEPT !.dir = TRUE, !.meta = TRUE,
                     !.spec = job.op.spec, !.root = job.op.spec, !.seed = job.op.spec]]
    /\ staging' = [staging EXCEPT ![i] = NoStaging]
    /\ Done("ok")
    /\ UNCHANGED <<retained, launch, kept>>

-----------------------------------------------------------------------------
(* start *)

\* Mutated form: only what is known to run counts.
SurelyCountedMutant(i) == {j \in Ids \ {i} : folder[j].meta /\ Alive(j) /\ (sock[j] \/ child[j])}

SurelyCounted(i) == {j \in Ids \ {i} : folder[j].meta /\ ~SeenStopped(j)}

\* A machine whose lock is taken is unknown, and counts.
MayCount(i) == {j \in Ids \ {i} : folder[j].meta}

Exceeds(i, counted) ==
    \/ MapThenSumSet(LAMBDA j : Memory[j], counted) + Memory[i] > MaxMemory
    \/ Cardinality(counted) >= MaxRunning

StartBegins(i, op) ==
    /\ folder[i].meta /\ ~folder[i].fenced /\ SeenStopped(i) /\ qemu[i].boot < MaxBoots
    /\ \E others \in SUBSET MayCount(i) :
          IF Exceeds(i, others \cup SurelyCounted(i)) THEN Replies(i, op, "limit")
          ELSE Enters(i, op, "marks", "none")
    /\ Clears(i)
    /\ UNCHANGED <<files, qemu, kept>>

StartAnswers(i, op) ==
    /\ IF ~folder[i].meta THEN Replies(i, op, "gone")
       ELSE IF folder[i].fenced THEN Replies(i, op, "error")
       ELSE /\ ~SeenStopped(i)
            /\ \E status \in Statuses(i) :
                  Replies(i, op, IF status \in {"running", "starting"} THEN "ok" ELSE "error")
    /\ UNCHANGED <<files, launch, kept>>

Marks(i) ==
    /\ At("marks")
    /\ marker' = [marker EXCEPT ![i] = [exists |-> TRUE, boot |-> 0]]
    /\ sock' = [sock EXCEPT ![i] = FALSE]
    /\ Goto("spawns")
    /\ UNCHANGED <<files, qemu, child, kept>>

Spawns(i) ==
    /\ At("spawns")
    /\ qemu' = [qemu EXCEPT ![i] = [power |-> "launching", boot |-> @.boot + 1, cred |-> folder[i].seed]]
    /\ child' = [child EXCEPT ![i] = TRUE]
    /\ Goto(IF Linux THEN "receipts" ELSE "looks")
    /\ UNCHANGED <<files, marker, sock, kept>>

\* The process's identity, if it can be read and written.
Receipts(i) ==
    /\ At("receipts")
    /\ marker' \in {marker, [marker EXCEPT ![i].boot = qemu[i].boot]}
    /\ Goto("looks")
    /\ UNCHANGED <<files, qemu, child, sock, kept>>

\* After 0.3 s, in which QEMU has opened its socket or ended.
Looks(i) ==
    /\ At("looks") /\ qemu[i].power # "launching"
    /\ Done(IF Alive(i) THEN "ok" ELSE "error")
    /\ UNCHANGED <<files, launch, kept>>

-----------------------------------------------------------------------------
(* stop and fence *)

Stop(i, op) ==
    /\ IF folder[i].meta THEN Enters(i, op, "quits", "none") ELSE Replies(i, op, "gone")
    /\ UNCHANGED <<files, launch, kept>>

Fence(i, op) ==
    /\ IF folder[i].meta THEN Enters(i, op, "fences", "none") ELSE Replies(i, op, "gone")
    /\ UNCHANGED <<files, launch, kept>>

Fences(i) ==
    /\ At("fences")
    /\ folder' = [folder EXCEPT ![i].fenced = TRUE]
    /\ Goto("quits")
    /\ UNCHANGED <<staging, retained, launch, kept>>

Asked == IF job.op.kind = "fence" THEN Goto("polls") ELSE Done("ok")

\* Runner.stop: nothing to do, the command by QMP (whose answer may be lost), or
\* no connection.
Quits(i) ==
    /\ At("quits")
    /\ \/ SeenStopped(i) /\ Clears(i) /\ Asked /\ UNCHANGED qemu
       \/ /\ ~SeenStopped(i) /\ Alive(i) /\ sock[i]
          /\ qemu' = IF job.op.kind = "shutdown" THEN qemu ELSE [qemu EXCEPT ![i].power = "quitting"]
          /\ Asked \/ Done("error")
          /\ UNCHANGED <<child, marker, sock>>
       \/ /\ ~SeenStopped(i)
          /\ Done(IF sock[i] THEN "error" ELSE "gone")
          /\ UNCHANGED launch
    /\ UNCHANGED <<files, kept>>

\* A fence is only answered once the machine is seen to be stopped.
Polls(i) ==
    /\ At("polls")
    /\ \/ SeenStopped(i) /\ Clears(i) /\ Done("ok")
       \/ ~SeenStopped(i) /\ Done("error") /\ UNCHANGED <<child, marker, sock>>
    /\ UNCHANGED <<files, qemu, kept>>

-----------------------------------------------------------------------------
(* destroy and reseed *)

Destroy(i, op) ==
    LET f == folder[i]
        old == retained[i] # 0
    IN  /\ IF ~f.dir THEN Replies(i, op, "ok")
           ELSE IF ~f.meta THEN Replies(i, op, "gone")
           ELSE IF ~SeenStopped(i) \/ (~op.wipe /\ old /\ (~f.retaining \/ f.root # 0))
                THEN Replies(i, op, "error")
           ELSE Enters(i, op, IF op.wipe \/ old THEN "removes" ELSE "flags", "none")
        /\ retained' = IF ~f.dir /\ op.wipe THEN [retained EXCEPT ![i] = 0] ELSE retained
        /\ IF f.meta /\ SeenStopped(i) THEN Clears(i) ELSE UNCHANGED <<child, marker, sock>>
        /\ kept' = IF op.wipe THEN [kept EXCEPT ![i] = 0]
                   ELSE IF f.meta /\ SeenStopped(i) /\ f.root # 0 /\ kept[i] = 0
                        THEN [kept EXCEPT ![i] = f.root] ELSE kept
        /\ UNCHANGED <<folder, staging, qemu>>

\* Mutated form: a disk that was to be retained is taken for one that is.
FlagsMutant(i) ==
    /\ At("flags")
    /\ folder' = [folder EXCEPT ![i].retaining = TRUE]
    /\ Goto(IF folder[i].retaining THEN "removes" ELSE "renames")
    /\ UNCHANGED <<staging, retained, launch, kept>>

Flags(i) ==
    /\ At("flags")
    /\ folder' = [folder EXCEPT ![i].retaining = TRUE]
    /\ Goto("renames")
    /\ UNCHANGED <<staging, retained, launch, kept>>

Renames(i) ==
    /\ At("renames")
    /\ IF folder[i].root = 0 THEN Done("gone") ELSE Goto("removes")
    /\ retained' = [retained EXCEPT ![i] = folder[i].root]
    /\ folder' = [folder EXCEPT ![i].root = 0]
    /\ UNCHANGED <<staging, launch, kept>>

\* rmtree, in any order.
Removes(i) ==
    /\ At("removes")
    /\ LET f == folder[i] IN
       \/ f.meta /\ folder' = [folder EXCEPT ![i] = [NoFolder EXCEPT !.dir = TRUE, !.root = f.root,
                                                                   !.seed = f.seed]]
                 /\ Goto("removes")
       \/ f.root # 0 /\ folder' = [folder EXCEPT ![i].root = 0] /\ Goto("removes")
       \/ f.seed # 0 /\ folder' = [folder EXCEPT ![i].seed = 0] /\ Goto("removes")
       \/ ~f.meta /\ f.root = 0 /\ f.seed = 0 /\ folder' = [folder EXCEPT ![i] = NoFolder] /\ Done("ok")
    /\ UNCHANGED <<staging, retained, launch, kept>>

Reseed(i, op) ==
    /\ IF ~folder[i].meta THEN Replies(i, op, "gone")
       ELSE IF ~SeenStopped(i) THEN Replies(i, op, "error")
       ELSE Enters(i, op, "seeds", "none")
    /\ IF folder[i].meta /\ SeenStopped(i) THEN Clears(i) ELSE UNCHANGED <<child, marker, sock>>
    /\ UNCHANGED <<files, qemu, kept>>

Seeds(i) ==
    /\ At("seeds")
    /\ folder' = [folder EXCEPT ![i].seed = job.op.spec]
    /\ Done("ok")
    /\ UNCHANGED <<staging, retained, launch, kept>>

-----------------------------------------------------------------------------
(* The rest of the host *)

QemuOpens(i) ==
    /\ qemu[i].power = "launching" /\ folder[i].root # 0 /\ folder[i].seed # 0
    /\ qemu' = [qemu EXCEPT ![i].power = "on"]
    /\ sock' = [sock EXCEPT ![i] = TRUE]
    /\ UNCHANGED <<files, child, marker, up, job, before, kept, faults>>

\* QEMU ends, as it was told to, with its guest, or because it failed; it removes
\* its socket, some time before, if it can.
QemuExits(i) ==
    /\ Alive(i)
    /\ qemu' = [qemu EXCEPT ![i].power = "off"]
    /\ UNCHANGED <<files, child, marker, sock, up, job, before, kept, faults>>

QemuCloses(i) ==
    /\ qemu[i].power = "quitting" /\ sock[i]
    /\ sock' = [sock EXCEPT ![i] = FALSE]
    /\ UNCHANGED <<files, child, marker, qemu, up, job, before, kept, faults>>

Spend == faults < MaxFaults /\ faults' = faults + 1

\* A system call fails: the mutation ends with an exception. When it was Popen,
\* there is no child.
CallFails ==
    /\ up /\ job.pc \notin {"idle", "receipts", "looks", "done"}
    /\ Spend
    /\ Done("error")
    /\ IF job.pc = "spawns" THEN Clears(job.id) ELSE UNCHANGED <<child, marker, sock>>
    /\ UNCHANGED <<files, qemu, up, kept>>

Forgets ==
    /\ up' = FALSE /\ job' = NoJob /\ before' = Contract!NoMachine
    /\ child' = [i \in Ids |-> FALSE]

\* The supervisor is killed, perhaps between the two removals of
\* clear_running_marker. QEMU lives on.
Crashes ==
    /\ up /\ Spend /\ Forgets
    /\ marker' \in {marker} \cup {[marker EXCEPT ![i] = NoMarker] :
                                     i \in {j \in Ids : folder[j].meta /\ SeenStopped(j)}}
    /\ UNCHANGED <<files, sock, qemu, kept>>

HostReboots ==
    /\ Spend /\ Forgets
    /\ qemu' = [i \in Ids |-> [qemu[i] EXCEPT !.power = "off"]]
    /\ UNCHANGED <<files, marker, sock, kept>>

\* No launch takes as long as a restart of the supervisor.
Restarts ==
    /\ ~up /\ \A i \in Ids : qemu[i].power # "launching"
    /\ up' = TRUE
    /\ UNCHANGED <<files, launch, job, before, kept, faults>>

-----------------------------------------------------------------------------

Begins(i, op) ==
    CASE op.kind = "create"  -> Create(i, op)
      [] op.kind = "start"   -> StartBegins(i, op) \/ StartAnswers(i, op)
      [] op.kind = "fence"   -> Fence(i, op)
      [] op.kind = "destroy" -> Destroy(i, op)
      [] op.kind = "reseed"  -> Reseed(i, op)
      [] OTHER               -> Stop(i, op)

Accepts ==
    /\ At("idle")
    /\ \E i \in Ids : \E op \in Calls[i] : Begins(i, op)
    /\ UNCHANGED <<up, faults>>

Continues ==
    /\ \E i \in {job.id} :
          \/ Discards(i) \/ Builds(i) \/ Publishes(i) \/ Marks(i) \/ Spawns(i) \/ Receipts(i)
          \/ Looks(i) \/ Fences(i) \/ Quits(i) \/ Polls(i) \/ Flags(i) \/ Renames(i)
          \/ Removes(i) \/ Seeds(i)
    /\ UNCHANGED <<up, faults>>

Answers ==
    /\ At("done")
    /\ job' = NoJob /\ before' = Contract!NoMachine
    /\ UNCHANGED <<files, launch, up, kept, faults>>

Next ==
    \/ Accepts \/ Continues \/ Answers \/ CallFails \/ Crashes \/ HostReboots \/ Restarts
    \/ \E i \in Ids : Describes(i) \/ QemuOpens(i) \/ QemuExits(i) \/ QemuCloses(i)

Spec == Init /\ [][Next]_vars

-----------------------------------------------------------------------------
(* Properties *)

RunnerTypeOK ==
    /\ folder \in [Ids -> Folder] /\ retained \in [Ids -> Nat] /\ kept \in [Ids -> Nat]
    /\ staging \in [Ids -> [dir: BOOLEAN, intent: Nat, litter: BOOLEAN]]
    /\ marker \in [Ids -> [exists: BOOLEAN, boot: 0..MaxBoots]]
    /\ sock \in [Ids -> BOOLEAN] /\ child \in [Ids -> BOOLEAN] /\ up \in BOOLEAN
    /\ qemu \in [Ids -> [power: Contract!Power \cup {"launching"}, boot: 0..MaxBoots, cred: Nat]]
    /\ job.pc \in Pcs /\ job.id \in Ids \cup {"none"}
    /\ job.op \in (UNION {Calls[i] : i \in Ids}) \cup {NoOp} /\ before \in Contract!Machine /\ faults \in 0..MaxFaults

\* QEMU may end at any time.
Exits(m) == {m, Contract!ProcessExits(m), Contract!GuestPowersOff(m)}

\* What a mutation of m may have done.
Effects(op, m) ==
    UNION {{[machine |-> n, reply |-> o.reply] : n \in Exits(o.machine)} :
              o \in UNION {Contract!Outcomes(op.kind, n, op.spec, op.wipe) : n \in Exits(m)}}

Failures(op, m) ==
    {[machine |-> n, reply |-> r] :
        n \in UNION {Exits(l) : l \in Contract!Leftovers(op.kind, m)}, r \in Contract!Failed(op.kind)}

\* A describe is truthful or evasive, whatever crashed before: "stopped" is told
\* of no machine whose QEMU lives, by whatever supervisor launched it.
DescribesTruly ==
    \A i \in Ids : up /\ folder[i].meta =>
        Statuses(i) \subseteq Contract!Observed(Abs(i), FALSE) \cup Contract!Evasive(Abs(i))

\* At each of its steps a mutation has done to its machine what HostRuntime allows,
\* and it is answered accordingly, unless a removal of the machine was cut short.
MeetsContract ==
    /\ RunnerTypeOK
    /\ DescribesTruly
    /\ job.pc # "idle" =>
         \/ job.half \/ Half(job.id)
         \/ \E e \in Effects(job.op, before) \cup Failures(job.op, before) :
               /\ e.machine = Abs(job.id)
               /\ job.pc = "done" => e.reply = job.reply \/ job.reply = "error"

\* The host never runs more machines, or more memory, than it was configured for,
\* whichever supervisor started them (host.py:341-346).
LimitsHold ==
    LET live == {i \in Ids : Alive(i)} IN
    Cardinality(live) <= MaxRunning /\ MapThenSumSet(LAMBDA i : Memory[i], live) <= MaxMemory

\* A disk that destroy was asked to keep is there until a destroy may delete it,
\* whatever is cut short, retried or created in between (host.py:383-400).
KeptDiskSurvives ==
    \A i \in Ids : kept[i] # 0 => kept[i] \in {folder[i].root, retained[i]}
=============================================================================
