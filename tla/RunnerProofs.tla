----------------------------- MODULE RunnerProofs -----------------------------
(***************************************************************************)
(* What Runner promises for any number of machines, any mutations, and     *)
(* however often the supervisor, the host or a system call fails.          *)
(***************************************************************************)
EXTENDS Runner, TLAPS, FiniteSetTheorems, WellFoundedInduction

AnyOp == (UNION {Calls[i] : i \in Ids}) \cup {NoOp}

Typed ==
    /\ folder \in [Ids -> Folder] /\ retained \in [Ids -> Nat] /\ kept \in [Ids -> Nat]
    /\ job \in [pc: Pcs, id: Ids \cup {"none"}, op: AnyOp, half: BOOLEAN,
                reply: {"none", "ok", "error", "gone", "limit"}]
    /\ job.pc # "idle" => job.id \in Ids
    /\ \A i \in Ids : ~folder[i].dir => folder[i].root = 0

\* The steps of a create that lead to a published machine, those of a destroy
\* that lead to a removal.
Building == {"discards", "stages", "intends", "names", "copies", "publishes"}
Removing == {"flags", "renames", "removes"}

\* A create is under way only where no disk is kept; a disk about to be renamed
\* overwrites none; what is about to be removed is not what is kept.
StepInv ==
    /\ job.pc \in Building => kept[job.id] = 0
    /\ job.pc \in {"flags", "renames"} => retained[job.id] = 0
    /\ job.pc = "removes" /\ kept[job.id] # 0 => kept[job.id] = retained[job.id]

KeepInv == Typed /\ KeptDiskSurvives /\ StepInv

LEMMA OpsAreTyped ==
    ASSUME NEW op \in AnyOp
    PROVE  op.spec \in Nat \ {0} /\ op.wipe \in BOOLEAN
<1>1. CASE op = NoOp
    BY <1>1 DEF NoOp, Op
<1>2. CASE \E i \in Ids : op \in Calls[i]
    BY <1>2, RunnerConstants
<1> QED BY <1>1, <1>2 DEF AnyOp

LEMMA InitKeeps == Init => KeepInv
<1> SUFFICES ASSUME Init PROVE KeepInv
    OBVIOUS
<1>1. job \in [pc: Pcs, id: Ids \cup {"none"}, op: AnyOp, half: BOOLEAN,
               reply: {"none", "ok", "error", "gone", "limit"}] /\ job.pc = "idle"
    <2>1. NoOp \in AnyOp
        BY DEF AnyOp
    <2> QED BY <2>1 DEF Init, NoJob, Pcs
<1>2. Typed
    BY <1>1 DEF Init, Typed, Folder, NoFolder
<1>3. KeptDiskSurvives
    BY DEF Init, KeptDiskSurvives
<1>4. StepInv
    BY <1>1 DEF StepInv, Building
<1> QED BY <1>2, <1>3, <1>4 DEF KeepInv

\* Where a mutation goes.
LEMMA GoesOn ==
    ASSUME Typed, job.pc # "idle", NEW pc \in Pcs \ {"idle"}, Goto(pc)
    PROVE  /\ job' \in [pc: Pcs, id: Ids \cup {"none"}, op: AnyOp, half: BOOLEAN,
                        reply: {"none", "ok", "error", "gone", "limit"}]
           /\ job'.pc = pc /\ job'.id = job.id /\ job'.op = job.op
BY DEF Typed, Goto

LEMMA IsDone ==
    ASSUME Typed, job.pc # "idle", NEW reply \in {"ok", "error", "gone"}, Done(reply)
    PROVE  /\ job' \in [pc: Pcs, id: Ids \cup {"none"}, op: AnyOp, half: BOOLEAN,
                        reply: {"none", "ok", "error", "gone", "limit"}]
           /\ job'.pc = "done" /\ job'.id = job.id
BY DEF Typed, Done, Pcs

LEMMA ComesIn ==
    ASSUME Typed, NEW i \in Ids, NEW op \in Calls[i], NEW pc \in Pcs,
           NEW reply \in {"none", "ok", "error", "gone", "limit"}, Enters(i, op, pc, reply)
    PROVE  /\ job' \in [pc: Pcs, id: Ids \cup {"none"}, op: AnyOp, half: BOOLEAN,
                        reply: {"none", "ok", "error", "gone", "limit"}]
           /\ job'.pc = pc /\ job'.id = i
<1>1. Half(i) \in BOOLEAN
    BY DEF Half, Typed, Folder
<1>2. op \in AnyOp
    BY DEF AnyOp
<1> QED BY <1>1, <1>2 DEF Enters

\* A step that leaves disks alone and does not enter a create or a removal.
LEMMA AsideKeeps ==
    ASSUME KeepInv, UNCHANGED <<folder, retained, kept>>,
           \/ job' = job
           \/ /\ job' \in [pc: Pcs, id: Ids \cup {"none"}, op: AnyOp, half: BOOLEAN,
                           reply: {"none", "ok", "error", "gone", "limit"}]
              /\ job'.pc # "idle" => job'.id \in Ids
              /\ job'.pc \notin Building \cup Removing
    PROVE  KeepInv'
<1>1. Typed'
    BY DEF KeepInv, Typed
<1>2. KeptDiskSurvives'
    BY DEF KeepInv, KeptDiskSurvives
<1>3. StepInv'
    BY DEF KeepInv, StepInv, Removing
<1> QED BY <1>1, <1>2, <1>3 DEF KeepInv

\* One that changes a machine's flags or seed, but not its disk.
LEMMA FlagKeeps ==
    ASSUME KeepInv, NEW i \in Ids, NEW f \in Folder, folder' = [folder EXCEPT ![i] = f],
           f.dir = folder[i].dir, f.root = folder[i].root, UNCHANGED <<retained, kept>>,
           job' \in [pc: Pcs, id: Ids \cup {"none"}, op: AnyOp, half: BOOLEAN,
                     reply: {"none", "ok", "error", "gone", "limit"}],
           job'.id \in Ids, job'.pc \notin Building \cup {"flags", "renames", "removes"}
    PROVE  KeepInv'
<1>1. Typed'
    BY DEF KeepInv, Typed
<1>2. KeptDiskSurvives'
    BY DEF KeepInv, KeptDiskSurvives, Typed
<1>3. StepInv'
    BY DEF StepInv
<1> QED BY <1>1, <1>2, <1>3 DEF KeepInv

-----------------------------------------------------------------------------
(* create *)

LEMMA CreateKeeps ==
    ASSUME KeepInv, NEW i \in Ids, NEW op \in Calls[i], Create(i, op)
    PROVE  KeepInv'
<1>1. UNCHANGED <<folder, retained, kept>>
    BY DEF Create, files
<1>2. \/ Enters(i, op, "done", "ok") \/ Enters(i, op, "done", "error")
      \/ /\ ~folder[i].dir /\ retained[i] = 0
         /\ Enters(i, op, "discards", "none") \/ Enters(i, op, "stages", "none")
    BY DEF Create, Replies
<1>3. CASE Enters(i, op, "done", "ok") \/ Enters(i, op, "done", "error")
    <2>1. /\ job' \in [pc: Pcs, id: Ids \cup {"none"}, op: AnyOp, half: BOOLEAN,
                       reply: {"none", "ok", "error", "gone", "limit"}]
          /\ job'.pc = "done" /\ job'.id = i
        BY <1>3, ComesIn DEF KeepInv, Pcs
    <2> QED BY <1>1, <2>1, AsideKeeps DEF Building, Removing
<1>4. CASE /\ ~folder[i].dir /\ retained[i] = 0
           /\ Enters(i, op, "discards", "none") \/ Enters(i, op, "stages", "none")
    <2>1. /\ job' \in [pc: Pcs, id: Ids \cup {"none"}, op: AnyOp, half: BOOLEAN,
                       reply: {"none", "ok", "error", "gone", "limit"}]
          /\ job'.pc \in {"discards", "stages"} /\ job'.id = i
        BY <1>4, ComesIn DEF KeepInv, Pcs
    <2>2. kept[i] = 0
        BY <1>4 DEF KeepInv, Typed, KeptDiskSurvives
    <2>3. Typed'
        BY <1>1, <2>1 DEF KeepInv, Typed
    <2>4. KeptDiskSurvives'
        BY <1>1 DEF KeepInv, KeptDiskSurvives
    <2>5. StepInv'
        BY <1>1, <2>1, <2>2 DEF StepInv
    <2> QED BY <2>3, <2>4, <2>5 DEF KeepInv
<1> QED BY <1>2, <1>3, <1>4

LEMMA BuildsKeeps ==
    ASSUME KeepInv, NEW i \in Ids, Discards(i) \/ Builds(i)
    PROVE  KeepInv'
<1>1. UNCHANGED <<folder, retained, kept>>
    BY DEF Discards, Builds
<1>2. job.pc \in Building /\ \E pc \in Building : Goto(pc)
    BY DEF Discards, Builds, Stages, At, Building
<1>3. /\ job' \in [pc: Pcs, id: Ids \cup {"none"}, op: AnyOp, half: BOOLEAN,
                   reply: {"none", "ok", "error", "gone", "limit"}]
      /\ job'.pc \in Building /\ job'.id = job.id
    BY <1>2, GoesOn DEF KeepInv, Building, Pcs
<1>4. Typed'
    BY <1>1, <1>2, <1>3 DEF KeepInv, Typed, Building
<1>5. KeptDiskSurvives'
    BY <1>1 DEF KeepInv, KeptDiskSurvives
<1>6. StepInv'
    BY <1>1, <1>2, <1>3 DEF KeepInv, StepInv, Building
<1> QED BY <1>4, <1>5, <1>6 DEF KeepInv

LEMMA PublishesKeeps ==
    ASSUME KeepInv, NEW i \in Ids, i = job.id, Publishes(i)
    PROVE  KeepInv'
<1> DEFINE f == [NoFolder EXCEPT !.dir = TRUE, !.meta = TRUE, !.spec = job.op.spec,
                                 !.root = job.op.spec, !.seed = job.op.spec]
<1>1. /\ job.pc = "publishes" /\ folder' = [folder EXCEPT ![i] = f]
      /\ UNCHANGED <<retained, kept>> /\ Done("ok")
    BY DEF Publishes, At
<1>2. f \in Folder /\ f.dir
    <2>1. job.op.spec \in Nat
        BY OpsAreTyped DEF KeepInv, Typed
    <2> QED BY <2>1 DEF NoFolder, Folder
<1> HIDE DEF f
<1>3. /\ job' \in [pc: Pcs, id: Ids \cup {"none"}, op: AnyOp, half: BOOLEAN,
                   reply: {"none", "ok", "error", "gone", "limit"}]
      /\ job'.pc = "done" /\ job'.id = job.id
    BY <1>1, IsDone DEF KeepInv
<1>4. kept[i] = 0
    BY <1>1 DEF KeepInv, StepInv, Building
<1>5. Typed'
    BY <1>1, <1>2, <1>3 DEF KeepInv, Typed
<1>6. KeptDiskSurvives'
    BY <1>1, <1>4 DEF KeepInv, KeptDiskSurvives, Typed
<1>7. StepInv'
    BY <1>3 DEF StepInv, Building
<1> QED BY <1>5, <1>6, <1>7 DEF KeepInv

-----------------------------------------------------------------------------
(* destroy *)

LEMMA DestroyKeeps ==
    ASSUME KeepInv, NEW i \in Ids, NEW op \in Calls[i], Destroy(i, op)
    PROVE  KeepInv'
<1> DEFINE f == folder[i]
           asked == f.meta /\ SeenStopped(i) /\ f.root # 0 /\ kept[i] = 0
<1>1. folder' = folder
    BY DEF Destroy
<1>2. op.wipe \in BOOLEAN
    BY OpsAreTyped DEF AnyOp
<1>3. retained' = IF ~f.dir /\ op.wipe THEN [retained EXCEPT ![i] = 0] ELSE retained
    BY DEF Destroy
<1>4. kept' = IF op.wipe THEN [kept EXCEPT ![i] = 0]
              ELSE IF asked THEN [kept EXCEPT ![i] = f.root] ELSE kept
    BY DEF Destroy
<1>5. \/ \E reply \in {"ok", "gone", "error"} : Enters(i, op, "done", reply)
      \/ /\ Enters(i, op, "removes", "none") /\ f.dir
         /\ op.wipe \/ (retained[i] # 0 /\ f.root = 0)
      \/ Enters(i, op, "flags", "none") /\ retained[i] = 0 /\ f.dir
    BY DEF Destroy, Replies
<1>6. /\ job' \in [pc: Pcs, id: Ids \cup {"none"}, op: AnyOp, half: BOOLEAN,
                   reply: {"none", "ok", "error", "gone", "limit"}]
      /\ job'.id = i /\ job'.pc \in {"done", "removes", "flags"}
    BY <1>5, ComesIn DEF KeepInv, Pcs
<1>7. Typed'
    <2>1. retained' \in [Ids -> Nat]
        BY <1>3 DEF KeepInv, Typed
    <2>2. kept' \in [Ids -> Nat]
        BY <1>4 DEF KeepInv, Typed, Folder
    <2> QED BY <1>1, <1>6, <2>1, <2>2 DEF KeepInv, Typed
<1>8. KeptDiskSurvives'
    <2> SUFFICES ASSUME NEW j \in Ids, kept'[j] # 0 PROVE kept'[j] \in {folder'[j].root, retained'[j]}
        BY DEF KeptDiskSurvives
    <2>1. CASE j # i
        BY <1>1, <1>3, <1>4, <2>1 DEF KeepInv, KeptDiskSurvives, Typed
    <2>2. CASE j = i
        BY <1>1, <1>3, <1>4, <2>2 DEF KeepInv, KeptDiskSurvives, Typed
    <2> QED BY <2>1, <2>2
<1>9. StepInv'
    <2>1. CASE job'.pc = "removes"
        <3>1. f.dir /\ (op.wipe \/ (retained[i] # 0 /\ f.root = 0))
            BY <1>5, <2>1 DEF Enters
        <3>2. CASE op.wipe
            BY <1>4, <1>6, <2>1, <3>2 DEF StepInv, Building, KeepInv, Typed
        <3>3. CASE ~op.wipe /\ f.root = 0
            BY <1>3, <1>4, <1>6, <2>1, <3>3 DEF StepInv, Building, KeepInv, KeptDiskSurvives, Typed
        <3> QED BY <3>1, <3>2, <3>3
    <2>2. CASE job'.pc = "flags"
        <3>1. retained[i] = 0 /\ f.dir
            BY <1>5, <2>2 DEF Enters
        <3> QED BY <1>3, <1>6, <2>2, <3>1 DEF StepInv, Building
    <2>3. CASE job'.pc = "done"
        BY <2>3 DEF StepInv, Building
    <2> QED BY <1>6, <2>1, <2>2, <2>3
<1> QED BY <1>7, <1>8, <1>9 DEF KeepInv

LEMMA FlagsKeeps ==
    ASSUME KeepInv, NEW i \in Ids, i = job.id, Flags(i)
    PROVE  KeepInv'
<1>1. /\ job.pc = "flags" /\ folder' = [folder EXCEPT ![i].retaining = TRUE]
      /\ UNCHANGED <<retained, kept>> /\ Goto("renames")
    BY DEF Flags, At
<1>2. /\ job' \in [pc: Pcs, id: Ids \cup {"none"}, op: AnyOp, half: BOOLEAN,
                   reply: {"none", "ok", "error", "gone", "limit"}]
      /\ job'.pc = "renames" /\ job'.id = job.id
    BY <1>1, GoesOn DEF KeepInv, Pcs
<1>3. folder' \in [Ids -> Folder] /\ \A j \in Ids : folder'[j].root = folder[j].root
                                                    /\ folder'[j].dir = folder[j].dir
    BY <1>1, ZenonT(40) DEF KeepInv, Typed, Folder
<1>4. Typed'
    BY <1>1, <1>2, <1>3 DEF KeepInv, Typed
<1>5. KeptDiskSurvives'
    BY <1>1, <1>3 DEF KeepInv, KeptDiskSurvives
<1>6. StepInv'
    BY <1>1, <1>2 DEF KeepInv, StepInv, Building
<1> QED BY <1>4, <1>5, <1>6 DEF KeepInv

LEMMA RenamesKeeps ==
    ASSUME KeepInv, NEW i \in Ids, i = job.id, Renames(i)
    PROVE  KeepInv'
<1>1. /\ job.pc = "renames" /\ folder' = [folder EXCEPT ![i].root = 0]
      /\ retained' = [retained EXCEPT ![i] = folder[i].root] /\ kept' = kept
    BY DEF Renames, At
<1>2. retained[i] = 0
    BY <1>1 DEF KeepInv, StepInv
<1>3. kept[i] # 0 => kept[i] = folder[i].root
    BY <1>2 DEF KeepInv, KeptDiskSurvives
<1>4. folder[i].root \in Nat
    BY DEF KeepInv, Typed, Folder
<1>5. /\ job' \in [pc: Pcs, id: Ids \cup {"none"}, op: AnyOp, half: BOOLEAN,
                   reply: {"none", "ok", "error", "gone", "limit"}]
      /\ job'.pc \in {"done", "removes"} /\ job'.id = job.id
    BY <1>1, GoesOn, IsDone DEF Renames, KeepInv, Pcs
<1>6. /\ folder' \in [Ids -> Folder] /\ folder'[i].root = 0
      /\ \A j \in Ids : folder'[j].dir = folder[j].dir
      /\ \A j \in Ids \ {i} : folder'[j] = folder[j]
    BY <1>1 DEF KeepInv, Typed, Folder
<1>7. Typed'
    BY <1>1, <1>4, <1>5, <1>6 DEF KeepInv, Typed
<1>8. KeptDiskSurvives'
    BY <1>1, <1>3, <1>6 DEF KeepInv, KeptDiskSurvives, Typed
<1>9. StepInv'
    BY <1>1, <1>3, <1>5 DEF StepInv, Building, KeepInv, Typed
<1> QED BY <1>7, <1>8, <1>9 DEF KeepInv

LEMMA RemovesKeeps ==
    ASSUME KeepInv, NEW i \in Ids, i = job.id, Removes(i)
    PROVE  KeepInv'
<1>1. job.pc = "removes" /\ UNCHANGED <<retained, kept>>
    BY DEF Removes, At
<1>2. \E f \in Folder : folder' = [folder EXCEPT ![i] = f] /\ (~f.dir => f.root = 0)
    <2>1. folder[i] \in Folder /\ (~folder[i].dir => folder[i].root = 0)
        BY DEF KeepInv, Typed
    <2>2. CASE folder' = [folder EXCEPT ![i] = [NoFolder EXCEPT !.dir = TRUE, !.root = folder[i].root,
                                                               !.seed = folder[i].seed]]
        <3> DEFINE f == [NoFolder EXCEPT !.dir = TRUE, !.root = folder[i].root, !.seed = folder[i].seed]
        <3>1. folder' = [folder EXCEPT ![i] = f]
            BY <2>2
        <3>2. f \in Folder /\ (~f.dir => f.root = 0)
            BY <2>1 DEF NoFolder, Folder
        <3> QED BY <3>1, <3>2
    <2>3. CASE folder' = [folder EXCEPT ![i].root = 0]
        <3> DEFINE f == [folder[i] EXCEPT !.root = 0]
        <3>1. folder' = [folder EXCEPT ![i] = f]
            BY <2>3
        <3>2. f \in Folder /\ (~f.dir => f.root = 0)
            BY <2>1 DEF NoFolder, Folder
        <3> QED BY <3>1, <3>2
    <2>4. CASE folder' = [folder EXCEPT ![i].seed = 0]
        <3> DEFINE f == [folder[i] EXCEPT !.seed = 0]
        <3>1. folder' = [folder EXCEPT ![i] = f]
            BY <2>4
        <3>2. f \in Folder /\ (~f.dir => f.root = 0)
            BY <2>1 DEF NoFolder, Folder
        <3> QED BY <3>1, <3>2
    <2>5. CASE folder' = [folder EXCEPT ![i] = NoFolder]
        <3> DEFINE f == NoFolder
        <3>1. folder' = [folder EXCEPT ![i] = f]
            BY <2>5
        <3>2. f \in Folder /\ (~f.dir => f.root = 0)
            BY <2>1 DEF NoFolder, Folder
        <3> QED BY <3>1, <3>2
    <2> QED BY <2>2, <2>3, <2>4, <2>5 DEF Removes
<1>3. /\ job' \in [pc: Pcs, id: Ids \cup {"none"}, op: AnyOp, half: BOOLEAN,
                   reply: {"none", "ok", "error", "gone", "limit"}]
      /\ job'.pc \in {"done", "removes"} /\ job'.id = job.id
    BY <1>1, GoesOn, IsDone DEF Removes, KeepInv, Pcs
<1>4. Typed'
    BY <1>1, <1>2, <1>3 DEF KeepInv, Typed
<1>5. KeptDiskSurvives'
    <2>1. \A j \in Ids \ {i} : folder'[j] = folder[j]
        BY <1>2 DEF KeepInv, Typed
    <2> QED BY <1>1, <2>1 DEF KeepInv, KeptDiskSurvives, StepInv
<1>6. StepInv'
    BY <1>1, <1>3 DEF KeepInv, StepInv, Building
<1> QED BY <1>4, <1>5, <1>6 DEF KeepInv

-----------------------------------------------------------------------------
(* The other mutations, and the host *)

LEMMA FencesKeeps ==
    ASSUME KeepInv, NEW i \in Ids, i = job.id, Fences(i) \/ Seeds(i)
    PROVE  KeepInv'
<1>1. /\ UNCHANGED <<retained, kept>> /\ job.pc # "idle"
      /\ Goto("quits") \/ Done("ok")
    BY DEF Fences, Seeds, At
<1>2. \E f \in Folder : folder' = [folder EXCEPT ![i] = f] /\ f.dir = folder[i].dir
                                                           /\ f.root = folder[i].root
    <2>1. folder[i] \in Folder /\ job.op.spec \in Nat
        BY OpsAreTyped DEF KeepInv, Typed
    <2>2. CASE Fences(i)
        <3> DEFINE f == [folder[i] EXCEPT !.fenced = TRUE]
        <3>1. folder' = [folder EXCEPT ![i] = f]
            BY <2>2 DEF Fences
        <3>2. f \in Folder /\ f.dir = folder[i].dir /\ f.root = folder[i].root
            BY <2>1 DEF Folder
        <3> QED BY <3>1, <3>2
    <2>3. CASE Seeds(i)
        <3> DEFINE f == [folder[i] EXCEPT !.seed = job.op.spec]
        <3>1. folder' = [folder EXCEPT ![i] = f]
            BY <2>3 DEF Seeds
        <3>2. f \in Folder /\ f.dir = folder[i].dir /\ f.root = folder[i].root
            BY <2>1 DEF Folder
        <3> QED BY <3>1, <3>2
    <2> QED BY <2>2, <2>3
<1>3. /\ job' \in [pc: Pcs, id: Ids \cup {"none"}, op: AnyOp, half: BOOLEAN,
                   reply: {"none", "ok", "error", "gone", "limit"}]
      /\ job'.pc \in {"done", "quits"} /\ job'.id = job.id
    BY <1>1, GoesOn, IsDone DEF KeepInv, Pcs
<1> QED BY <1>1, <1>2, <1>3, FlagKeeps DEF Building

\* A mutation begins that is neither create nor destroy.
LEMMA OthersKeep ==
    ASSUME KeepInv, NEW i \in Ids, NEW op \in Calls[i],
           StartBegins(i, op) \/ StartAnswers(i, op) \/ Fence(i, op) \/ Reseed(i, op) \/ Stop(i, op)
    PROVE  KeepInv'
<1>1. UNCHANGED <<folder, retained, kept>>
    BY DEF StartBegins, StartAnswers, Fence, Reseed, Stop, files
<1>2. \E pc \in {"done", "marks", "fences", "seeds", "quits"} :
         \E reply \in {"none", "ok", "error", "gone", "limit"} : Enters(i, op, pc, reply)
    <2>1. CASE StartBegins(i, op)
        BY <2>1 DEF StartBegins, Replies
    <2>2. CASE StartAnswers(i, op)
        BY <2>2 DEF StartAnswers, Replies
    <2>3. CASE Fence(i, op) \/ Reseed(i, op) \/ Stop(i, op)
        BY <2>3 DEF Fence, Reseed, Stop, Replies
    <2> QED BY <2>1, <2>2, <2>3
<1>3. /\ job' \in [pc: Pcs, id: Ids \cup {"none"}, op: AnyOp, half: BOOLEAN,
                   reply: {"none", "ok", "error", "gone", "limit"}]
      /\ job'.id = i /\ job'.pc \in {"done", "marks", "fences", "seeds", "quits"}
    BY <1>2, ComesIn DEF KeepInv, Pcs
<1> QED BY <1>1, <1>3, AsideKeeps DEF Building, Removing

\* A start, a stop or a fence goes on; a mutation fails.
LEMMA LaunchKeeps ==
    ASSUME KeepInv, NEW i \in Ids, Marks(i) \/ Spawns(i) \/ Receipts(i) \/ Looks(i) \/ Quits(i) \/ Polls(i)
                                   \/ CallFails
    PROVE  KeepInv'
<1>1. UNCHANGED <<folder, retained, kept>> /\ job.pc # "idle"
    BY DEF Marks, Spawns, Receipts, Looks, Quits, Polls, CallFails, files, At
<1>2. \/ \E pc \in {"spawns", "receipts", "looks", "polls"} : Goto(pc)
      \/ \E reply \in {"ok", "error", "gone"} : Done(reply)
    BY DEF Marks, Spawns, Receipts, Looks, Quits, Polls, CallFails, Asked
<1>3. /\ job' \in [pc: Pcs, id: Ids \cup {"none"}, op: AnyOp, half: BOOLEAN,
                   reply: {"none", "ok", "error", "gone", "limit"}]
      /\ job'.id = job.id /\ job'.pc \in {"done", "spawns", "receipts", "looks", "polls"}
    BY <1>1, <1>2, GoesOn, IsDone DEF KeepInv, Pcs
<1>4. job'.id \in Ids
    BY <1>1, <1>3 DEF KeepInv, Typed
<1> QED BY <1>1, <1>3, <1>4, AsideKeeps DEF Building, Removing

LEMMA HostKeeps ==
    ASSUME KeepInv, \/ Answers \/ Crashes \/ HostReboots \/ Restarts
                    \/ \E i \in Ids : Describes(i) \/ QemuOpens(i) \/ QemuExits(i) \/ QemuCloses(i)
                    \/ UNCHANGED vars
    PROVE  KeepInv'
<1>1. UNCHANGED <<folder, retained, kept>> /\ (job' = job \/ job' = NoJob)
    BY DEF Answers, Crashes, HostReboots, Restarts, Describes, QemuOpens, QemuExits, QemuCloses,
           Forgets, files, vars
<1>2. /\ NoJob \in [pc: Pcs, id: Ids \cup {"none"}, op: AnyOp, half: BOOLEAN,
                    reply: {"none", "ok", "error", "gone", "limit"}]
      /\ NoJob.pc = "idle"
    <2>1. NoOp \in AnyOp
        BY DEF AnyOp
    <2> QED BY <2>1 DEF NoJob, Pcs
<1> QED BY <1>1, <1>2, AsideKeeps DEF Building, Removing

-----------------------------------------------------------------------------

LEMMA StepKeeps == ASSUME KeepInv, [Next]_vars PROVE KeepInv'
<1>1. CASE Accepts
    <2>1. PICK i \in Ids : \E op \in Calls[i] : Begins(i, op)
        BY <1>1 DEF Accepts
    <2>2. PICK op \in Calls[i] : Begins(i, op)
        BY <2>1
    <2>3. \/ Create(i, op) \/ Destroy(i, op) \/ StartBegins(i, op) \/ StartAnswers(i, op)
          \/ Fence(i, op) \/ Reseed(i, op) \/ Stop(i, op)
        BY <2>2 DEF Begins
    <2> QED BY <2>3, CreateKeeps, DestroyKeeps, OthersKeep
<1>2. CASE Continues
    <2>1. PICK i \in {job.id} :
             \/ Discards(i) \/ Builds(i) \/ Publishes(i) \/ Marks(i) \/ Spawns(i) \/ Receipts(i)
             \/ Looks(i) \/ Fences(i) \/ Quits(i) \/ Polls(i) \/ Flags(i) \/ Renames(i)
             \/ Removes(i) \/ Seeds(i)
        BY <1>2 DEF Continues
    <2>2. job.pc # "idle"
        BY <2>1 DEF Discards, Builds, Publishes, Marks, Spawns, Receipts, Looks, Fences, Quits, Polls,
                    Flags, Renames, Removes, Seeds, At
    <2>3. i \in Ids
        BY <2>2 DEF KeepInv, Typed
    <2> QED BY <2>1, <2>3, BuildsKeeps, PublishesKeeps, LaunchKeeps, FencesKeeps, FlagsKeeps,
               RenamesKeeps, RemovesKeeps
<1>3. CASE CallFails
    <2>1. job.id \in Ids
        BY <1>3 DEF CallFails, KeepInv, Typed
    <2> QED BY <1>3, <2>1, LaunchKeeps
<1>4. CASE \/ Answers \/ Crashes \/ HostReboots \/ Restarts
           \/ \E i \in Ids : Describes(i) \/ QemuOpens(i) \/ QemuExits(i) \/ QemuCloses(i)
           \/ UNCHANGED vars
    BY <1>4, HostKeeps
<1> QED BY <1>1, <1>2, <1>3, <1>4 DEF Next

\* A disk that destroy was asked to keep is there until a destroy may delete it,
\* whatever is cut short, retried or created in between (host.py:383-400).
THEOREM KeptDiskHolds == Spec => []KeptDiskSurvives
<1>1. KeepInv => KeptDiskSurvives
    BY DEF KeepInv
<1> QED BY <1>1, InitKeeps, StepKeeps, PTL DEF Spec
-----------------------------------------------------------------------------
(* What a mutation may do and answer (HostRuntime) *)

Halted(m) == [m EXCEPT !.power = "off"]
Flagged(m) == [m EXCEPT !.fenced = TRUE]

\* n is what op may make of m, if it is answered with r.
Served(op, m, n, r) ==
    \E e \in Effects(op, m) \cup Failures(op, m) : e.machine = n /\ (e.reply = r \/ r = "error")

LEMMA ExitsAre ==
    ASSUME NEW m \in Contract!Machine
    PROVE  /\ Exits(m) = {m, Halted(m)}
           /\ Halted(m) \in Contract!Machine
           /\ m.power = "off" => Halted(m) = m
<1>1. m.power = "off" => Halted(m) = m
    BY DEF Halted, Contract!Machine, Contract!Power
<1>2. Halted(m) \in Contract!Machine
    BY DEF Halted, Contract!Machine, Contract!Power
<1>3. m.power \in {"off", "on", "quitting"}
    BY DEF Contract!Machine, Contract!Power
<1>4. Exits(m) = {m, Halted(m)}
    BY <1>1, <1>3 DEF Exits, Contract!ProcessExits, Contract!GuestPowersOff, Halted
<1> QED BY <1>1, <1>2, <1>4

LEMMA ExitsTwice ==
    ASSUME NEW m \in Contract!Machine, NEW n \in Exits(m), NEW l \in Exits(n)
    PROVE  n \in Contract!Machine /\ l \in Exits(m) /\ l \in Contract!Machine
<1>1. n \in Contract!Machine /\ (n = m \/ n = Halted(m))
    BY ExitsAre
<1>2. l \in {n, Halted(n)}
    BY <1>1, ExitsAre
<1>3. Halted(Halted(m)) = Halted(m)
    BY DEF Halted, Contract!Machine
<1> QED BY <1>1, <1>2, <1>3, ExitsAre

\* A failure leaves the machine alone,
LEMMA FailureServes ==
    ASSUME NEW op, NEW m \in Contract!Machine, NEW n \in Exits(m), NEW r \in Contract!Failed(op.kind)
    PROVE  Served(op, m, n, r)
<1>1. m \in Contract!Leftovers(op.kind, m)
    BY DEF Contract!Leftovers
<1>2. [machine |-> n, reply |-> r] \in Failures(op, m)
    BY <1>1 DEF Failures
<1> QED BY <1>2 DEF Served

\* or leaves its fence.
LEMMA FenceServes ==
    ASSUME NEW op, op.kind = "fence", NEW m \in Contract!Machine, m.exists, NEW n \in Exits(Flagged(m)),
           NEW r \in {"error", "gone"}
    PROVE  Served(op, m, n, r)
<1>1. Flagged(m) \in Contract!Leftovers(op.kind, m)
    BY DEF Contract!Leftovers, Flagged
<1>2. r \in Contract!Failed(op.kind)
    BY DEF Contract!Failed
<1>3. [machine |-> n, reply |-> r] \in Failures(op, m)
    BY <1>1, <1>2 DEF Failures
<1> QED BY <1>3 DEF Served

LEMMA OutcomeServes ==
    ASSUME NEW op, NEW m \in Contract!Machine, NEW n \in Exits(m),
           NEW o \in Contract!Outcomes(op.kind, n, op.spec, op.wipe), NEW l \in Exits(o.machine),
           NEW r \in {o.reply, "error"}
    PROVE  Served(op, m, l, r)
<1> DEFINE O == UNION {Contract!Outcomes(op.kind, x, op.spec, op.wipe) : x \in Exits(m)}
           R(q) == {[machine |-> x, reply |-> q.reply] : x \in Exits(q.machine)}
           e == [machine |-> l, reply |-> o.reply]
<1>1. o \in O /\ e \in R(o) /\ e.machine = l /\ e.reply = o.reply
    OBVIOUS
<1>2. Effects(op, m) = UNION {R(q) : q \in O}
    BY DEF Effects
<1> HIDE DEF O, R, e
<1>3. e \in Effects(op, m)
    BY <1>1, <1>2
<1> QED BY <1>1, <1>3 DEF Served

LEMMA ServedStill ==
    ASSUME NEW op, NEW m \in Contract!Machine, NEW n \in Contract!Machine, NEW r, Served(op, m, n, r),
           NEW l \in Exits(n)
    PROVE  Served(op, m, l, r)
<1>1. \A x : n \in Exits(x) => l \in Exits(x)
    <2> SUFFICES ASSUME NEW x, n \in Exits(x) PROVE l \in Exits(x)
        OBVIOUS
    <2>1. CASE n = x
        BY <2>1
    <2>2. CASE n # x
        <3>1. n = Halted(x)
            BY <2>2 DEF Exits, Contract!ProcessExits, Contract!GuestPowersOff, Halted
        <3>2. n.power = "off"
            BY <3>1 DEF Halted, Contract!Machine
        <3>3. l = n
            BY <3>2, ExitsAre
        <3> QED BY <3>3
    <2> QED BY <2>1, <2>2
<1>2. PICK e \in Effects(op, m) \cup Failures(op, m) : e.machine = n /\ (e.reply = r \/ r = "error")
    BY DEF Served
<1> DEFINE e2 == [machine |-> l, reply |-> e.reply]
<1>3. e2.machine = l /\ (e2.reply = r \/ r = "error")
    BY <1>2
<1>4. CASE e \in Effects(op, m)
    <2>1. PICK o \in UNION {Contract!Outcomes(op.kind, k, op.spec, op.wipe) : k \in Exits(m)} :
             e \in {[machine |-> k, reply |-> o.reply] : k \in Exits(o.machine)}
        BY <1>4 DEF Effects
    <2>2. n \in Exits(o.machine) /\ e.reply = o.reply
        BY <1>2, <2>1
    <2>3. l \in Exits(o.machine)
        BY <1>1, <2>2
    <2>4. e2 \in Effects(op, m)
        BY <2>1, <2>2, <2>3 DEF Effects
    <2> QED BY <1>3, <2>4 DEF Served
<1>5. CASE e \in Failures(op, m)
    <2>1. PICK k \in UNION {Exits(x) : x \in Contract!Leftovers(op.kind, m)},
               q \in Contract!Failed(op.kind) : e = [machine |-> k, reply |-> q]
        BY <1>5 DEF Failures
    <2>2. k = n /\ e.reply = q
        BY <1>2, <2>1
    <2>3. PICK x \in Contract!Leftovers(op.kind, m) : n \in Exits(x)
        BY <2>1, <2>2
    <2>4. l \in Exits(x)
        BY <1>1, <2>3
    <2>5. e2 \in Failures(op, m)
        BY <2>1, <2>2, <2>3, <2>4 DEF Failures
    <2> QED BY <1>3, <2>5 DEF Served
<1> QED BY <1>2, <1>4, <1>5
-----------------------------------------------------------------------------
(* Its course, for MeetsContract *)

MarkerType == [exists: BOOLEAN, boot: 0..MaxBoots]
QemuType == [power: {"off", "on", "quitting", "launching"}, boot: 0..MaxBoots, cred: Nat]

LaunchTyped ==
    /\ marker \in [Ids -> MarkerType] /\ qemu \in [Ids -> QemuType]
    /\ sock \in [Ids -> BOOLEAN] /\ child \in [Ids -> BOOLEAN]

\* A directory that is not there has nothing in it. Only a machine has a process,
\* and a process has a marker, which names no other.
HostInv ==
    /\ LaunchTyped
    /\ \A i \in Ids :
          /\ ~folder[i].dir => ~folder[i].meta /\ folder[i].root = 0 /\ folder[i].seed = 0
          /\ Alive(i) => /\ folder[i].meta /\ marker[i].exists
                         /\ marker[i].boot \in {0, qemu[i].boot}

\* Where the mutation has got to, as far as it concerns the host.
AtWork(i) ==
    /\ job.pc \in {"marks", "spawns", "flags", "renames", "removes", "seeds"} => ~Alive(i)
    /\ job.pc \in {"marks", "spawns", "receipts", "looks", "flags", "renames", "seeds", "quits",
                   "polls", "fences"} => folder[i].meta
    /\ job.pc = "spawns" => marker[i].exists /\ marker[i].boot = 0
    /\ job.pc \in {"marks", "spawns"} => qemu[i].boot < MaxBoots
    /\ job.pc \in Building => ~folder[i].dir /\ retained[i] = 0

PlaceInv ==
    /\ job.pc # "idle" => up
    /\ \A i \in Ids : i = job.id => AtWork(i)

\* What it has made of the machine m it began with, which is now a.
Course(i, a, m) ==
    /\ job.pc \in Building => job.op.kind = "create" /\ a = m
    /\ job.pc \in {"marks", "spawns"} => job.op.kind = "start" /\ a = m /\ ~m.fenced
    /\ job.pc \in {"receipts", "looks"} =>
          /\ job.op.kind = "start" /\ m.exists /\ ~m.fenced /\ m.power = "off"
          /\ a \in Exits(Contract!Launch(m))
    /\ job.pc = "fences" => job.op.kind = "fence" /\ m.exists /\ a \in Exits(m)
    /\ job.pc = "quits" =>
          /\ m.exists
          /\ \/ job.op.kind = "fence" /\ a \in Exits(Flagged(m))
             \/ job.op.kind \in {"shutdown", "force-stop"} /\ a \in Exits(m)
    /\ job.pc = "polls" => /\ job.op.kind = "fence" /\ m.exists
                           /\ a \in Exits(Contract!Quit(Flagged(m)))
    /\ job.pc \in {"flags", "renames"} =>
          job.op.kind = "destroy" /\ ~job.op.wipe /\ a = m /\ ~m.retained /\ Whole(i)
    /\ job.pc = "removes" =>
          /\ job.op.kind = "destroy" /\ m.exists /\ m.power = "off"
          /\ a.boot = m.boot /\ a.cred = m.cred /\ a.retained = (m.retained \/ ~job.op.wipe)
          /\ Half(i) \/ a = m
    /\ job.pc = "seeds" => job.op.kind = "reseed" /\ a = m
    /\ job.pc = "done" => Half(i) \/ Served(job.op, m, a, job.reply)

JobInv ==
    job.pc # "idle" /\ ~job.half =>
        \A i \in Ids : i = job.id => Course(i, Abs(i), before)

RestTyped ==
    /\ staging \in [Ids -> [dir: BOOLEAN, intent: Nat, litter: BOOLEAN]]
    /\ up \in BOOLEAN /\ before \in Contract!Machine /\ faults \in 0..MaxFaults

MeetInv == KeepInv /\ RestTyped /\ HostInv /\ PlaceInv /\ JobInv

LEMMA TypesMeet == KeepInv /\ RestTyped /\ HostInv => RunnerTypeOK
<1> SUFFICES ASSUME KeepInv, RestTyped, HostInv PROVE RunnerTypeOK
    OBVIOUS
<1>1. qemu \in [Ids -> [power: Contract!Power \cup {"launching"}, boot: 0..MaxBoots, cred: Nat]]
    BY DEF HostInv, LaunchTyped, QemuType, Contract!Power
<1>2. job.pc \in Pcs /\ job.id \in Ids \cup {"none"} /\ job.op \in AnyOp
    BY DEF KeepInv, Typed
<1> QED BY <1>1, <1>2 DEF KeepInv, Typed, RestTyped, HostInv, LaunchTyped, MarkerType, RunnerTypeOK, AnyOp

LEMMA SeenIsOff ==
    ASSUME HostInv, NEW i \in Ids, SeenStopped(i)
    PROVE  ~Alive(i)
BY DEF HostInv, LaunchTyped, MarkerType, SeenStopped, KnownExited

LEMMA AbsTyped ==
    ASSUME Typed, HostInv, NEW i \in Ids
    PROVE  Abs(i) \in Contract!Machine
<1>1. /\ folder[i] \in Folder /\ retained[i] \in Nat /\ qemu[i] \in QemuType
    BY DEF Typed, HostInv, LaunchTyped
<1>2. (IF qemu[i].power = "launching" THEN "on" ELSE qemu[i].power) \in {"off", "on", "quitting"}
    BY <1>1 DEF QemuType
<1>3. /\ (IF folder[i].meta THEN folder[i].spec ELSE 0) \in Nat
      /\ (IF folder[i].meta THEN folder[i].seed ELSE 0) \in Nat
      /\ qemu[i].boot \in Nat /\ qemu[i].cred \in Nat
      /\ folder[i].meta \in BOOLEAN /\ (folder[i].meta /\ folder[i].fenced) \in BOOLEAN
    BY <1>1, RunnerConstants DEF QemuType, Folder
<1> QED BY <1>2, <1>3 DEF Abs, Contract!Machine, Contract!Power

LEMMA AbsPower ==
    ASSUME Typed, HostInv, NEW i \in Ids
    PROVE  /\ Abs(i).power = "off" <=> ~Alive(i)
           /\ Abs(i).exists = folder[i].meta /\ Abs(i).boot = qemu[i].boot
           /\ Abs(i).cred = qemu[i].cred /\ Abs(i).retained = (retained[i] # 0)
           /\ Abs(i).fenced = (folder[i].meta /\ folder[i].fenced)
           /\ folder[i].meta => Abs(i).disk = folder[i].spec /\ Abs(i).seed = folder[i].seed
           /\ Abs(i).power = "on" <=> qemu[i].power \in {"on", "launching"}
BY DEF Abs, Alive, HostInv, LaunchTyped, QemuType

\* A machine is its fields.
LEMMA MachineIs ==
    ASSUME NEW m \in Contract!Machine
    PROVE  m = [exists |-> m.exists, disk |-> m.disk, seed |-> m.seed, power |-> m.power, boot |-> m.boot,
                cred |-> m.cred, fenced |-> m.fenced, retained |-> m.retained]
BY DEF Contract!Machine

LEMMA AbsSame ==
    ASSUME NEW i \in Ids, folder'[i] = folder[i], retained'[i] = retained[i], qemu'[i] = qemu[i]
    PROVE  Abs(i)' = Abs(i)
BY DEF Abs

-----------------------------------------------------------------------------
(* Processes and their markers *)

LEMMA MarkerHost ==
    ASSUME HostInv, NEW i \in Ids, NEW k \in MarkerType, marker' = [marker EXCEPT ![i] = k],
           Alive(i) => k.exists /\ k.boot \in {0, qemu[i].boot}, UNCHANGED <<folder, qemu>>,
           sock' \in [Ids -> BOOLEAN], child' \in [Ids -> BOOLEAN]
    PROVE  HostInv'
<1>1. LaunchTyped'
    BY DEF HostInv, LaunchTyped
<1>2. \A j \in Ids : marker'[j] = IF j = i THEN k ELSE marker[j]
    BY DEF HostInv, LaunchTyped
<1> QED BY <1>1, <1>2 DEF HostInv, Alive

LEMMA QemuHost ==
    ASSUME HostInv, NEW i \in Ids, NEW q \in QemuType, qemu' = [qemu EXCEPT ![i] = q],
           q.power # "off" => /\ folder[i].meta /\ marker[i].exists
                              /\ marker[i].boot \in {0, q.boot},
           UNCHANGED <<folder, marker>>,
           sock' \in [Ids -> BOOLEAN], child' \in [Ids -> BOOLEAN]
    PROVE  HostInv'
<1>1. LaunchTyped'
    BY DEF HostInv, LaunchTyped
<1>2. \A j \in Ids : qemu'[j] = IF j = i THEN q ELSE qemu[j]
    BY DEF HostInv, LaunchTyped
<1> QED BY <1>1, <1>2 DEF HostInv, Alive

LEMMA FolderHost ==
    ASSUME HostInv, folder \in [Ids -> Folder], NEW i \in Ids, NEW f,
           folder' = [folder EXCEPT ![i] = f],
           ~f.dir => ~f.meta /\ f.root = 0 /\ f.seed = 0, Alive(i) => f.meta, UNCHANGED launch
    PROVE  HostInv'
<1>1. LaunchTyped'
    BY DEF HostInv, LaunchTyped, launch
<1>2. \A j \in Ids : folder'[j] = IF j = i THEN f ELSE folder[j]
    OBVIOUS
<1> QED BY <1>1, <1>2 DEF HostInv, Alive, launch

LEMMA SameHost ==
    ASSUME HostInv, UNCHANGED <<folder, launch>>
    PROVE  HostInv'
BY DEF HostInv, LaunchTyped, Alive, launch

LEMMA ClearsHost ==
    ASSUME HostInv, NEW i \in Ids, ~Alive(i), Clears(i), UNCHANGED <<folder, qemu>>
    PROVE  HostInv'
<1>1. NoMarker \in MarkerType
    BY RunnerConstants DEF NoMarker, MarkerType
<1>2. sock' \in [Ids -> BOOLEAN] /\ child' \in [Ids -> BOOLEAN] /\ marker' = [marker EXCEPT ![i] = NoMarker]
    BY DEF Clears, HostInv, LaunchTyped
<1> QED BY <1>1, <1>2, MarkerHost

LEMMA BeginsHost ==
    ASSUME MeetInv, NEW i \in Ids, NEW op \in Calls[i],
           \/ Create(i, op) \/ Destroy(i, op) \/ StartBegins(i, op) \/ StartAnswers(i, op)
           \/ Fence(i, op) \/ Reseed(i, op) \/ Stop(i, op)
    PROVE  HostInv'
<1>1. UNCHANGED <<folder, qemu>>
    BY DEF Create, Destroy, StartBegins, StartAnswers, Fence, Reseed, Stop, files, launch
<1>2. (SeenStopped(i) /\ Clears(i)) \/ UNCHANGED <<marker, sock, child>>
    BY DEF Create, Destroy, StartBegins, StartAnswers, Fence, Reseed, Stop, launch
<1>3. CASE SeenStopped(i) /\ Clears(i)
    BY <1>1, <1>3, SeenIsOff, ClearsHost DEF MeetInv
<1>4. CASE UNCHANGED <<marker, sock, child>>
    BY <1>1, <1>4, SameHost DEF MeetInv, launch
<1> QED BY <1>2, <1>3, <1>4

LEMMA FoldersHost ==
    ASSUME MeetInv, NEW i \in Ids, i = job.id,
           Publishes(i) \/ Fences(i) \/ Flags(i) \/ Renames(i) \/ Removes(i) \/ Seeds(i)
    PROVE  HostInv'
<1>1. /\ UNCHANGED launch /\ AtWork(i) /\ folder \in [Ids -> Folder] /\ folder[i] \in Folder
      /\ HostInv
    BY DEF Publishes, Fences, Flags, Renames, Removes, Seeds, MeetInv, PlaceInv, KeepInv, Typed
<1>2. ~folder[i].dir => ~folder[i].meta /\ folder[i].root = 0 /\ folder[i].seed = 0
    BY <1>1 DEF HostInv
<1>3. Alive(i) => folder[i].meta
    BY <1>1 DEF HostInv
<1>4. \E f : /\ folder' = [folder EXCEPT ![i] = f]
             /\ ~f.dir => ~f.meta /\ f.root = 0 /\ f.seed = 0
             /\ Alive(i) => f.meta
    <2>1. CASE Publishes(i)
        <3> DEFINE f == [NoFolder EXCEPT !.dir = TRUE, !.meta = TRUE, !.spec = job.op.spec,
                                         !.root = job.op.spec, !.seed = job.op.spec]
        <3>1. folder' = [folder EXCEPT ![i] = f]
            BY <2>1 DEF Publishes
        <3>2. f.dir /\ f.meta
            BY DEF NoFolder
        <3> QED BY <3>1, <3>2
    <2>2. CASE Fences(i)
        <3> DEFINE f == [folder[i] EXCEPT !.fenced = TRUE]
        <3>1. folder' = [folder EXCEPT ![i] = f]
            BY <2>2 DEF Fences
        <3>2. f.dir = folder[i].dir /\ f.meta = folder[i].meta /\ f.root = folder[i].root
              /\ f.seed = folder[i].seed
            BY <1>1 DEF Folder
        <3> QED BY <1>2, <1>3, <3>1, <3>2
    <2>3. CASE Flags(i)
        <3> DEFINE f == [folder[i] EXCEPT !.retaining = TRUE]
        <3>1. folder' = [folder EXCEPT ![i] = f]
            BY <2>3 DEF Flags
        <3>2. f.dir = folder[i].dir /\ f.meta = folder[i].meta /\ f.root = folder[i].root
              /\ f.seed = folder[i].seed
            BY <1>1 DEF Folder
        <3> QED BY <1>2, <1>3, <3>1, <3>2
    <2>4. CASE Renames(i)
        <3> DEFINE f == [folder[i] EXCEPT !.root = 0]
        <3>1. folder' = [folder EXCEPT ![i] = f]
            BY <2>4 DEF Renames
        <3>2. f.dir = folder[i].dir /\ f.meta = folder[i].meta /\ f.root = 0 /\ f.seed = folder[i].seed
            BY <1>1 DEF Folder
        <3> QED BY <1>2, <1>3, <3>1, <3>2
    <2>5. CASE Seeds(i)
        <3> DEFINE f == [folder[i] EXCEPT !.seed = job.op.spec]
        <3>1. folder' = [folder EXCEPT ![i] = f]
            BY <2>5 DEF Seeds
        <3>2. f.dir = folder[i].dir /\ f.meta = folder[i].meta
            BY <1>1 DEF Folder
        <3>3. folder[i].meta
            BY <1>1, <2>5 DEF Seeds, At, AtWork
        <3> QED BY <1>2, <1>3, <3>1, <3>2, <3>3
    <2>6. CASE Removes(i)
        <3>1. ~Alive(i)
            BY <1>1, <2>6 DEF Removes, At, AtWork
        <3> DEFINE f1 == [NoFolder EXCEPT !.dir = TRUE, !.root = folder[i].root, !.seed = folder[i].seed]
                   f2 == [folder[i] EXCEPT !.root = 0]
                   f3 == [folder[i] EXCEPT !.seed = 0]
        <3>2. \/ folder' = [folder EXCEPT ![i] = f1] \/ folder' = [folder EXCEPT ![i] = f2]
              \/ folder' = [folder EXCEPT ![i] = f3] \/ folder' = [folder EXCEPT ![i] = NoFolder]
            BY <2>6 DEF Removes
        <3>3. f1.dir
            BY DEF NoFolder
        <3>4. f2.dir = folder[i].dir /\ f2.meta = folder[i].meta /\ f2.root = 0 /\ f2.seed = folder[i].seed
            BY <1>1 DEF Folder
        <3>5. f3.dir = folder[i].dir /\ f3.meta = folder[i].meta /\ f3.root = folder[i].root /\ f3.seed = 0
            BY <1>1 DEF Folder
        <3>6. ~NoFolder.meta /\ NoFolder.root = 0 /\ NoFolder.seed = 0
            BY DEF NoFolder
        <3> HIDE DEF f1, f2, f3
        <3>7. CASE folder' = [folder EXCEPT ![i] = f1]
            BY <3>1, <3>3, <3>7
        <3>8. CASE folder' = [folder EXCEPT ![i] = f2]
            BY <1>2, <3>1, <3>4, <3>8
        <3>9. CASE folder' = [folder EXCEPT ![i] = f3]
            BY <1>2, <3>1, <3>5, <3>9
        <3>10. CASE folder' = [folder EXCEPT ![i] = NoFolder]
            BY <3>1, <3>6, <3>10
        <3> QED BY <3>2, <3>7, <3>8, <3>9, <3>10
    <2> QED BY <2>1, <2>2, <2>3, <2>4, <2>5, <2>6
<1> QED BY <1>1, <1>4, FolderHost

LEMMA LaunchesHost ==
    ASSUME MeetInv, NEW i \in Ids, i = job.id, Marks(i) \/ Spawns(i) \/ Receipts(i)
    PROVE  HostInv'
<1>0. /\ HostInv /\ AtWork(i) /\ folder[i] \in Folder /\ marker[i] \in MarkerType
      /\ qemu[i] \in QemuType /\ sock \in [Ids -> BOOLEAN] /\ child \in [Ids -> BOOLEAN]
    BY DEF MeetInv, PlaceInv, KeepInv, Typed, HostInv, LaunchTyped
<1>1. CASE Marks(i)
    <2> DEFINE k == [exists |-> TRUE, boot |-> 0]
    <2>1. k \in MarkerType /\ k.exists /\ k.boot = 0
        BY RunnerConstants DEF MarkerType
    <2>2. marker' = [marker EXCEPT ![i] = k] /\ UNCHANGED <<folder, qemu>>
          /\ sock' \in [Ids -> BOOLEAN] /\ child' \in [Ids -> BOOLEAN]
        BY <1>0, <1>1 DEF Marks, files
    <2> HIDE DEF k
    <2> QED BY <1>0, <2>1, <2>2, MarkerHost
<1>2. CASE Spawns(i)
    <2> DEFINE q == [power |-> "launching", boot |-> qemu[i].boot + 1, cred |-> folder[i].seed]
    <2>1. job.pc = "spawns" /\ qemu[i].boot < MaxBoots /\ qemu[i].boot \in 0..MaxBoots
          /\ folder[i].seed \in Nat
        BY <1>0, <1>2 DEF Spawns, At, AtWork, QemuType, Folder
    <2>2. qemu[i].boot + 1 \in 0..MaxBoots
        BY <2>1, RunnerConstants
    <2>3. q \in QemuType
        BY <2>1, <2>2 DEF QemuType
    <2>4. /\ qemu' = [qemu EXCEPT ![i] = q] /\ UNCHANGED <<folder, marker>>
          /\ sock' \in [Ids -> BOOLEAN] /\ child' \in [Ids -> BOOLEAN]
        BY <1>0, <1>2 DEF Spawns, files
    <2>5. folder[i].meta /\ marker[i].exists /\ marker[i].boot = 0
        BY <1>0, <2>1 DEF AtWork
    <2> HIDE DEF q
    <2> QED BY <1>0, <2>3, <2>4, <2>5, QemuHost
<1>3. CASE Receipts(i)
    <2> DEFINE k == [marker[i] EXCEPT !.boot = qemu[i].boot]
    <2>1. k \in MarkerType /\ k.exists = marker[i].exists /\ k.boot = qemu[i].boot
        BY <1>0 DEF MarkerType, QemuType
    <2>2. /\ marker' = marker \/ marker' = [marker EXCEPT ![i] = k]
          /\ UNCHANGED <<folder, qemu, sock, child>>
        BY <1>3 DEF Receipts, files
    <2>3. Alive(i) => k.exists /\ k.boot \in {0, qemu[i].boot}
        BY <1>0, <2>1 DEF HostInv
    <2> HIDE DEF k
    <2>4. CASE marker' = marker
        BY <1>0, <2>2, <2>4, SameHost DEF launch
    <2>5. CASE marker' = [marker EXCEPT ![i] = k]
        BY <1>0, <2>1, <2>2, <2>3, <2>5, MarkerHost
    <2> QED BY <2>2, <2>4, <2>5
<1> QED BY <1>1, <1>2, <1>3

LEMMA StopsHost ==
    ASSUME MeetInv, NEW i \in Ids,
           Discards(i) \/ Builds(i) \/ Looks(i) \/ Quits(i) \/ Polls(i)
    PROVE  HostInv'
<1>0. /\ HostInv /\ folder[i] \in Folder /\ marker[i] \in MarkerType /\ qemu[i] \in QemuType
      /\ sock \in [Ids -> BOOLEAN] /\ child \in [Ids -> BOOLEAN]
    BY DEF MeetInv, KeepInv, Typed, HostInv, LaunchTyped
<1> DEFINE q == [qemu[i] EXCEPT !.power = "quitting"]
<1>1. /\ folder' = folder
      /\ \/ SeenStopped(i) /\ Clears(i) /\ qemu' = qemu
         \/ Alive(i) /\ qemu' = [qemu EXCEPT ![i] = q] /\ UNCHANGED <<child, marker, sock>>
         \/ UNCHANGED launch
    BY DEF Discards, Builds, Looks, Quits, Polls, files, launch
<1>2. q \in QemuType /\ q.boot = qemu[i].boot
    BY <1>0 DEF QemuType
<1> HIDE DEF q
<1>3. CASE SeenStopped(i) /\ Clears(i) /\ qemu' = qemu
    BY <1>0, <1>1, <1>3, SeenIsOff, ClearsHost
<1>4. CASE Alive(i) /\ qemu' = [qemu EXCEPT ![i] = q] /\ UNCHANGED <<child, marker, sock>>
    <2>1. folder[i].meta /\ marker[i].exists /\ marker[i].boot \in {0, q.boot}
        BY <1>0, <1>2, <1>4 DEF HostInv
    <2> QED BY <1>0, <1>1, <1>2, <1>4, <2>1, QemuHost
<1>5. CASE UNCHANGED launch
    BY <1>0, <1>1, <1>5, SameHost
<1> QED BY <1>1, <1>3, <1>4, <1>5

LEMMA OthersHost ==
    ASSUME MeetInv, \/ CallFails \/ Answers \/ Crashes \/ HostReboots \/ Restarts
                    \/ \E i \in Ids : Describes(i) \/ QemuOpens(i) \/ QemuExits(i) \/ QemuCloses(i)
                    \/ UNCHANGED vars
    PROVE  HostInv'
<1>0. /\ HostInv /\ marker \in [Ids -> MarkerType] /\ qemu \in [Ids -> QemuType]
      /\ sock \in [Ids -> BOOLEAN] /\ child \in [Ids -> BOOLEAN]
    BY DEF MeetInv, HostInv, LaunchTyped
<1>1. CASE CallFails
    <2>1. PICK i \in Ids : i = job.id
        BY <1>1 DEF CallFails, MeetInv, KeepInv, Typed
    <2>2. UNCHANGED <<folder, qemu>> /\ (IF job.pc = "spawns" THEN Clears(i) ELSE UNCHANGED <<child, marker, sock>>)
        BY <1>1, <2>1 DEF CallFails, files
    <2>3. CASE job.pc = "spawns"
        <3>1. ~Alive(i)
            BY <2>1, <2>3 DEF MeetInv, PlaceInv, AtWork
        <3> QED BY <1>0, <2>2, <2>3, <3>1, ClearsHost
    <2>4. CASE job.pc # "spawns"
        BY <1>0, <2>2, <2>4, SameHost DEF launch
    <2> QED BY <2>3, <2>4
<1>2. CASE Answers \/ Restarts \/ UNCHANGED vars
    BY <1>0, <1>2, SameHost DEF Answers, Restarts, vars, files
<1>3. CASE Crashes
    <2>1. UNCHANGED <<folder, sock, qemu>> /\ child' \in [Ids -> BOOLEAN]
        BY <1>3 DEF Crashes, Forgets, files
    <2>2. CASE marker' = marker
        <3>1. LaunchTyped'
            BY <1>0, <2>1, <2>2 DEF LaunchTyped
        <3> QED BY <1>0, <2>1, <2>2, <3>1 DEF HostInv, Alive
    <2>3. CASE \E i \in {j \in Ids : folder[j].meta /\ SeenStopped(j)} :
                  marker' = [marker EXCEPT ![i] = NoMarker]
        <3>1. PICK i \in Ids : SeenStopped(i) /\ marker' = [marker EXCEPT ![i] = NoMarker]
            BY <2>3
        <3>2. ~Alive(i)
            BY <1>0, <3>1, SeenIsOff
        <3>3. NoMarker \in MarkerType
            BY RunnerConstants DEF NoMarker, MarkerType
        <3>4. sock' \in [Ids -> BOOLEAN]
            BY <1>0, <2>1
        <3> QED BY <1>0, <2>1, <3>1, <3>2, <3>3, <3>4, MarkerHost
    <2> QED BY <1>3, <2>2, <2>3 DEF Crashes
<1>4. CASE HostReboots
    <2> DEFINE Off(i) == [qemu[i] EXCEPT !.power = "off"]
    <2>1. UNCHANGED <<folder, sock, marker>> /\ child' \in [Ids -> BOOLEAN] /\ qemu' = [i \in Ids |-> Off(i)]
        BY <1>4 DEF HostReboots, Forgets, files
    <2>2. \A i \in Ids : Off(i) \in QemuType /\ Off(i).power = "off"
        BY <1>0 DEF QemuType
    <2> HIDE DEF Off
    <2>3. qemu' \in [Ids -> QemuType] /\ \A i \in Ids : qemu'[i].power = "off"
        BY <2>1, <2>2
    <2>4. LaunchTyped'
        BY <1>0, <2>1, <2>3 DEF LaunchTyped
    <2> QED BY <1>0, <2>1, <2>3, <2>4 DEF HostInv, Alive
<1>5. ASSUME NEW i \in Ids, Describes(i)
      PROVE  HostInv'
    BY <1>0, <1>5, SeenIsOff, ClearsHost DEF Describes, files
<1>6. ASSUME NEW i \in Ids, QemuOpens(i) \/ QemuExits(i)
      PROVE  HostInv'
    <2> DEFINE On == [qemu[i] EXCEPT !.power = "on"]
               Off == [qemu[i] EXCEPT !.power = "off"]
    <2>1. On \in QemuType /\ Off \in QemuType /\ On.boot = qemu[i].boot /\ Off.power = "off"
        BY <1>0 DEF QemuType
    <2>2. /\ Alive(i) /\ UNCHANGED <<folder, marker>>
          /\ qemu' = [qemu EXCEPT ![i] = On] \/ qemu' = [qemu EXCEPT ![i] = Off]
          /\ sock' \in [Ids -> BOOLEAN] /\ child' \in [Ids -> BOOLEAN]
        BY <1>0, <1>6 DEF QemuOpens, QemuExits, Alive, files
    <2>3. folder[i].meta /\ marker[i].exists /\ marker[i].boot \in {0, On.boot}
        BY <1>0, <2>1, <2>2 DEF HostInv
    <2> HIDE DEF On, Off
    <2> QED BY <1>0, <2>1, <2>2, <2>3, QemuHost
<1>7. ASSUME NEW i \in Ids, QemuCloses(i)
      PROVE  HostInv'
    <2>1. UNCHANGED <<folder, marker, qemu, child>> /\ sock' \in [Ids -> BOOLEAN]
        BY <1>0, <1>7 DEF QemuCloses, files
    <2>2. LaunchTyped'
        BY <1>0, <2>1 DEF LaunchTyped
    <2> QED BY <1>0, <2>1, <2>2 DEF HostInv, Alive
<1> QED BY <1>1, <1>2, <1>3, <1>4, <1>5, <1>6, <1>7

LEMMA NoMachineTyped == Contract!NoMachine \in Contract!Machine
BY DEF Contract!NoMachine, Contract!Machine, Contract!Power

LEMMA BeginsRest ==
    ASSUME MeetInv, NEW i \in Ids, NEW op \in Calls[i], UNCHANGED <<up, faults>>,
           \/ Create(i, op) \/ Destroy(i, op) \/ StartBegins(i, op) \/ StartAnswers(i, op)
           \/ Fence(i, op) \/ Reseed(i, op) \/ Stop(i, op)
    PROVE  RestTyped'
<1>1. staging' = staging
    BY DEF Create, Destroy, StartBegins, StartAnswers, Fence, Reseed, Stop, files
<1>2. before' = Abs(i)
    BY DEF Create, Destroy, StartBegins, StartAnswers, Fence, Reseed, Stop, Replies, Enters
<1>3. Abs(i) \in Contract!Machine
    BY AbsTyped DEF MeetInv, KeepInv
<1> QED BY <1>1, <1>2, <1>3 DEF MeetInv, RestTyped

LEMMA ContinuesRest ==
    ASSUME MeetInv, NEW i \in Ids, UNCHANGED <<up, faults>>,
           \/ Discards(i) \/ Builds(i) \/ Publishes(i) \/ Marks(i) \/ Spawns(i) \/ Receipts(i)
           \/ Looks(i) \/ Fences(i) \/ Quits(i) \/ Polls(i) \/ Flags(i) \/ Renames(i)
           \/ Removes(i) \/ Seeds(i)
    PROVE  RestTyped'
<1> DEFINE Stage == [dir: BOOLEAN, intent: Nat, litter: BOOLEAN]
<1>1. before' = before
    <2>1. CASE Discards(i) \/ Builds(i)
        BY <2>1 DEF Discards, Builds, Stages, Goto
    <2>2. CASE Publishes(i) \/ Marks(i) \/ Spawns(i) \/ Receipts(i) \/ Looks(i) \/ Fences(i)
        BY <2>2 DEF Publishes, Marks, Spawns, Receipts, Looks, Fences, Goto, Done
    <2>3. CASE Quits(i) \/ Polls(i)
        BY <2>3 DEF Quits, Polls, Asked, Goto, Done
    <2>4. CASE Flags(i) \/ Renames(i) \/ Removes(i) \/ Seeds(i)
        BY <2>4 DEF Flags, Renames, Removes, Seeds, Goto, Done
    <2> QED BY <2>1, <2>2, <2>3, <2>4
<1>2. staging \in [Ids -> Stage] /\ staging[i] \in Stage /\ job.op.spec \in Nat
    BY OpsAreTyped DEF MeetInv, RestTyped, KeepInv, Typed
<1>3. staging' \in [Ids -> Stage]
    <2>1. CASE Discards(i)
        <3> DEFINE s1 == [staging[i] EXCEPT !.intent = 0]
                   s2 == [staging[i] EXCEPT !.litter = FALSE]
        <3>1. s1 \in Stage /\ s2 \in Stage /\ NoStaging \in Stage
            BY <1>2 DEF NoStaging
        <3>2. \/ staging' = [staging EXCEPT ![i] = s1] \/ staging' = [staging EXCEPT ![i] = s2]
              \/ staging' = [staging EXCEPT ![i] = NoStaging]
            BY <2>1 DEF Discards, Stages
        <3> HIDE DEF s1, s2, Stage
        <3> QED BY <1>2, <3>1, <3>2
    <2>2. CASE Builds(i)
        <3> DEFINE s1 == [staging[i] EXCEPT !.dir = TRUE]
                   s2 == [staging[i] EXCEPT !.litter = TRUE]
                   s3 == [staging[i] EXCEPT !.intent = job.op.spec, !.litter = FALSE]
        <3>1. s1 \in Stage /\ s2 \in Stage /\ s3 \in Stage
            BY <1>2
        <3>2. \/ staging' = [staging EXCEPT ![i] = s1] \/ staging' = [staging EXCEPT ![i] = s2]
              \/ staging' = [staging EXCEPT ![i] = s3]
            BY <2>2 DEF Builds, Stages
        <3> HIDE DEF s1, s2, s3, Stage
        <3> QED BY <1>2, <3>1, <3>2
    <2>3. CASE Publishes(i)
        <3>1. NoStaging \in Stage /\ staging' = [staging EXCEPT ![i] = NoStaging]
            BY <2>3 DEF Publishes, NoStaging
        <3> HIDE DEF Stage
        <3> QED BY <1>2, <3>1
    <2>4. CASE staging' = staging
        BY <1>2, <2>4
    <2>5. \/ Discards(i) \/ Builds(i) \/ Publishes(i) \/ staging' = staging
        BY DEF Marks, Spawns, Receipts, Looks, Fences, Quits, Polls, Flags, Renames, Removes, Seeds, files
    <2> QED BY <2>1, <2>2, <2>3, <2>4, <2>5
<1> QED BY <1>1, <1>3 DEF MeetInv, RestTyped

LEMMA OthersRest ==
    ASSUME MeetInv, \/ CallFails \/ Answers \/ Crashes \/ HostReboots \/ Restarts
                    \/ \E i \in Ids : Describes(i) \/ QemuOpens(i) \/ QemuExits(i) \/ QemuCloses(i)
                    \/ UNCHANGED vars
    PROVE  RestTyped'
<1>1. staging' = staging /\ before' \in {before, Contract!NoMachine} /\ up' \in {up, TRUE, FALSE}
      /\ (faults' = faults \/ Spend)
    BY DEF CallFails, Answers, Crashes, HostReboots, Restarts, Describes, QemuOpens, QemuExits,
           QemuCloses, Forgets, Done, files, vars
<1>2. faults \in 0..MaxFaults /\ MaxFaults \in Nat
    BY RunnerConstants DEF MeetInv, RestTyped
<1>3. faults' \in 0..MaxFaults
    BY <1>1, <1>2 DEF Spend
<1> QED BY <1>1, <1>3, NoMachineTyped DEF MeetInv, RestTyped

-----------------------------------------------------------------------------
(* How a mutation begins *)

LEMMA Entered ==
    ASSUME NEW i, NEW op, NEW pc, NEW reply, Enters(i, op, pc, reply)
    PROVE  /\ job'.pc = pc /\ job'.id = i /\ job'.op = op /\ job'.half = Half(i) /\ job'.reply = reply
           /\ before' = Abs(i)
BY DEF Enters

\* It meets the contract if it is answered as the contract says.
LEMMA RepliesMeet ==
    ASSUME MeetInv, up', NEW i \in Ids, NEW op \in Calls[i], NEW reply, Replies(i, op, reply),
           folder' = folder, Half(i) \/ Served(op, Abs(i), Abs(i)', reply)
    PROVE  PlaceInv' /\ JobInv'
<1>1. job'.pc = "done" /\ job'.id = i /\ job'.op = op /\ job'.half = Half(i) /\ job'.reply = reply
      /\ before' = Abs(i)
    BY Entered DEF Replies
<1>2. PlaceInv'
    BY <1>1 DEF PlaceInv, AtWork, Building
<1>3. ASSUME ~job'.half, NEW j \in Ids, j = job'.id
      PROVE  Course(j, Abs(j), before)'
    <2>1. j = i /\ Served(op, Abs(i), Abs(i)', reply)
        BY <1>1, <1>3
    <2>2. Served(job.op, before, Abs(j), job.reply)'
        BY <1>1, <2>1
    <2> QED BY <1>1, <2>2 DEF Course, Building
<1> QED BY <1>2, <1>3 DEF JobInv

LEMMA ErrorMeets ==
    ASSUME MeetInv, up', NEW i \in Ids, NEW op \in Calls[i], Replies(i, op, "error"),
           UNCHANGED <<folder, qemu, retained>>
    PROVE  PlaceInv' /\ JobInv'
<1>1. Abs(i)' = Abs(i) /\ Abs(i) \in Contract!Machine
    BY AbsSame, AbsTyped DEF MeetInv, KeepInv
<1>2. "error" \in Contract!Failed(op.kind) /\ Abs(i) \in Exits(Abs(i))
    BY DEF Contract!Failed, Exits
<1>3. Served(op, Abs(i), Abs(i)', "error")
    BY <1>1, <1>2, FailureServes
<1> QED BY <1>3, RepliesMeet

\* Or it is on its way.
LEMMA EntersMeets ==
    ASSUME MeetInv, up', NEW i \in Ids, NEW op \in Calls[i], NEW pc \in Pcs, NEW reply,
           Enters(i, op, pc, reply),
           AtWork(i)', ~Half(i) => Course(i, Abs(i), before)', folder' = folder
    PROVE  PlaceInv' /\ JobInv'
<1>1. job'.id = i /\ job'.half = Half(i)
    BY Entered
<1>2. PlaceInv'
    BY <1>1 DEF PlaceInv
<1>3. JobInv'
    BY <1>1 DEF JobInv
<1> QED BY <1>2, <1>3

\* What is answered at once, of a machine left alone.
LEMMA AnswerMeets ==
    ASSUME MeetInv, up', NEW i \in Ids, NEW op \in Calls[i], NEW reply, Replies(i, op, reply),
           UNCHANGED <<folder, qemu, retained>>,
           Contract!Outcome(Abs(i), reply) \in Contract!Outcomes(op.kind, Abs(i), op.spec, op.wipe)
    PROVE  PlaceInv' /\ JobInv'
<1> DEFINE o == Contract!Outcome(Abs(i), reply)
<1>1. Abs(i)' = Abs(i) /\ Abs(i) \in Contract!Machine
    BY AbsSame, AbsTyped DEF MeetInv, KeepInv
<1>2. Abs(i) \in Exits(Abs(i)) /\ o.machine = Abs(i) /\ o.reply = reply
    BY DEF Exits, Contract!Outcome
<1> HIDE DEF o
<1>3. o \in Contract!Outcomes(op.kind, Abs(i), op.spec, op.wipe)
    BY DEF o
<1>4. Served(op, Abs(i), Abs(i), reply)
    BY <1>1, <1>2, <1>3, OutcomeServes
<1>5. Served(op, Abs(i), Abs(i)', reply)
    BY <1>1, <1>4
<1> QED BY <1>5, RepliesMeet

LEMMA CreateMeets ==
    ASSUME MeetInv, up', NEW i \in Ids, NEW op \in Calls[i], op.kind = "create", Create(i, op)
    PROVE  PlaceInv' /\ JobInv'
<1>0. UNCHANGED <<folder, qemu, retained>> /\ Abs(i)' = Abs(i)
    BY AbsSame DEF Create, files, launch
<1>1. CASE folder[i].meta
    <2>1. Abs(i).exists /\ Abs(i).disk = folder[i].spec
        BY <1>1, AbsPower DEF MeetInv, KeepInv
    <2>2. CASE folder[i].spec = op.spec
        <3>1. Replies(i, op, "ok")
            BY <1>1, <2>2 DEF Create
        <3>2. Contract!Outcome(Abs(i), "ok") \in Contract!Outcomes(op.kind, Abs(i), op.spec, op.wipe)
            BY <2>1, <2>2 DEF Contract!Outcomes, Contract!Create
        <3> QED BY <1>0, <3>1, <3>2, AnswerMeets
    <2>3. CASE folder[i].spec # op.spec
        BY <1>0, <1>1, <2>3, ErrorMeets DEF Create
    <2> QED BY <2>2, <2>3
<1>2. CASE ~folder[i].meta /\ (folder[i].dir \/ retained[i] # 0 \/ Unrecognized(i, op.spec))
    BY <1>0, <1>2, ErrorMeets DEF Create
<1>3. CASE ~folder[i].meta /\ ~(folder[i].dir \/ retained[i] # 0 \/ Unrecognized(i, op.spec))
    <2>1. PICK pc \in {"discards", "stages"} : Enters(i, op, pc, "none")
        BY <1>3 DEF Create
    <2>2. job'.pc = pc /\ job'.op = op /\ before' = Abs(i)
        BY <2>1, Entered
    <2>3. AtWork(i)'
        BY <1>0, <1>3, <2>1, <2>2 DEF AtWork, Building
    <2>4. Course(i, Abs(i), before)'
        BY <1>0, <2>1, <2>2 DEF Course, Building
    <2>5. pc \in Pcs
        BY DEF Pcs
    <2> QED BY <1>0, <2>1, <2>3, <2>4, <2>5, EntersMeets
<1> QED BY <1>1, <1>2, <1>3

LEMMA StartMeets ==
    ASSUME MeetInv, up', NEW i \in Ids, NEW op \in Calls[i], op.kind = "start",
           StartBegins(i, op) \/ StartAnswers(i, op)
    PROVE  PlaceInv' /\ JobInv'
<1>0. UNCHANGED <<folder, qemu, retained>> /\ Abs(i)' = Abs(i)
    BY AbsSame DEF StartBegins, StartAnswers, files, launch
<1>00. /\ Abs(i).power = "off" <=> ~Alive(i)
       /\ Abs(i).exists = folder[i].meta /\ Abs(i).fenced = (folder[i].meta /\ folder[i].fenced)
       /\ SeenStopped(i) => ~Alive(i)
    BY AbsPower, SeenIsOff DEF MeetInv, KeepInv
<1>1. CASE StartBegins(i, op)
    <2>1. folder[i].meta /\ ~folder[i].fenced /\ SeenStopped(i) /\ qemu[i].boot < MaxBoots
        BY <1>1 DEF StartBegins
    <2>2. Replies(i, op, "limit") \/ Enters(i, op, "marks", "none")
        BY <1>1 DEF StartBegins
    <2>3. CASE Replies(i, op, "limit")
        <3>1. Contract!Outcome(Abs(i), "limit") \in Contract!Outcomes(op.kind, Abs(i), op.spec, op.wipe)
            BY <1>00, <2>1 DEF Contract!Outcomes, Contract!Start
        <3> QED BY <1>0, <2>3, <3>1, AnswerMeets
    <2>4. CASE Enters(i, op, "marks", "none")
        <3>1. job'.pc = "marks" /\ job'.op = op /\ before' = Abs(i)
            BY <2>4, Entered
        <3>2. AtWork(i)'
            BY <1>0, <1>00, <2>1, <3>1 DEF AtWork, Building, Alive
        <3>3. Course(i, Abs(i), before)'
            BY <1>0, <1>00, <2>1, <3>1 DEF Course, Building
        <3>4. "marks" \in Pcs
            BY DEF Pcs
        <3> QED BY <1>0, <2>4, <3>2, <3>3, <3>4, EntersMeets
    <2> QED BY <2>2, <2>3, <2>4
<1>2. CASE StartAnswers(i, op)
    <2>1. CASE ~folder[i].meta
        <3>1. Replies(i, op, "gone")
            BY <1>2, <2>1 DEF StartAnswers
        <3>2. Contract!Outcome(Abs(i), "gone") \in Contract!Outcomes(op.kind, Abs(i), op.spec, op.wipe)
            BY <1>00, <2>1 DEF Contract!Outcomes, Contract!Start
        <3> QED BY <1>0, <3>1, <3>2, AnswerMeets
    <2>2. CASE folder[i].meta /\ folder[i].fenced
        BY <1>0, <1>2, <2>2, ErrorMeets DEF StartAnswers
    <2>3. CASE folder[i].meta /\ ~folder[i].fenced
        <3>1. ~SeenStopped(i)
            BY <1>2, <2>3 DEF StartAnswers
        <3>2. PICK status \in Statuses(i) :
                 Replies(i, op, IF status \in {"running", "starting"} THEN "ok" ELSE "error")
            BY <1>2, <2>3 DEF StartAnswers
        <3>3. CASE status \in {"running", "starting"}
            <4>1. Alive(i)
                BY <3>1, <3>3 DEF Statuses, SeenStopped
            <4>2. Contract!Outcome(Abs(i), "ok") \in Contract!Outcomes(op.kind, Abs(i), op.spec, op.wipe)
                BY <1>00, <2>3, <4>1 DEF Contract!Outcomes, Contract!Start
            <4> QED BY <1>0, <3>2, <3>3, <4>2, AnswerMeets
        <3>4. CASE status \notin {"running", "starting"}
            BY <1>0, <3>2, <3>4, ErrorMeets
        <3> QED BY <3>3, <3>4
    <2> QED BY <2>1, <2>2, <2>3
<1> QED BY <1>1, <1>2

LEMMA StopMeets ==
    ASSUME MeetInv, up', NEW i \in Ids, NEW op \in Calls[i],
           \/ op.kind \in {"shutdown", "force-stop"} /\ Stop(i, op)
           \/ op.kind = "fence" /\ Fence(i, op)
    PROVE  PlaceInv' /\ JobInv'
<1>0. UNCHANGED <<folder, qemu, retained>> /\ Abs(i)' = Abs(i)
    BY AbsSame DEF Stop, Fence, files, launch
<1>1. Abs(i).exists = folder[i].meta
    BY AbsPower DEF MeetInv, KeepInv
<1>2. CASE ~folder[i].meta
    <2>1. Replies(i, op, "gone")
        BY <1>2 DEF Stop, Fence
    <2>2. Contract!Outcome(Abs(i), "gone") \in Contract!Outcomes(op.kind, Abs(i), op.spec, op.wipe)
        BY <1>1, <1>2 DEF Contract!Outcomes, Contract!Stop, Contract!Fence
    <2> QED BY <1>0, <2>1, <2>2, AnswerMeets
<1>3. CASE folder[i].meta
    <2>1. PICK pc \in {"quits", "fences"} : /\ Enters(i, op, pc, "none")
                                            /\ pc = "quits" => op.kind \in {"shutdown", "force-stop"}
                                            /\ pc = "fences" => op.kind = "fence"
        BY <1>3 DEF Stop, Fence
    <2>2. job'.pc = pc /\ job'.op = op /\ before' = Abs(i)
        BY <2>1, Entered
    <2>3. AtWork(i)'
        BY <1>0, <1>3, <2>1, <2>2 DEF AtWork, Building
    <2>4. Abs(i) \in Exits(Abs(i))
        BY DEF Exits
    <2>5. Course(i, Abs(i), before)'
        <3>1. (job.pc \in {"quits", "fences"})' /\ (job.op = op)' /\ (Abs(i) = before)'
            BY <1>0, <2>1, <2>2
        <3>2. before'.exists /\ before' \in Exits(before)'
            BY <1>1, <1>3, <2>2, <2>4 DEF Exits
        <3> QED BY <2>1, <2>2, <3>1, <3>2 DEF Course, Building
    <2>6. pc \in Pcs
        BY DEF Pcs
    <2> QED BY <1>0, <2>1, <2>3, <2>5, <2>6, EntersMeets
<1> QED BY <1>2, <1>3

LEMMA ReseedMeets ==
    ASSUME MeetInv, up', NEW i \in Ids, NEW op \in Calls[i], op.kind = "reseed", Reseed(i, op)
    PROVE  PlaceInv' /\ JobInv'
<1>0. UNCHANGED <<folder, qemu, retained>> /\ Abs(i)' = Abs(i)
    BY AbsSame DEF Reseed, files
<1>1. /\ Abs(i).exists = folder[i].meta /\ (SeenStopped(i) => ~Alive(i))
    BY AbsPower, SeenIsOff DEF MeetInv, KeepInv
<1>2. CASE ~folder[i].meta
    <2>1. Replies(i, op, "gone")
        BY <1>2 DEF Reseed
    <2>2. Contract!Outcome(Abs(i), "gone") \in Contract!Outcomes(op.kind, Abs(i), op.spec, op.wipe)
        BY <1>1, <1>2 DEF Contract!Outcomes, Contract!Reseed
    <2> QED BY <1>0, <2>1, <2>2, AnswerMeets
<1>3. CASE folder[i].meta /\ ~SeenStopped(i)
    BY <1>0, <1>3, ErrorMeets DEF Reseed
<1>4. CASE folder[i].meta /\ SeenStopped(i)
    <2>1. Enters(i, op, "seeds", "none")
        BY <1>4 DEF Reseed
    <2>2. job'.pc = "seeds" /\ job'.op = op /\ before' = Abs(i)
        BY <2>1, Entered
    <2>3. AtWork(i)'
        BY <1>0, <1>1, <1>4, <2>2 DEF AtWork, Building, Alive
    <2>4. Course(i, Abs(i), before)'
        BY <1>0, <2>2 DEF Course, Building
    <2>5. "seeds" \in Pcs
        BY DEF Pcs
    <2> QED BY <1>0, <2>1, <2>3, <2>4, <2>5, EntersMeets
<1> QED BY <1>2, <1>3, <1>4

LEMMA DestroyMeets ==
    ASSUME MeetInv, up', NEW i \in Ids, NEW op \in Calls[i], op.kind = "destroy", Destroy(i, op)
    PROVE  PlaceInv' /\ JobInv'
<1> DEFINE m == Abs(i)
<1>0. /\ UNCHANGED <<folder, qemu>> /\ (folder[i].dir => retained' = retained)
      /\ op.wipe \in BOOLEAN /\ retained \in [Ids -> Nat] /\ m \in Contract!Machine
    BY OpsAreTyped, AbsTyped DEF Destroy, MeetInv, KeepInv, Typed, AnyOp
<1>1. /\ m.power = "off" <=> ~Alive(i)
      /\ m.exists = folder[i].meta /\ m.retained = (retained[i] # 0)
      /\ SeenStopped(i) => ~Alive(i)
      /\ ~folder[i].dir => ~folder[i].meta
    BY AbsPower, SeenIsOff DEF MeetInv, KeepInv, HostInv
<1>2. CASE ~folder[i].dir
    <2> DEFINE Wiped == [m EXCEPT !.retained = @ /\ ~op.wipe]
               o == Contract!Outcome(Wiped, "ok")
    <2>1. Replies(i, op, "ok") /\ retained' = IF op.wipe THEN [retained EXCEPT ![i] = 0] ELSE retained
        BY <1>2 DEF Destroy
    <2>2. o \in Contract!Outcomes(op.kind, m, op.spec, op.wipe)
        BY <1>1, <1>2 DEF Contract!Outcomes, Contract!Destroy
    <2>3. Abs(i)' = Wiped
        <3>1. ~folder[i].meta /\ folder'[i] = folder[i] /\ qemu'[i] = qemu[i]
            BY <1>0, <1>1, <1>2
        <3>2. CASE op.wipe
            <4>1. retained'[i] = 0
                BY <1>0, <2>1, <3>2
            <4> QED BY <3>1, <3>2, <4>1 DEF Abs
        <3>3. CASE ~op.wipe
            <4>1. retained'[i] = retained[i]
                BY <2>1, <3>3
            <4>2. Abs(i)' = m
                BY <3>1, <4>1, AbsSame
            <4>3. (m.retained /\ ~op.wipe) = m.retained
                BY <1>0, <3>3 DEF Contract!Machine
            <4> HIDE DEF m
            <4>4. Wiped = m
                BY <1>0, <4>3 DEF Contract!Machine
            <4> QED BY <4>2, <4>4
        <3> QED BY <1>0, <3>2, <3>3
    <2>4. o.machine = Wiped /\ o.reply = "ok"
        BY DEF Contract!Outcome
    <2> HIDE DEF o, Wiped
    <2>5. m \in Exits(m) /\ Wiped \in Exits(o.machine)
        BY <2>4 DEF Exits
    <2>6. Served(op, m, Wiped, "ok")
        BY <1>0, <2>2, <2>4, <2>5, OutcomeServes
    <2> QED BY <1>0, <2>1, <2>3, <2>6, RepliesMeet
<1>3. CASE folder[i].dir
    <2>0. retained' = retained /\ Abs(i)' = m
        BY <1>0, <1>3, AbsSame
    <2>1. CASE ~folder[i].meta
        <3>1. Replies(i, op, "gone") /\ Half(i)
            BY <1>3, <2>1 DEF Destroy, Half, Whole
        <3> QED BY <1>0, <3>1, RepliesMeet
    <2>2. CASE /\ folder[i].meta
               /\ \/ ~SeenStopped(i)
                  \/ ~op.wipe /\ retained[i] # 0 /\ (~folder[i].retaining \/ folder[i].root # 0)
        BY <1>0, <1>3, <2>0, <2>2, ErrorMeets DEF Destroy
    <2>3. CASE /\ folder[i].meta /\ SeenStopped(i)
               /\ ~(~op.wipe /\ retained[i] # 0 /\ (~folder[i].retaining \/ folder[i].root # 0))
        <3>1. Enters(i, op, IF op.wipe \/ retained[i] # 0 THEN "removes" ELSE "flags", "none")
            BY <1>3, <2>3 DEF Destroy
        <3>2. PICK pc \in {"removes", "flags"} :
                 /\ Enters(i, op, pc, "none")
                 /\ pc = "removes" => op.wipe \/ retained[i] # 0
                 /\ pc = "flags" => ~op.wipe /\ retained[i] = 0
            <4>1. CASE op.wipe \/ retained[i] # 0
                BY <3>1, <4>1
            <4>2. CASE ~op.wipe /\ retained[i] = 0
                BY <3>1, <4>2
            <4> QED BY <4>1, <4>2
        <3>3. job'.pc = pc /\ job'.op = op /\ before' = m
            BY <3>2, Entered
        <3>4. AtWork(i)'
            BY <1>0, <1>1, <2>0, <2>3, <3>2, <3>3 DEF AtWork, Building, Alive
        <3>5. ASSUME ~Half(i) PROVE Course(i, Abs(i), before)'
            <4>1. Whole(i)' /\ Half(i)' = Half(i)
                BY <1>0, <1>3, <3>5 DEF Half, Whole
            <4>2. m.exists /\ m.power = "off" /\ m.retained = (retained[i] # 0)
                BY <1>1, <2>3
            <4>3. m.retained \in BOOLEAN /\ (pc = "removes" => m.retained = (m.retained \/ ~op.wipe))
                BY <1>0, <3>2, <4>2
            <4>4. Abs(i)' = before' /\ before' = m
                BY <2>0, <3>3
            <4> HIDE DEF m
            <4> QED BY <3>2, <3>3, <4>1, <4>2, <4>3, <4>4 DEF Course, Building
        <3>6. pc \in Pcs
            BY DEF Pcs
        <3> QED BY <1>0, <3>2, <3>4, <3>5, <3>6, EntersMeets
    <2> QED BY <2>1, <2>2, <2>3
<1> QED BY <1>2, <1>3

-----------------------------------------------------------------------------
(* How it goes on *)

LEMMA GoesMeet ==
    ASSUME MeetInv, NEW i \in Ids, i = job.id, job.pc # "idle", up' = up, NEW pc, Goto(pc),
           AtWork(i)', ~job.half => Course(i, Abs(i), before)'
    PROVE  PlaceInv' /\ JobInv'
<1>1. job'.id = i /\ job'.half = job.half /\ up'
    BY DEF Goto, MeetInv, KeepInv, Typed, PlaceInv
<1>2. PlaceInv'
    BY <1>1 DEF PlaceInv
<1>3. JobInv'
    BY <1>1 DEF JobInv
<1> QED BY <1>2, <1>3

LEMMA GoneTo ==
    ASSUME MeetInv, NEW pc, Goto(pc)
    PROVE  job'.pc = pc /\ job'.op = job.op /\ before' = before
BY DEF Goto, MeetInv, KeepInv, Typed

LEMMA DoneMeets ==
    ASSUME MeetInv, NEW i \in Ids, i = job.id, job.pc # "idle", up' = up, NEW reply, Done(reply),
           ~job.half => Half(i)' \/ Served(job.op, before, Abs(i)', reply)
    PROVE  PlaceInv' /\ JobInv'
<1>1. /\ job'.id = i /\ job'.half = job.half /\ job'.pc = "done" /\ job'.op = job.op
      /\ job'.reply = reply /\ before' = before /\ up'
    BY DEF Done, MeetInv, KeepInv, Typed, PlaceInv
<1>2. PlaceInv'
    BY <1>1 DEF PlaceInv, AtWork, Building
<1>3. ASSUME ~job.half PROVE Course(i, Abs(i), before)'
    <2>1. Half(i)' \/ Served(job.op, before, Abs(i), job.reply)'
        BY <1>1, <1>3
    <2> QED BY <1>1, <2>1 DEF Course, Building
<1>4. JobInv'
    BY <1>1, <1>3 DEF JobInv
<1> QED BY <1>2, <1>4

LEMMA OnCourse ==
    ASSUME MeetInv, NEW i \in Ids, i = job.id, job.pc # "idle"
    PROVE  /\ AtWork(i) /\ (~job.half => Course(i, Abs(i), before))
           /\ Abs(i) \in Contract!Machine /\ before \in Contract!Machine
           /\ folder[i] \in Folder /\ retained[i] \in Nat /\ qemu[i] \in QemuType
           /\ folder \in [Ids -> Folder] /\ retained \in [Ids -> Nat] /\ qemu \in [Ids -> QemuType]
           /\ job.op.spec \in Nat \ {0} /\ job.op.wipe \in BOOLEAN
BY AbsTyped, OpsAreTyped DEF MeetInv, PlaceInv, JobInv, RestTyped, KeepInv, Typed, HostInv, LaunchTyped

\* A mutation that fails at a step it has come to was already served.
LEMMA FailsMeet ==
    ASSUME MeetInv, NEW i \in Ids, i = job.id, job.pc \notin {"idle", "done", "receipts", "looks"},
           Course(i, Abs(i), before)
    PROVE  Half(i) \/ Served(job.op, before, Abs(i), "error")
<1> DEFINE a == Abs(i)
           m == before
<1>0. m \in Contract!Machine /\ a \in Contract!Machine /\ job.pc \in Pcs
    BY OnCourse DEF MeetInv, KeepInv, Typed
<1>1. "error" \in Contract!Failed(job.op.kind)
    BY DEF Contract!Failed
<1>2. m \in Exits(m)
    BY DEF Exits
<1>3. CASE a \in Exits(m)
    BY <1>0, <1>1, <1>3, FailureServes
<1>4. CASE job.pc = "quits" /\ job.op.kind = "fence"
    <2>1. m.exists /\ (a \in Exits(Flagged(m)) \/ a \in Exits(m))
        BY <1>4 DEF Course
    <2> QED BY <1>0, <1>3, <1>4, <2>1, FenceServes
<1>5. CASE job.pc = "polls"
    <2>1. job.op.kind = "fence" /\ m.exists /\ a \in Exits(Contract!Quit(Flagged(m)))
        BY <1>5 DEF Course
    <2>2. CASE m.power # "off"
        <3> DEFINE o == Contract!Failure(Contract!Quit(Flagged(m)))
        <3>1. o \in Contract!Outcomes(job.op.kind, m, job.op.spec, job.op.wipe)
            BY <2>1, <2>2 DEF Contract!Outcomes, Contract!Fence, Flagged
        <3>2. o.machine = Contract!Quit(Flagged(m)) /\ o.reply = "error"
            BY DEF Contract!Failure, Contract!Outcome
        <3> HIDE DEF o
        <3> QED BY <1>0, <1>2, <2>1, <3>1, <3>2, OutcomeServes
    <2>3. CASE m.power = "off"
        <3>1. Contract!Quit(Flagged(m)) = Flagged(m)
            BY <1>0, <2>3 DEF Contract!Quit, Flagged, Contract!Machine
        <3> QED BY <1>0, <2>1, <3>1, FenceServes
    <2> QED BY <2>2, <2>3
<1>6. CASE job.pc \notin {"quits", "polls"}
    <2>1. Half(i) \/ a \in Exits(m)
        BY <1>0, <1>2, <1>6 DEF Course, Building, Pcs
    <2> QED BY <1>3, <2>1
<1>7. job.pc = "quits" /\ job.op.kind # "fence" => a \in Exits(m)
    BY DEF Course
<1> QED BY <1>3, <1>4, <1>5, <1>6, <1>7

LEMMA BuildsMeet ==
    ASSUME MeetInv, NEW i \in Ids, i = job.id, up' = up, Discards(i) \/ Builds(i)
    PROVE  PlaceInv' /\ JobInv'
<1>1. UNCHANGED <<folder, retained, qemu>> /\ Abs(i)' = Abs(i)
    BY AbsSame DEF Discards, Builds, launch
<1>2. job.pc \in Building
    BY DEF Discards, Builds, At, Building
<1>3. PICK pc \in Building : Goto(pc)
    BY DEF Discards, Builds, Stages, Building
<1>4. job'.pc = pc /\ job'.op = job.op /\ before' = before
    BY <1>3, GoneTo
<1>5. job.pc # "idle"
    BY <1>2 DEF Building
<1>6. AtWork(i)'
    BY <1>1, <1>2, <1>3, <1>4, <1>5, OnCourse DEF AtWork, Building
<1>7. ASSUME ~job.half PROVE Course(i, Abs(i), before)'
    <2>1. job.op.kind = "create" /\ Abs(i) = before
        BY <1>2, <1>5, <1>7, OnCourse DEF Course
    <2> QED BY <1>1, <1>3, <1>4, <2>1 DEF Course, Building
<1> QED BY <1>3, <1>5, <1>6, <1>7, GoesMeet

LEMMA PublishesMeet ==
    ASSUME MeetInv, NEW i \in Ids, i = job.id, up' = up, Publishes(i)
    PROVE  PlaceInv' /\ JobInv'
<1> DEFINE f == [NoFolder EXCEPT !.dir = TRUE, !.meta = TRUE, !.spec = job.op.spec,
                                 !.root = job.op.spec, !.seed = job.op.spec]
           m == before
           New == [m EXCEPT !.exists = TRUE, !.disk = job.op.spec, !.seed = job.op.spec,
                            !.power = "off", !.fenced = FALSE]
           o == Contract!Outcome(New, "ok")
<1>1. /\ job.pc = "publishes" /\ folder' = [folder EXCEPT ![i] = f]
      /\ UNCHANGED <<retained, qemu>> /\ Done("ok")
    BY DEF Publishes, At, launch
<1>2. f.meta /\ f.spec = job.op.spec /\ f.seed = job.op.spec /\ ~f.fenced
    BY DEF NoFolder
<1>3. ASSUME ~job.half PROVE Served(job.op, m, Abs(i)', "ok")
    <2>1. /\ job.op.kind = "create" /\ Abs(i) = m /\ m \in Contract!Machine
          /\ ~folder[i].dir /\ retained[i] = 0 /\ folder \in [Ids -> Folder]
          /\ job.op.spec \in Nat
        BY <1>1, <1>3, OnCourse DEF Course, AtWork, Building
    <2>2. ~folder[i].meta /\ ~Alive(i)
        BY <2>1 DEF MeetInv, HostInv
    <2>3. ~m.exists /\ ~m.retained
        BY <2>1, <2>2, AbsPower DEF MeetInv, KeepInv
    <2>4. o \in Contract!Outcomes(job.op.kind, m, job.op.spec, job.op.wipe)
        BY <2>1, <2>3 DEF Contract!Outcomes, Contract!Create
    <2>5. o.machine = New /\ o.reply = "ok"
        BY DEF Contract!Outcome
    <2>6. folder'[i] = f
        BY <1>1, <2>1
    <2>7. qemu[i].power = "off"
        BY <2>2 DEF Alive
    <2> HIDE DEF f, o
    <2>8. Abs(i)' = New
        <3>1. /\ m.boot = qemu[i].boot /\ m.cred = qemu[i].cred /\ m.retained = FALSE
              /\ m \in Contract!Machine
            BY <2>1, <2>3, AbsPower DEF MeetInv, KeepInv, Contract!Machine
        <3>2. Abs(i)' = [exists |-> TRUE, disk |-> job.op.spec, seed |-> job.op.spec, power |-> "off",
                         boot |-> qemu[i].boot, cred |-> qemu[i].cred, fenced |-> FALSE,
                         retained |-> FALSE]
            BY <1>1, <1>2, <2>1, <2>6, <2>7 DEF Abs
        <3>3. New \in Contract!Machine
            BY <2>1, <3>1 DEF Contract!Machine, Contract!Power
        <3>4. /\ New.exists = TRUE /\ New.disk = job.op.spec /\ New.seed = job.op.spec /\ New.power = "off"
              /\ New.boot = m.boot /\ New.cred = m.cred /\ New.fenced = FALSE /\ New.retained = m.retained
            BY <3>1 DEF Contract!Machine
        <3> HIDE DEF New
        <3>5. New = [exists |-> New.exists, disk |-> New.disk, seed |-> New.seed, power |-> New.power,
                     boot |-> New.boot, cred |-> New.cred, fenced |-> New.fenced,
                     retained |-> New.retained]
            BY <3>3, MachineIs
        <3> QED BY <3>1, <3>2, <3>4, <3>5
    <2> HIDE DEF New
    <2>9. m \in Exits(m) /\ New \in Exits(o.machine)
        BY <2>5 DEF Exits
    <2> QED BY <2>1, <2>4, <2>5, <2>8, <2>9, OutcomeServes
<1> QED BY <1>1, <1>3, DoneMeets

\* What the host makes of a machine, if it has these fields.
LEMMA AbsBecomes ==
    ASSUME NEW i, NEW x \in Contract!Machine, x.exists = folder'[i].meta,
           x.disk = (IF folder'[i].meta THEN folder'[i].spec ELSE 0),
           x.seed = (IF folder'[i].meta THEN folder'[i].seed ELSE 0),
           x.power = (IF qemu'[i].power = "launching" THEN "on" ELSE qemu'[i].power),
           x.boot = qemu'[i].boot, x.cred = qemu'[i].cred,
           x.fenced = (folder'[i].meta /\ folder'[i].fenced), x.retained = (retained'[i] # 0)
    PROVE  Abs(i)' = x
<1>1. x = [exists |-> x.exists, disk |-> x.disk, seed |-> x.seed, power |-> x.power, boot |-> x.boot,
           cred |-> x.cred, fenced |-> x.fenced, retained |-> x.retained]
    BY MachineIs
<1> QED BY <1>1 DEF Abs

LEMMA MarksMeet ==
    ASSUME MeetInv, NEW i \in Ids, i = job.id, up' = up, Marks(i)
    PROVE  PlaceInv' /\ JobInv'
<1>1. /\ UNCHANGED <<folder, retained, qemu>> /\ Abs(i)' = Abs(i) /\ job.pc = "marks"
      /\ marker' = [marker EXCEPT ![i] = [exists |-> TRUE, boot |-> 0]] /\ Goto("spawns")
    BY AbsSame DEF Marks, files, At
<1>2. job'.pc = "spawns" /\ job'.op = job.op /\ before' = before
    BY <1>1, GoneTo
<1>3. marker \in [Ids -> MarkerType]
    BY DEF MeetInv, HostInv, LaunchTyped
<1>4. marker'[i].exists /\ marker'[i].boot = 0
    BY <1>1, <1>3
<1>5. AtWork(i)'
    BY <1>1, <1>2, <1>4, OnCourse DEF AtWork, Building, Alive
<1>6. ASSUME ~job.half PROVE Course(i, Abs(i), before)'
    <2>1. job.op.kind = "start" /\ Abs(i) = before /\ ~before.fenced
        BY <1>1, <1>6, OnCourse DEF Course
    <2> QED BY <1>1, <1>2, <2>1 DEF Course, Building
<1> QED BY <1>1, <1>5, <1>6, GoesMeet

LEMMA SpawnsMeet ==
    ASSUME MeetInv, NEW i \in Ids, i = job.id, up' = up, Spawns(i)
    PROVE  PlaceInv' /\ JobInv'
<1> DEFINE q == [power |-> "launching", boot |-> qemu[i].boot + 1, cred |-> folder[i].seed]
           m == before
           Up == Contract!Launch(m)
<1>1. /\ UNCHANGED <<folder, retained>> /\ job.pc = "spawns"
      /\ qemu' = [qemu EXCEPT ![i] = q]
    BY DEF Spawns, files, At
<1>2. PICK pc \in {"receipts", "looks"} : Goto(pc)
    BY DEF Spawns
<1>3. job'.pc = pc /\ job'.op = job.op /\ before' = m
    BY <1>2, GoneTo
<1>4. AtWork(i)'
    BY <1>1, <1>2, <1>3, OnCourse DEF AtWork, Building
<1>5. ASSUME ~job.half PROVE Course(i, Abs(i), before)'
    <2>1. /\ job.op.kind = "start" /\ Abs(i) = m /\ ~m.fenced /\ ~Alive(i) /\ folder[i].meta
          /\ m \in Contract!Machine /\ qemu \in [Ids -> QemuType]
        BY <1>1, <1>5, OnCourse DEF Course, AtWork
    <2>2. /\ m.exists = folder[i].meta /\ m.power = "off" /\ m.boot = qemu[i].boot
          /\ m.fenced = (folder[i].meta /\ folder[i].fenced)
          /\ m.retained = (retained[i] # 0) /\ m.disk = folder[i].spec /\ m.seed = folder[i].seed
        BY <2>1, AbsPower DEF MeetInv, KeepInv
    <2>3. Up \in Contract!Machine
        <3>1. m.boot + 1 \in Nat
            BY <2>1 DEF Contract!Machine
        <3>2. m \in Contract!Machine
            BY <2>1
        <3> HIDE DEF m
        <3> QED BY <3>1, <3>2 DEF Contract!Launch, Contract!Machine, Contract!Power
    <2>4. /\ Up.exists = m.exists /\ Up.disk = m.disk /\ Up.seed = m.seed /\ Up.power = "on"
          /\ Up.boot = m.boot + 1 /\ Up.cred = m.seed /\ Up.fenced = m.fenced
          /\ Up.retained = m.retained
        BY <2>1 DEF Contract!Launch, Contract!Machine
    <2>5. qemu'[i].power = "launching" /\ qemu'[i].boot = m.boot + 1 /\ qemu'[i].cred = m.seed
        BY <1>1, <2>1, <2>2
    <2> HIDE DEF Up, q, m
    <2>6. Abs(i)' = Up
        <3>1. folder'[i] = folder[i] /\ retained'[i] = retained[i] /\ folder[i].meta
            BY <1>1, <2>1
        <3>2. Up.exists = folder'[i].meta /\ Up.fenced = (folder'[i].meta /\ folder'[i].fenced)
            BY <2>2, <2>4, <3>1
        <3>3. Up.retained = (retained'[i] # 0)
            BY <2>2, <2>4, <3>1
        <3>4. /\ Up.disk = (IF folder'[i].meta THEN folder'[i].spec ELSE 0)
              /\ Up.seed = (IF folder'[i].meta THEN folder'[i].seed ELSE 0)
            BY <2>2, <2>4, <3>1
        <3>5. /\ Up.power = (IF qemu'[i].power = "launching" THEN "on" ELSE qemu'[i].power)
              /\ Up.boot = qemu'[i].boot /\ Up.cred = qemu'[i].cred
            BY <2>4, <2>5
        <3> QED BY <2>3, <3>2, <3>3, <3>4, <3>5, AbsBecomes
    <2>7. Abs(i)' \in Exits(Contract!Launch(m))
        BY <2>6 DEF Up, Exits
    <2> QED BY <1>2, <1>3, <2>1, <2>2, <2>7 DEF Course, Building
<1>6. job.pc # "idle" /\ pc # "idle"
    BY <1>1
<1> QED BY <1>2, <1>4, <1>5, <1>6, GoesMeet

LEMMA ReceiptsMeet ==
    ASSUME MeetInv, NEW i \in Ids, i = job.id, up' = up, Receipts(i)
    PROVE  PlaceInv' /\ JobInv'
<1>1. UNCHANGED <<folder, retained, qemu>> /\ Abs(i)' = Abs(i) /\ job.pc = "receipts" /\ Goto("looks")
    BY AbsSame DEF Receipts, files, At
<1>2. job'.pc = "looks" /\ job'.op = job.op /\ before' = before
    BY <1>1, GoneTo
<1>3. AtWork(i)'
    BY <1>1, <1>2, OnCourse DEF AtWork, Building
<1>4. ASSUME ~job.half PROVE Course(i, Abs(i), before)'
    <2>1. /\ job.op.kind = "start" /\ before.exists /\ ~before.fenced /\ before.power = "off"
          /\ Abs(i) \in Exits(Contract!Launch(before))
        BY <1>1, <1>4, OnCourse DEF Course
    <2>2. Abs(i)' \in Exits(Contract!Launch(before))
        BY <1>1, <2>1
    <2> QED BY <1>1, <1>2, <2>1, <2>2 DEF Course, Building, Exits
<1> QED BY <1>1, <1>3, <1>4, GoesMeet

LEMMA LooksMeet ==
    ASSUME MeetInv, NEW i \in Ids, i = job.id, up' = up, Looks(i)
    PROVE  PlaceInv' /\ JobInv'
<1> DEFINE m == before
           o == Contract!Outcome(Contract!Launch(m), "ok")
<1>1. UNCHANGED <<folder, retained, qemu>> /\ Abs(i)' = Abs(i) /\ job.pc = "looks"
    BY AbsSame DEF Looks, files, launch, At
<1>2. PICK reply \in {"ok", "error"} : Done(reply)
    BY DEF Looks
<1>3. ASSUME ~job.half PROVE Served(job.op, m, Abs(i)', reply)
    <2>1. /\ job.op.kind = "start" /\ m.exists /\ ~m.fenced /\ m.power = "off"
          /\ Abs(i) \in Exits(Contract!Launch(m)) /\ m \in Contract!Machine
        BY <1>1, <1>3, OnCourse DEF Course
    <2>2. o \in Contract!Outcomes(job.op.kind, m, job.op.spec, job.op.wipe)
        BY <2>1 DEF Contract!Outcomes, Contract!Start
    <2>3. o.machine = Contract!Launch(m) /\ o.reply = "ok"
        BY DEF Contract!Outcome
    <2>4. m \in Exits(m)
        BY DEF Exits
    <2> HIDE DEF o
    <2> QED BY <1>1, <1>2, <2>1, <2>2, <2>3, <2>4, OutcomeServes
<1> QED BY <1>1, <1>2, <1>3, DoneMeets

LEMMA FlaggedMachine ==
    ASSUME NEW m \in Contract!Machine
    PROVE  /\ Flagged(m) \in Contract!Machine /\ Halted(Flagged(m)) = Flagged(Halted(m))
           /\ Flagged(m).exists = m.exists /\ Flagged(m).disk = m.disk /\ Flagged(m).seed = m.seed
           /\ Flagged(m).power = m.power /\ Flagged(m).boot = m.boot /\ Flagged(m).cred = m.cred
           /\ Flagged(m).fenced = TRUE /\ Flagged(m).retained = m.retained
BY DEF Flagged, Halted, Contract!Machine

LEMMA QuitMachine ==
    ASSUME NEW m \in Contract!Machine
    PROVE  /\ Contract!Quit(m) \in Contract!Machine /\ Halted(Contract!Quit(m)) = Halted(m)
           /\ m.power = "off" => Contract!Quit(m) = m
           /\ m.power # "off" => Contract!Quit(m).power = "quitting"
           /\ Contract!Quit(m).exists = m.exists /\ Contract!Quit(m).disk = m.disk
           /\ Contract!Quit(m).seed = m.seed /\ Contract!Quit(m).boot = m.boot
           /\ Contract!Quit(m).cred = m.cred /\ Contract!Quit(m).fenced = m.fenced
           /\ Contract!Quit(m).retained = m.retained
BY DEF Contract!Quit, Halted, Contract!Machine, Contract!Power

LEMMA HaltedOff ==
    ASSUME NEW m \in Contract!Machine
    PROVE  Halted(m).power = "off" /\ Halted(m) \in Exits(m) /\ m \in Exits(m)
BY ExitsAre DEF Halted, Contract!Machine

LEMMA FencesMeet ==
    ASSUME MeetInv, NEW i \in Ids, i = job.id, up' = up, Fences(i)
    PROVE  PlaceInv' /\ JobInv'
<1> DEFINE f == [folder[i] EXCEPT !.fenced = TRUE]
           m == before
           a == Abs(i)
<1>1. /\ job.pc = "fences" /\ UNCHANGED <<retained, qemu>> /\ Goto("quits")
      /\ folder' = [folder EXCEPT ![i] = f]
    BY DEF Fences, At, launch
<1>2. job'.pc = "quits" /\ job'.op = job.op /\ before' = m
    BY <1>1, GoneTo
<1>3. /\ folder \in [Ids -> Folder] /\ folder[i] \in Folder /\ a \in Contract!Machine
      /\ m \in Contract!Machine /\ folder[i].meta
    BY <1>1, OnCourse DEF AtWork
<1>4. /\ f.meta = folder[i].meta /\ f.spec = folder[i].spec /\ f.seed = folder[i].seed /\ f.fenced = TRUE
      /\ folder'[i] = f
    BY <1>1, <1>3 DEF Folder
<1> HIDE DEF f
<1>5. AtWork(i)'
    BY <1>2, <1>3, <1>4 DEF AtWork, Building
<1>6. Abs(i)' = Flagged(a)
    <2>1. /\ Flagged(a) \in Contract!Machine
          /\ Flagged(a).exists = a.exists /\ Flagged(a).disk = a.disk /\ Flagged(a).seed = a.seed
          /\ Flagged(a).power = a.power /\ Flagged(a).boot = a.boot /\ Flagged(a).cred = a.cred
          /\ Flagged(a).fenced = TRUE /\ Flagged(a).retained = a.retained
        BY <1>3, FlaggedMachine
    <2>2. /\ a.exists = folder'[i].meta
          /\ a.disk = (IF folder'[i].meta THEN folder'[i].spec ELSE 0)
          /\ a.seed = (IF folder'[i].meta THEN folder'[i].seed ELSE 0)
          /\ a.power = (IF qemu'[i].power = "launching" THEN "on" ELSE qemu'[i].power)
          /\ a.boot = qemu'[i].boot /\ a.cred = qemu'[i].cred /\ a.retained = (retained'[i] # 0)
        BY <1>1, <1>3, <1>4 DEF Abs
    <2>3. (folder'[i].meta /\ folder'[i].fenced) = TRUE
        BY <1>3, <1>4
    <2> HIDE DEF a
    <2> QED BY <2>1, <2>2, <2>3, AbsBecomes, ZenonT(40)
<1>7. ASSUME ~job.half PROVE Course(i, Abs(i), before)'
    <2>1. job.op.kind = "fence" /\ m.exists /\ a \in Exits(m)
        BY <1>1, <1>7, OnCourse DEF Course
    <2>2. a = m \/ a = Halted(m)
        BY <1>3, <2>1, ExitsAre
    <2> HIDE DEF a, m
    <2>3. Flagged(a) = Flagged(m) \/ Flagged(a) = Halted(Flagged(m))
        BY <1>3, <2>2, FlaggedMachine
    <2>4. Flagged(m) \in Contract!Machine
        BY <1>3, FlaggedMachine
    <2>5. Flagged(a) \in Exits(Flagged(m))
        BY <2>3, <2>4, HaltedOff
    <2>6. (Abs(i) \in Exits(Flagged(before)))'
        BY <1>2, <1>6, <2>5 DEF Exits, Flagged
    <2> QED BY <1>2, <2>1, <2>6 DEF Course, Building
<1> QED BY <1>1, <1>5, <1>7, GoesMeet

\* Runner.stop has asked, or found nothing to ask.
LEMMA QuitsMeet ==
    ASSUME MeetInv, NEW i \in Ids, i = job.id, up' = up, Quits(i)
    PROVE  PlaceInv' /\ JobInv'
<1> DEFINE m == before
           a == Abs(i)
           q == [qemu[i] EXCEPT !.power = "quitting"]
<1>0. /\ job.pc = "quits" /\ UNCHANGED <<folder, retained>>
    BY DEF Quits, files, At
<1>1. /\ a \in Contract!Machine /\ m \in Contract!Machine /\ folder[i].meta
      /\ qemu \in [Ids -> QemuType] /\ qemu[i] \in QemuType
    BY <1>0, OnCourse DEF AtWork
<1>2. /\ a.power = "off" <=> ~Alive(i)
      /\ SeenStopped(i) => ~Alive(i)
    BY AbsPower, SeenIsOff DEF MeetInv, KeepInv
<1>3. ~job.half => /\ m.exists
                   /\ \/ job.op.kind = "fence" /\ a \in Exits(Flagged(m))
                      \/ job.op.kind \in {"shutdown", "force-stop"} /\ a \in Exits(m)
    BY <1>0, OnCourse DEF Course
<1>4. Flagged(m) \in Contract!Machine /\ Contract!Quit(Flagged(m)) \in Contract!Machine
    BY <1>1, FlaggedMachine, QuitMachine
\* It is then in the machine it was, or in the one told to quit.
<1>5. \/ ~Alive(i) /\ Abs(i)' = a /\ Asked
      \/ /\ Alive(i) /\ (Asked \/ Done("error"))
         /\ Abs(i)' = IF job.op.kind = "shutdown" THEN a ELSE Contract!Quit(a)
      \/ Abs(i)' = a /\ (Done("error") \/ Done("gone"))
    <2>1. CASE qemu' = qemu
        <3>1. Abs(i)' = a
            BY <1>0, <2>1, AbsSame
        <3>2. \/ ~Alive(i) /\ Asked
              \/ Alive(i) /\ job.op.kind = "shutdown" /\ (Asked \/ Done("error"))
              \/ Alive(i) /\ qemu' = [qemu EXCEPT ![i].power = "quitting"] /\ (Asked \/ Done("error"))
              \/ Done("error") \/ Done("gone")
            BY <1>2 DEF Quits
        <3>3. ASSUME Alive(i), qemu' = [qemu EXCEPT ![i].power = "quitting"]
              PROVE  Contract!Quit(a) = a
            <4>1. qemu[i].power = "quitting"
                BY <1>1, <2>1, <3>3 DEF QemuType
            <4>2. a.power = "quitting"
                BY <4>1 DEF Abs
            <4> HIDE DEF a
            <4> QED BY <4>2 DEF Contract!Quit
        <3> QED BY <3>1, <3>2, <3>3
    <2>2. CASE qemu' # qemu
        <3>1. Alive(i) /\ job.op.kind # "shutdown" /\ qemu' = [qemu EXCEPT ![i] = q]
              /\ (Asked \/ Done("error"))
            BY <2>2 DEF Quits, launch
        <3>2. qemu'[i] = q /\ q.power = "quitting" /\ q.boot = qemu[i].boot /\ q.cred = qemu[i].cred
            BY <1>1, <3>1 DEF QemuType
        <3> HIDE DEF q
        <3>3. Abs(i)' = Contract!Quit(a)
            <4> DEFINE x == Contract!Quit(a)
            <4>1. /\ x \in Contract!Machine /\ x.power = "quitting" /\ x.exists = a.exists
                  /\ x.disk = a.disk /\ x.seed = a.seed /\ x.boot = a.boot /\ x.cred = a.cred
                  /\ x.fenced = a.fenced /\ x.retained = a.retained
                BY <1>1, <1>2, <3>1, QuitMachine
            <4>2. /\ a.exists = folder'[i].meta
                  /\ a.disk = (IF folder'[i].meta THEN folder'[i].spec ELSE 0)
                  /\ a.seed = (IF folder'[i].meta THEN folder'[i].seed ELSE 0)
                  /\ a.boot = qemu'[i].boot /\ a.cred = qemu'[i].cred
                  /\ a.fenced = (folder'[i].meta /\ folder'[i].fenced)
                  /\ a.retained = (retained'[i] # 0)
                BY <1>0, <3>2 DEF Abs
            <4>3. x.power = (IF qemu'[i].power = "launching" THEN "on" ELSE qemu'[i].power)
                BY <3>2, <4>1
            <4> HIDE DEF a, x
            <4>4. Abs(i)' = x
                BY <4>1, <4>2, <4>3, AbsBecomes
            <4> QED BY <4>4 DEF x
        <3> QED BY <3>1, <3>3
    <2> QED BY <2>1, <2>2
\* What may be answered now, and what a fence has come to.
<1>6. ASSUME ~job.half, job.op.kind = "fence", Asked
      PROVE  Goto("polls") /\ Abs(i)' \in Exits(Contract!Quit(Flagged(m)))
    <2>1. Goto("polls")
        BY <1>6 DEF Asked
    <2>2. a = Flagged(m) \/ a = Halted(Flagged(m))
        BY <1>3, <1>4, <1>6, ExitsAre
    <2>3. \/ Abs(i)' = a /\ a.power = "off"
          \/ Abs(i)' = Contract!Quit(a) /\ a.power # "off"
        <3>1. job'.pc = "polls"
            BY <2>1, GoneTo
        <3>2. ~Done("error") /\ ~Done("gone")
            BY <3>1 DEF Done, MeetInv, KeepInv, Typed
        <3> QED BY <1>2, <1>5, <1>6, <3>2
    <2> HIDE DEF a, m
    <2>4. CASE a.power = "off"
        <3>1. a = Halted(Flagged(m))
            BY <1>4, <2>2, <2>4, ExitsAre
        <3>2. Abs(i)' = Halted(Contract!Quit(Flagged(m)))
            BY <1>4, <2>3, <2>4, <3>1, QuitMachine
        <3> QED BY <1>4, <2>1, <3>2, HaltedOff
    <2>5. CASE a.power # "off"
        <3>1. a = Flagged(m)
            BY <1>4, <2>2, <2>5, HaltedOff
        <3>2. Abs(i)' = Contract!Quit(Flagged(m))
            BY <2>3, <2>5, <3>1
        <3> QED BY <1>4, <2>1, <3>2, HaltedOff
    <2> QED BY <2>1, <2>4, <2>5
<1>7. ASSUME NEW reply \in {"ok", "error", "gone"}, Done(reply), ~job.half
      PROVE  Served(job.op, m, Abs(i)', reply)
    <2>0. job'.pc = "done" /\ job'.reply = reply
        BY <1>7 DEF Done, MeetInv, KeepInv, Typed
    <2>1. CASE job.op.kind = "fence"
        <3>1. ~Asked /\ reply \in {"error", "gone"}
            <4>1. ~Asked
                <5>1. Asked => job'.pc = "polls"
                    BY <2>1, GoneTo DEF Asked
                <5> QED BY <2>0, <5>1
            <4>2. Done("error") \/ Done("gone")
                BY <1>5, <4>1
            <4>3. job'.reply \in {"error", "gone"}
                BY <4>2 DEF Done, MeetInv, KeepInv, Typed
            <4> QED BY <2>0, <4>1, <4>3
        <3>2. m.exists /\ a \in Exits(Flagged(m))
            BY <1>3, <1>7, <2>1
        <3>3. CASE Abs(i)' = a
            BY <1>1, <2>1, <3>1, <3>2, <3>3, FenceServes
        <3>4. CASE Abs(i)' # a
            <4>1. Alive(i) /\ Done("error") /\ Abs(i)' = Contract!Quit(a)
                BY <1>5, <2>1, <3>1, <3>4
            <4>2. reply = "error"
                BY <2>0, <4>1 DEF Done, MeetInv, KeepInv, Typed
            <4> HIDE DEF a, m
            <4>3. a = Flagged(m) /\ m.power # "off"
                <5>1. a.power # "off"
                    BY <1>2, <4>1
                <5>2. a = Flagged(m) \/ a = Halted(Flagged(m))
                    BY <1>4, <3>2, ExitsAre
                <5>3. a = Flagged(m)
                    BY <1>4, <5>1, <5>2, HaltedOff
                <5> QED BY <1>1, <5>1, <5>3, FlaggedMachine
            <4> DEFINE o == Contract!Failure(Contract!Quit(Flagged(m)))
            <4>4. o \in Contract!Outcomes(job.op.kind, m, job.op.spec, job.op.wipe)
                BY <2>1, <3>2, <4>3 DEF Contract!Outcomes, Contract!Fence, Flagged
            <4>5. o.machine = Abs(i)' /\ o.reply = "error"
                BY <4>1, <4>3 DEF Contract!Failure, Contract!Outcome
            <4>6. m \in Exits(m) /\ Abs(i)' \in Exits(o.machine)
                BY <4>5 DEF Exits
            <4> HIDE DEF o
            <4> QED BY <1>1, <4>2, <4>4, <4>5, <4>6, OutcomeServes
        <3> QED BY <3>3, <3>4
    <2>2. CASE job.op.kind \in {"shutdown", "force-stop"}
        <3>1. m.exists /\ a \in Exits(m)
            BY <1>3, <1>7, <2>2
        <3>2. CASE Abs(i)' = a /\ reply \in {"error", "gone"}
            <4>1. reply \in Contract!Failed(job.op.kind)
                BY <2>2, <3>2 DEF Contract!Failed
            <4> QED BY <1>1, <3>1, <3>2, <4>1, FailureServes
        <3>3. CASE ~(Abs(i)' = a /\ reply \in {"error", "gone"})
            <4> DEFINE x == IF job.op.kind = "force-stop" THEN Contract!Quit(a) ELSE a
                       o == Contract!Outcome(x, "ok")
            <4>1. Abs(i)' = x /\ reply \in {"ok", "error"}
                <5>1. ~Alive(i) => Contract!Quit(a) = a
                    BY <1>1, <1>2, QuitMachine
                <5>2. Asked => Done("ok")
                    BY <2>2 DEF Asked
                <5>3. \A r \in {"ok", "error", "gone"} : Done(r) => r = reply
                    BY <2>0 DEF Done, MeetInv, KeepInv, Typed
                <5> HIDE DEF a
                <5> QED BY <1>5, <2>2, <3>3, <5>1, <5>2, <5>3
            <4>2. a.exists
                BY <1>1, AbsPower DEF MeetInv, KeepInv
            <4>3. o \in Contract!Outcomes(job.op.kind, a, job.op.spec, job.op.wipe)
                BY <2>2, <4>2 DEF Contract!Outcomes, Contract!Stop
            <4>4. o.machine = x /\ o.reply = "ok" /\ x \in Exits(x)
                BY DEF Contract!Outcome, Exits
            <4> HIDE DEF o, x, a, m
            <4> QED BY <1>1, <3>1, <4>1, <4>3, <4>4, OutcomeServes
        <3> QED BY <3>2, <3>3
    <2> QED BY <1>3, <1>7, <2>1, <2>2
<1>8. CASE \E reply \in {"ok", "error", "gone"} : Done(reply)
    BY <1>0, <1>7, <1>8, DoneMeets
<1>9. CASE Goto("polls") /\ job.op.kind = "fence"
    <2>1. job'.pc = "polls" /\ job'.op = job.op /\ before' = m
        BY <1>9, GoneTo
    <2>2. AtWork(i)'
        BY <1>0, <1>1, <2>1 DEF AtWork, Building
    <2>3. ASSUME ~job.half PROVE Course(i, Abs(i), before)'
        <3>1. Abs(i)' \in Exits(Contract!Quit(Flagged(m)))
            BY <1>6, <1>9, <2>3 DEF Asked
        <3>2. (Abs(i) \in Exits(Contract!Quit(Flagged(before))))'
            BY <2>1, <3>1
        <3>3. m.exists
            BY <1>3, <2>3
        <3> QED BY <1>9, <2>1, <3>2, <3>3 DEF Course, Building
    <2> QED BY <1>0, <1>9, <2>2, <2>3, GoesMeet
<1> QED BY <1>5, <1>8, <1>9 DEF Asked

\* A fence is answered with success only of a machine whose QEMU is gone.
LEMMA PollsMeet ==
    ASSUME MeetInv, NEW i \in Ids, i = job.id, up' = up, Polls(i)
    PROVE  PlaceInv' /\ JobInv'
<1> DEFINE m == before
           a == Abs(i)
           o == Contract!Outcome(Halted(Flagged(m)), "ok")
<1>0. /\ job.pc = "polls" /\ UNCHANGED <<folder, retained, qemu>> /\ Abs(i)' = a
    BY AbsSame DEF Polls, files, At
<1>1. \/ ~Alive(i) /\ Done("ok")
      \/ Done("error")
    BY SeenIsOff DEF Polls, MeetInv
<1>2. CASE Done("error")
    BY <1>0, <1>2, OnCourse, FailsMeet, DoneMeets DEF Half, Whole
<1>3. CASE ~Alive(i) /\ Done("ok")
    <2>1. ASSUME ~job.half PROVE Served(job.op, m, Abs(i)', "ok")
        <3>1. /\ job.op.kind = "fence" /\ m.exists /\ a \in Exits(Contract!Quit(Flagged(m)))
              /\ m \in Contract!Machine
            BY <1>0, <2>1, OnCourse DEF Course
        <3>2. a.power = "off"
            BY <1>3, AbsPower DEF MeetInv, KeepInv
        <3> HIDE DEF a, m
        <3>3. Flagged(m) \in Contract!Machine /\ Contract!Quit(Flagged(m)) \in Contract!Machine
            BY <3>1, FlaggedMachine, QuitMachine
        <3>4. a = Halted(Flagged(m))
            <4>1. a = Contract!Quit(Flagged(m)) \/ a = Halted(Contract!Quit(Flagged(m)))
                BY <3>1, <3>3, ExitsAre
            <4>2. a = Halted(Contract!Quit(Flagged(m)))
                BY <3>2, <3>3, <4>1, ExitsAre
            <4> QED BY <3>3, <4>2, QuitMachine
        <3>5. o \in Contract!Outcomes(job.op.kind, m, job.op.spec, job.op.wipe)
            BY <3>1 DEF Contract!Outcomes, Contract!Fence, Flagged, Halted
        <3>6. o.machine = Abs(i)' /\ o.reply = "ok"
            BY <1>0, <3>4 DEF Contract!Outcome
        <3>7. m \in Exits(m) /\ Abs(i)' \in Exits(o.machine)
            BY <3>6 DEF Exits
        <3> HIDE DEF o
        <3> QED BY <3>1, <3>5, <3>6, <3>7, OutcomeServes
    <2> QED BY <1>0, <1>3, <2>1, DoneMeets
<1> QED BY <1>1, <1>2, <1>3

LEMMA FlagsMeet ==
    ASSUME MeetInv, NEW i \in Ids, i = job.id, up' = up, Flags(i)
    PROVE  PlaceInv' /\ JobInv'
<1> DEFINE f == [folder[i] EXCEPT !.retaining = TRUE]
<1>1. /\ job.pc = "flags" /\ UNCHANGED <<retained, qemu>> /\ Goto("renames")
      /\ folder' = [folder EXCEPT ![i] = f]
    BY DEF Flags, At, launch
<1>2. job'.pc = "renames" /\ job'.op = job.op /\ before' = before
    BY <1>1, GoneTo
<1>3. AtWork(i) /\ folder \in [Ids -> Folder] /\ folder[i] \in Folder
    BY <1>1, OnCourse
<1>4. /\ f.dir = folder[i].dir /\ f.meta = folder[i].meta /\ f.spec = folder[i].spec
      /\ f.root = folder[i].root /\ f.seed = folder[i].seed /\ f.fenced = folder[i].fenced
      /\ folder'[i] = f
    BY <1>1, <1>3 DEF Folder
<1> HIDE DEF f
<1>5. Abs(i)' = Abs(i) /\ Whole(i)' = Whole(i)
    BY <1>1, <1>4 DEF Abs, Whole
<1>6. AtWork(i)'
    BY <1>1, <1>2, <1>3, <1>4 DEF AtWork, Building, Alive
<1>7. ASSUME ~job.half PROVE Course(i, Abs(i), before)'
    <2>1. /\ job.op.kind = "destroy" /\ ~job.op.wipe /\ Abs(i) = before /\ ~before.retained
          /\ Whole(i)
        BY <1>1, <1>7, OnCourse DEF Course
    <2> QED BY <1>2, <1>5, <2>1 DEF Course, Building
<1> QED BY <1>1, <1>6, <1>7, GoesMeet

LEMMA RenamesMeet ==
    ASSUME MeetInv, NEW i \in Ids, i = job.id, up' = up, Renames(i)
    PROVE  PlaceInv' /\ JobInv'
<1> DEFINE f == [folder[i] EXCEPT !.root = 0]
           m == before
<1>1. /\ job.pc = "renames" /\ qemu' = qemu
      /\ retained' = [retained EXCEPT ![i] = folder[i].root]
      /\ folder' = [folder EXCEPT ![i] = f]
    BY DEF Renames, At, launch
<1>2. AtWork(i) /\ folder \in [Ids -> Folder] /\ folder[i] \in Folder /\ retained \in [Ids -> Nat]
    BY <1>1, OnCourse
<1>3. f.dir = folder[i].dir /\ f.root = 0 /\ folder'[i] = f /\ retained'[i] = folder[i].root
    BY <1>1, <1>2 DEF Folder
<1> HIDE DEF f
<1>4. CASE folder[i].root = 0
    <2>1. Done("gone")
        BY <1>4 DEF Renames
    <2>2. job.half
        BY <1>1, <1>4, OnCourse DEF Course, Whole, MeetInv, KeepInv, Typed
    <2> QED BY <1>1, <2>1, <2>2, DoneMeets
<1>5. CASE folder[i].root # 0
    <2>1. Goto("removes")
        BY <1>5 DEF Renames
    <2>2. job'.pc = "removes" /\ job'.op = job.op /\ before' = m
        BY <2>1, GoneTo
    <2>3. AtWork(i)'
        BY <1>1, <1>2, <2>2 DEF AtWork, Building, Alive
    <2>4. ASSUME ~job.half PROVE Course(i, Abs(i), before)'
        <3>1. job.op.kind = "destroy" /\ ~job.op.wipe /\ Abs(i) = m /\ ~m.retained
            BY <1>1, <2>4, OnCourse DEF Course
        <3>2. m.exists /\ m.power = "off" /\ m.boot = qemu[i].boot /\ m.cred = qemu[i].cred
            BY <1>1, <1>2, <3>1, AbsPower DEF AtWork, MeetInv, KeepInv
        <3>3. Half(i)'
            <4>1. folder[i].dir
                BY <1>5 DEF MeetInv, HostInv
            <4> QED BY <1>3, <4>1 DEF Half, Whole
        <3>4. Abs(i)'.boot = m.boot /\ Abs(i)'.cred = m.cred /\ Abs(i)'.retained = TRUE
            BY <1>1, <1>3, <1>5, <3>2 DEF Abs
        <3> QED BY <2>2, <3>1, <3>2, <3>3, <3>4 DEF Course, Building
    <2> QED BY <1>1, <2>1, <2>3, <2>4, GoesMeet
<1> QED BY <1>4, <1>5

LEMMA RemovesMeet ==
    ASSUME MeetInv, NEW i \in Ids, i = job.id, up' = up, Removes(i)
    PROVE  PlaceInv' /\ JobInv'
<1> DEFINE m == before
           a == Abs(i)
           f1 == [NoFolder EXCEPT !.dir = TRUE, !.root = folder[i].root, !.seed = folder[i].seed]
           f2 == [folder[i] EXCEPT !.root = 0]
           f3 == [folder[i] EXCEPT !.seed = 0]
<1>1. job.pc = "removes" /\ UNCHANGED <<retained, qemu>>
    BY DEF Removes, At, launch
<1>2. /\ AtWork(i) /\ folder \in [Ids -> Folder] /\ folder[i] \in Folder
      /\ m \in Contract!Machine /\ a \in Contract!Machine /\ ~Alive(i)
    BY <1>1, OnCourse DEF AtWork
<1>3. ~job.half => /\ job.op.kind = "destroy" /\ m.exists /\ m.power = "off"
                   /\ a.boot = m.boot /\ a.cred = m.cred /\ a.retained = (m.retained \/ ~job.op.wipe)
    BY <1>1, OnCourse DEF Course
<1>4. ~folder[i].dir => ~folder[i].meta /\ folder[i].root = 0 /\ folder[i].seed = 0
    BY DEF MeetInv, HostInv
\* One more file is gone.
<1>5. CASE /\ Goto("removes")
           /\ \E f \in {f1, f2, f3} : folder' = [folder EXCEPT ![i] = f]
           /\ folder[i].meta \/ folder[i].root # 0 \/ folder[i].seed # 0
           /\ folder' = [folder EXCEPT ![i] = f1] \/ folder'[i].root = 0 \/ folder'[i].seed = 0
    <2>1. job'.pc = "removes" /\ job'.op = job.op /\ before' = m
        BY <1>5, GoneTo
    <2>2. folder[i].dir
        BY <1>4, <1>5
    <2>3. f1.dir /\ ~f1.meta /\ f2.dir = folder[i].dir /\ f3.dir = folder[i].dir
        BY <1>2 DEF NoFolder, Folder
    <2>4. Half(i)'
        <3>1. folder'[i] \in {f1, f2, f3} /\ (folder'[i] = f1 \/ folder'[i].root = 0 \/ folder'[i].seed = 0)
            BY <1>2, <1>5
        <3> HIDE DEF f1, f2, f3
        <3> QED BY <2>2, <2>3, <3>1 DEF Half, Whole
    <2>5. AtWork(i)'
        BY <1>1, <1>2, <2>1 DEF AtWork, Building, Alive
    <2>6. Abs(i)'.boot = a.boot /\ Abs(i)'.cred = a.cred /\ Abs(i)'.retained = a.retained
        BY <1>1 DEF Abs
    <2>7. ASSUME ~job.half PROVE Course(i, Abs(i), before)'
        BY <1>3, <2>1, <2>4, <2>6, <2>7 DEF Course, Building
    <2> QED BY <1>1, <1>5, <2>5, <2>7, GoesMeet
\* Nothing is left.
<1>6. CASE folder' = [folder EXCEPT ![i] = NoFolder] /\ Done("ok")
    <2> DEFINE Gone == [Contract!NoMachine EXCEPT !.boot = m.boot, !.cred = m.cred,
                                                  !.retained = m.retained \/ ~job.op.wipe]
               o == Contract!Outcome(Gone, "ok")
    <2>1. ASSUME ~job.half PROVE Served(job.op, m, Abs(i)', "ok")
        <3>1. o \in Contract!Outcomes(job.op.kind, m, job.op.spec, job.op.wipe)
            BY <1>3, <2>1 DEF Contract!Outcomes, Contract!Destroy
        <3>2. o.machine = Gone /\ o.reply = "ok"
            BY DEF Contract!Outcome
        <3>3. /\ Gone.exists = FALSE /\ Gone.disk = 0 /\ Gone.seed = 0 /\ Gone.power = "off"
              /\ Gone.boot = m.boot /\ Gone.cred = m.cred /\ Gone.fenced = FALSE
              /\ Gone.retained = (m.retained \/ ~job.op.wipe)
            BY DEF Contract!NoMachine
        <3>4. Gone \in Contract!Machine
            <4>1. m.boot \in Nat /\ m.cred \in Nat /\ (m.retained \/ ~job.op.wipe) \in BOOLEAN
                BY <1>2 DEF Contract!Machine
            <4> QED BY <4>1, NoMachineTyped DEF Contract!NoMachine, Contract!Machine
        <3> HIDE DEF Gone, o
        <3>5. /\ a.boot = qemu[i].boot /\ a.cred = qemu[i].cred /\ a.retained = (retained[i] # 0)
            BY <1>2, AbsPower DEF MeetInv, KeepInv
        <3>6. /\ folder'[i] = NoFolder /\ NoFolder.meta = FALSE /\ qemu'[i].power = "off"
              /\ qemu'[i] = qemu[i] /\ retained'[i] = retained[i]
            BY <1>1, <1>2, <1>6 DEF NoFolder, Alive
        <3>7. Abs(i)' = Gone
            <4>1. Gone.exists = folder'[i].meta /\ Gone.fenced = (folder'[i].meta /\ folder'[i].fenced)
                BY <3>3, <3>6
            <4>2. /\ Gone.disk = (IF folder'[i].meta THEN folder'[i].spec ELSE 0)
                  /\ Gone.seed = (IF folder'[i].meta THEN folder'[i].seed ELSE 0)
                  /\ Gone.power = (IF qemu'[i].power = "launching" THEN "on" ELSE qemu'[i].power)
                BY <3>3, <3>6
            <4>3. Gone.boot = qemu'[i].boot /\ Gone.cred = qemu'[i].cred /\ Gone.retained = (retained'[i] # 0)
                BY <1>3, <2>1, <3>3, <3>5, <3>6
            <4> QED BY <3>4, <4>1, <4>2, <4>3, AbsBecomes
        <3>8. m \in Exits(m) /\ Gone \in Exits(o.machine)
            BY <3>2 DEF Exits
        <3> QED BY <1>2, <3>1, <3>2, <3>7, <3>8, OutcomeServes
    <2> QED BY <1>1, <1>6, <2>1, DoneMeets
<1>7. \/ folder[i].meta /\ folder' = [folder EXCEPT ![i] = f1] /\ Goto("removes")
      \/ folder[i].root # 0 /\ folder' = [folder EXCEPT ![i] = f2] /\ Goto("removes")
      \/ folder[i].seed # 0 /\ folder' = [folder EXCEPT ![i] = f3] /\ Goto("removes")
      \/ folder' = [folder EXCEPT ![i] = NoFolder] /\ Done("ok")
    BY DEF Removes
<1>8. f2.root = 0 /\ f3.seed = 0 /\ \A f : folder' = [folder EXCEPT ![i] = f] => folder'[i] = f
    BY <1>2 DEF Folder
<1> HIDE DEF f1, f2, f3
<1> QED BY <1>5, <1>6, <1>7, <1>8

LEMMA SeedsMeet ==
    ASSUME MeetInv, NEW i \in Ids, i = job.id, up' = up, Seeds(i)
    PROVE  PlaceInv' /\ JobInv'
<1> DEFINE f == [folder[i] EXCEPT !.seed = job.op.spec]
           m == before
           Reseeded == [m EXCEPT !.seed = job.op.spec]
           o == Contract!Outcome(Reseeded, "ok")
<1>1. /\ job.pc = "seeds" /\ UNCHANGED <<retained, qemu>> /\ Done("ok")
      /\ folder' = [folder EXCEPT ![i] = f]
    BY DEF Seeds, At, launch
<1>2. /\ folder \in [Ids -> Folder] /\ folder[i] \in Folder /\ m \in Contract!Machine
      /\ folder[i].meta /\ ~Alive(i) /\ job.op.spec \in Nat
    BY <1>1, OnCourse DEF AtWork
<1>3. /\ f.meta = folder[i].meta /\ f.spec = folder[i].spec /\ f.fenced = folder[i].fenced
      /\ f.seed = job.op.spec /\ folder'[i] = f
    BY <1>1, <1>2 DEF Folder
<1> HIDE DEF f
<1>4. ASSUME ~job.half PROVE Served(job.op, m, Abs(i)', "ok")
    <2>1. job.op.kind = "reseed" /\ Abs(i) = m
        BY <1>1, <1>4, OnCourse DEF Course
    <2>2. /\ m.exists = folder[i].meta /\ m.power = "off" /\ m.boot = qemu[i].boot
          /\ m.cred = qemu[i].cred /\ m.retained = (retained[i] # 0) /\ m.disk = folder[i].spec
          /\ m.fenced = (folder[i].meta /\ folder[i].fenced)
        BY <1>2, <2>1, AbsPower DEF MeetInv, KeepInv
    <2>3. o \in Contract!Outcomes(job.op.kind, m, job.op.spec, job.op.wipe)
        BY <1>2, <2>1, <2>2 DEF Contract!Outcomes, Contract!Reseed
    <2>4. o.machine = Reseeded /\ o.reply = "ok"
        BY DEF Contract!Outcome
    <2>5. /\ Reseeded.exists = m.exists /\ Reseeded.disk = m.disk /\ Reseeded.seed = job.op.spec
          /\ Reseeded.power = m.power /\ Reseeded.boot = m.boot /\ Reseeded.cred = m.cred
          /\ Reseeded.fenced = m.fenced /\ Reseeded.retained = m.retained
          /\ Reseeded \in Contract!Machine
        BY <1>2 DEF Contract!Machine
    <2> HIDE DEF o, Reseeded
    <2>6. qemu'[i] = qemu[i] /\ retained'[i] = retained[i] /\ qemu[i].power = "off"
        BY <1>1, <1>2 DEF Alive
    <2>7. Abs(i)' = Reseeded
        <3>1. /\ Reseeded.exists = folder'[i].meta
              /\ Reseeded.fenced = (folder'[i].meta /\ folder'[i].fenced)
              /\ Reseeded.retained = (retained'[i] # 0)
            BY <1>3, <2>2, <2>5, <2>6
        <3>2. /\ Reseeded.disk = (IF folder'[i].meta THEN folder'[i].spec ELSE 0)
              /\ Reseeded.seed = (IF folder'[i].meta THEN folder'[i].seed ELSE 0)
              /\ Reseeded.power = (IF qemu'[i].power = "launching" THEN "on" ELSE qemu'[i].power)
              /\ Reseeded.boot = qemu'[i].boot /\ Reseeded.cred = qemu'[i].cred
            BY <1>2, <1>3, <2>2, <2>5, <2>6
        <3> QED BY <2>5, <3>1, <3>2, SMTT(20), AbsBecomes
    <2>8. m \in Exits(m) /\ Reseeded \in Exits(o.machine)
        BY <2>4 DEF Exits
    <2> QED BY <1>2, <2>3, <2>4, <2>7, <2>8, OutcomeServes
<1> QED BY <1>1, <1>4, DoneMeets

LEMMA CallFailsMeet ==
    ASSUME MeetInv, CallFails
    PROVE  PlaceInv' /\ JobInv'
<1>1. PICK i \in Ids : i = job.id
    BY DEF CallFails, MeetInv, KeepInv, Typed
<1>2. /\ UNCHANGED <<folder, retained, qemu>> /\ up' = up /\ Abs(i)' = Abs(i) /\ Done("error")
      /\ job.pc \notin {"idle", "receipts", "looks", "done"}
    BY AbsSame DEF CallFails, files
<1>3. ~job.half => Half(i) \/ Served(job.op, before, Abs(i), "error")
    BY <1>1, <1>2, OnCourse, FailsMeet
<1>4. ~job.half => Half(i)' \/ Served(job.op, before, Abs(i)', "error")
    BY <1>2, <1>3 DEF Half, Whole
<1> QED BY <1>1, <1>2, <1>4, DoneMeets

-----------------------------------------------------------------------------
(* Meanwhile *)

\* QEMU of the machine at work may end, or open its socket.
LEMMA CourseStays ==
    ASSUME MeetInv, NEW i \in Ids, i = job.id, job.pc # "idle", ~job.half,
           UNCHANGED <<folder, job, before>>,
           Abs(i)' \in Exits(Abs(i)), ~Alive(i) => Abs(i)' = Abs(i)
    PROVE  Course(i, Abs(i), before)'
<1> DEFINE m == before
           a == Abs(i)
           n == Abs(i)'
           Up == Contract!Launch(m)
<1>1. /\ Course(i, a, m) /\ AtWork(i) /\ a \in Contract!Machine /\ m \in Contract!Machine
      /\ job.op.spec \in Nat /\ job.pc \in Pcs
    BY OnCourse DEF MeetInv, KeepInv, Typed
<1>2. n \in Contract!Machine /\ n.boot = a.boot /\ n.cred = a.cred /\ n.retained = a.retained
    <2>1. n = a \/ n = Halted(a)
        BY <1>1, ExitsAre
    <2>2. Halted(a).boot = a.boot /\ Halted(a).cred = a.cred /\ Halted(a).retained = a.retained
          /\ Halted(a) \in Contract!Machine
        BY <1>1, ExitsAre DEF Halted, Contract!Machine
    <2> QED BY <1>1, <2>1, <2>2
<1>3. \A x \in Contract!Machine : a \in Exits(x) => n \in Exits(x)
    BY ExitsTwice
<1>4. /\ Up \in Contract!Machine /\ Flagged(m) \in Contract!Machine
      /\ Contract!Quit(Flagged(m)) \in Contract!Machine
    <2>1. m.boot + 1 \in Nat
        BY <1>1 DEF Contract!Machine
    <2>2. Up \in Contract!Machine
        BY <1>1, <2>1 DEF Contract!Launch, Contract!Machine, Contract!Power
    <2> QED BY <1>1, <2>2, FlaggedMachine, QuitMachine
<1>5. job.pc \in Building \cup {"marks", "spawns", "flags", "renames", "removes", "seeds"} => n = a
    <2>1. job.pc \in Building => ~Alive(i)
        BY <1>1 DEF AtWork, MeetInv, HostInv
    <2>2. job.pc \in {"marks", "spawns", "flags", "renames", "removes", "seeds"} => ~Alive(i)
        BY <1>1 DEF AtWork
    <2> QED BY <2>1, <2>2
<1>6. /\ Half(i)' = Half(i) /\ Whole(i)' = Whole(i) /\ job' = job /\ before' = m
    BY DEF Half, Whole
<1>7. job.pc = "done" => Half(i) \/ Served(job.op, m, n, job.reply)
    BY <1>1, ServedStill DEF Course
<1>8. (a \in Exits(m) => n \in Exits(m)) /\ (a \in Exits(Up) => n \in Exits(Up))
      /\ (a \in Exits(Flagged(m)) => n \in Exits(Flagged(m)))
      /\ (a \in Exits(Contract!Quit(Flagged(m))) => n \in Exits(Contract!Quit(Flagged(m))))
    BY <1>1, <1>3, <1>4
\* Step by step, with the machine as it is now.
<1>9. Course(i, n, m)
    <2> HIDE DEF n, a, m
    <2>1. Up = Contract!Launch(m)
        OBVIOUS
    <2> HIDE DEF Up
    <2> QED BY <1>1, <1>2, <1>5, <1>7, <1>8, <2>1 DEF Course, Building
<1> QED BY <1>6, <1>9 DEF Course

LEMMA IdleMeets ==
    ASSUME job'.pc = "idle", job'.id \notin Ids \/ job' = NoJob
    PROVE  PlaceInv' /\ JobInv'
BY DEF PlaceInv, JobInv, AtWork, Building, NoJob

\* The host moves, and the mutation does not.
LEMMA HostMeets ==
    ASSUME MeetInv, UNCHANGED <<folder, retained, job, before>>, up' = up \/ job.pc = "idle",
           \A i \in Ids : i = job.id =>
              /\ marker'[i] = marker[i] /\ qemu'[i].boot = qemu[i].boot
              /\ Abs(i)' \in Exits(Abs(i))
              /\ ~Alive(i) => ~Alive(i)' /\ Abs(i)' = Abs(i)
    PROVE  PlaceInv' /\ JobInv'
<1>1. CASE job.pc = "idle"
    BY <1>1 DEF PlaceInv, JobInv, AtWork, Building
<1>2. CASE job.pc # "idle"
    <2>1. PICK i \in Ids : i = job.id
        BY <1>2 DEF MeetInv, KeepInv, Typed
    <2>2. up' /\ job' = job
        BY <1>2 DEF MeetInv, PlaceInv
    <2>3. AtWork(i)
        BY <1>2, <2>1, OnCourse
    <2>4. AtWork(i)'
        BY <2>1, <2>2, <2>3 DEF AtWork
    <2>5. PlaceInv'
        BY <2>1, <2>2, <2>4 DEF PlaceInv
    <2>6. ASSUME ~job.half PROVE Course(i, Abs(i), before)'
        BY <1>2, <2>1, <2>6, CourseStays
    <2>7. JobInv'
        BY <2>1, <2>2, <2>6 DEF JobInv
    <2> QED BY <2>5, <2>7
<1> QED BY <1>1, <1>2

LEMMA MeanwhileMeets ==
    ASSUME MeetInv, \/ Answers \/ Crashes \/ HostReboots \/ Restarts
                    \/ \E i \in Ids : Describes(i) \/ QemuOpens(i) \/ QemuExits(i) \/ QemuCloses(i)
                    \/ UNCHANGED vars
    PROVE  PlaceInv' /\ JobInv'
<1>0. /\ marker \in [Ids -> MarkerType] /\ qemu \in [Ids -> QemuType]
      /\ \A i \in Ids : Abs(i) \in Contract!Machine /\ (SeenStopped(i) => ~Alive(i))
    BY AbsTyped, SeenIsOff DEF MeetInv, HostInv, LaunchTyped, KeepInv
<1>1. CASE Answers \/ Crashes \/ HostReboots
    <2>1. job' = NoJob
        BY <1>1 DEF Answers, Crashes, HostReboots, Forgets
    <2> QED BY <2>1, IdleMeets DEF NoJob
<1>2. CASE Restarts
    <2>1. job.pc = "idle"
        BY <1>2 DEF Restarts, MeetInv, PlaceInv
    <2>2. UNCHANGED <<folder, retained, job, before, marker, qemu>>
        BY <1>2 DEF Restarts, files, launch
    <2>3. \A i \in Ids : Abs(i)' = Abs(i) /\ (~Alive(i) => ~Alive(i)') /\ Abs(i)' \in Exits(Abs(i))
        BY <2>2, AbsSame DEF Alive, Exits
    <2> QED BY <2>1, <2>2, <2>3, HostMeets
<1>3. CASE UNCHANGED vars
    <2>1. UNCHANGED <<folder, retained, job, before, marker, qemu, up>>
        BY <1>3 DEF vars, files, launch
    <2>2. \A i \in Ids : Abs(i)' = Abs(i) /\ (~Alive(i) => ~Alive(i)') /\ Abs(i)' \in Exits(Abs(i))
        BY <2>1, AbsSame DEF Alive, Exits
    <2> QED BY <2>1, <2>2, HostMeets
<1>4. ASSUME NEW j \in Ids, Describes(j)
      PROVE  PlaceInv' /\ JobInv'
    <2>1. UNCHANGED <<folder, retained, job, before, qemu, up>> /\ job.id # j
          /\ marker' = [marker EXCEPT ![j] = NoMarker]
        BY <1>4 DEF Describes, Clears, files
    <2>2. \A i \in Ids : i = job.id => marker'[i] = marker[i]
        BY <1>0, <2>1
    <2>3. \A i \in Ids : Abs(i)' = Abs(i) /\ (~Alive(i) => ~Alive(i)') /\ Abs(i)' \in Exits(Abs(i))
        BY <2>1, AbsSame DEF Alive, Exits
    <2> QED BY <2>1, <2>2, <2>3, HostMeets
<1>5. ASSUME NEW j \in Ids, QemuOpens(j) \/ QemuExits(j) \/ QemuCloses(j)
      PROVE  PlaceInv' /\ JobInv'
    <2> DEFINE On == [qemu[j] EXCEPT !.power = "on"]
               Off == [qemu[j] EXCEPT !.power = "off"]
    <2>1. UNCHANGED <<folder, retained, job, before, marker, up>>
        BY <1>5 DEF QemuOpens, QemuExits, QemuCloses, files
    <2>2. \A i \in Ids : /\ qemu'[i].boot = qemu[i].boot /\ Abs(i)' \in Exits(Abs(i))
                         /\ ~Alive(i) => ~Alive(i)' /\ Abs(i)' = Abs(i)
        <3> SUFFICES ASSUME NEW i \in Ids
                     PROVE  /\ qemu'[i].boot = qemu[i].boot /\ Abs(i)' \in Exits(Abs(i))
                            /\ ~Alive(i) => ~Alive(i)' /\ Abs(i)' = Abs(i)
            OBVIOUS
        <3>0. Abs(i) \in Exits(Abs(i))
            BY DEF Exits
        <3>1. CASE qemu'[i] = qemu[i]
            BY <2>1, <3>0, <3>1, AbsSame DEF Alive
        <3>2. CASE i = j /\ QemuOpens(j)
            <4>1. qemu'[i] = On /\ On.power = "on" /\ On.boot = qemu[i].boot /\ On.cred = qemu[i].cred
                  /\ qemu[i].power = "launching"
                BY <1>0, <3>2 DEF QemuOpens, QemuType
            <4> HIDE DEF On
            <4>2. Abs(i)' = Abs(i) /\ Alive(i)
                BY <2>1, <4>1 DEF Abs, Alive
            <4> QED BY <3>0, <4>1, <4>2
        <3>3. CASE i = j /\ QemuExits(j)
            <4>1. /\ qemu'[i] = Off /\ Off.power = "off" /\ Off.boot = qemu[i].boot
                  /\ Off.cred = qemu[i].cred /\ Alive(i)
                BY <1>0, <3>3 DEF QemuExits, QemuType
            <4> HIDE DEF Off
            <4> DEFINE x == Halted(Abs(i))
            <4>2. /\ x \in Contract!Machine /\ x \in Exits(Abs(i)) /\ x.power = "off"
                  /\ x.exists = Abs(i).exists /\ x.disk = Abs(i).disk /\ x.seed = Abs(i).seed
                  /\ x.boot = Abs(i).boot /\ x.cred = Abs(i).cred /\ x.fenced = Abs(i).fenced
                  /\ x.retained = Abs(i).retained
                BY <1>0, ExitsAre DEF Halted, Contract!Machine
            <4>3. /\ Abs(i).exists = folder'[i].meta
                  /\ Abs(i).disk = (IF folder'[i].meta THEN folder'[i].spec ELSE 0)
                  /\ Abs(i).seed = (IF folder'[i].meta THEN folder'[i].seed ELSE 0)
                  /\ Abs(i).boot = qemu'[i].boot /\ Abs(i).cred = qemu'[i].cred
                  /\ Abs(i).fenced = (folder'[i].meta /\ folder'[i].fenced)
                  /\ Abs(i).retained = (retained'[i] # 0)
                BY <2>1, <4>1 DEF Abs
            <4> HIDE DEF x
            <4>4. Abs(i)' = x
                BY <4>1, <4>2, <4>3, AbsBecomes
            <4> QED BY <4>1, <4>2, <4>4
        <3>4. qemu'[i] = qemu[i] \/ (i = j /\ (QemuOpens(j) \/ QemuExits(j)))
            BY <1>0, <1>5 DEF QemuOpens, QemuExits, QemuCloses
        <3> QED BY <3>1, <3>2, <3>3, <3>4
    <2> QED BY <2>1, <2>2, HostMeets
<1> QED BY <1>1, <1>2, <1>3, <1>4, <1>5

-----------------------------------------------------------------------------

LEMMA InitMeets == Init => MeetInv
<1> SUFFICES ASSUME Init PROVE MeetInv
    OBVIOUS
<1>1. KeepInv
    BY InitKeeps
<1>2. RestTyped
    BY RunnerConstants, NoMachineTyped DEF Init, RestTyped, NoStaging
<1>3. HostInv
    BY RunnerConstants DEF Init, HostInv, LaunchTyped, Alive, MarkerType, QemuType, NoMarker, NoFolder
<1>4. job.pc = "idle"
    BY DEF Init, NoJob
<1>5. PlaceInv /\ JobInv
    BY <1>4 DEF PlaceInv, JobInv, AtWork, Building
<1> QED BY <1>1, <1>2, <1>3, <1>5 DEF MeetInv

LEMMA StepMeets == ASSUME MeetInv, [Next]_vars PROVE MeetInv'
<1>0. KeepInv'
    BY StepKeeps DEF MeetInv
<1>1. CASE Accepts
    <2>1. PICK i \in Ids : \E op \in Calls[i] : Begins(i, op)
        BY <1>1 DEF Accepts
    <2>2. PICK op \in Calls[i] : Begins(i, op)
        BY <2>1
    <2>3. UNCHANGED <<up, faults>> /\ up'
        BY <1>1 DEF Accepts, At
    <2>4. \/ op.kind = "create" /\ Create(i, op)
          \/ op.kind = "start" /\ (StartBegins(i, op) \/ StartAnswers(i, op))
          \/ op.kind = "fence" /\ Fence(i, op)
          \/ op.kind = "destroy" /\ Destroy(i, op)
          \/ op.kind = "reseed" /\ Reseed(i, op)
          \/ op.kind \in {"shutdown", "force-stop"} /\ Stop(i, op)
        BY <2>2, RunnerConstants DEF Begins
    <2>5. HostInv' /\ RestTyped'
        BY <2>3, <2>4, BeginsHost, BeginsRest
    <2>6. PlaceInv' /\ JobInv'
        BY <2>3, <2>4, CreateMeets, StartMeets, StopMeets, DestroyMeets, ReseedMeets
    <2> QED BY <1>0, <2>5, <2>6 DEF MeetInv
<1>2. CASE Continues
    <2>1. PICK i \in {job.id} :
             \/ Discards(i) \/ Builds(i) \/ Publishes(i) \/ Marks(i) \/ Spawns(i) \/ Receipts(i)
             \/ Looks(i) \/ Fences(i) \/ Quits(i) \/ Polls(i) \/ Flags(i) \/ Renames(i)
             \/ Removes(i) \/ Seeds(i)
        BY <1>2 DEF Continues
    <2>2. job.pc # "idle" /\ UNCHANGED <<up, faults>>
        BY <1>2, <2>1 DEF Continues, Discards, Builds, Publishes, Marks, Spawns, Receipts, Looks, Fences,
                          Quits, Polls, Flags, Renames, Removes, Seeds, At
    <2>3. i \in Ids /\ i = job.id
        BY <2>1, <2>2 DEF MeetInv, KeepInv, Typed
    <2>4. HostInv'
        BY <2>1, <2>3, FoldersHost, LaunchesHost, StopsHost
    <2>5. RestTyped'
        BY <2>1, <2>2, <2>3, ContinuesRest
    <2>6. PlaceInv' /\ JobInv'
        BY <2>1, <2>2, <2>3, BuildsMeet, PublishesMeet, MarksMeet, SpawnsMeet, ReceiptsMeet, LooksMeet,
           FencesMeet, QuitsMeet, PollsMeet, FlagsMeet, RenamesMeet, RemovesMeet, SeedsMeet
    <2> QED BY <1>0, <2>4, <2>5, <2>6 DEF MeetInv
<1>3. CASE CallFails
    BY <1>0, <1>3, OthersHost, OthersRest, CallFailsMeet DEF MeetInv
<1>4. CASE \/ Answers \/ Crashes \/ HostReboots \/ Restarts
           \/ \E i \in Ids : Describes(i) \/ QemuOpens(i) \/ QemuExits(i) \/ QemuCloses(i)
           \/ UNCHANGED vars
    BY <1>0, <1>4, OthersHost, OthersRest, MeanwhileMeets DEF MeetInv
<1> QED BY <1>1, <1>2, <1>3, <1>4 DEF Next

\* Whatever a step of a mutation has made of its machine, the contract allows.
LEMMA MeetInvMeets == ASSUME MeetInv PROVE MeetsContract
<1>1. RunnerTypeOK
    BY TypesMeet DEF MeetInv
<1>2. DescribesTruly
    <2> SUFFICES ASSUME NEW i \in Ids, folder[i].meta
                 PROVE  Statuses(i) \subseteq Contract!Observed(Abs(i), FALSE) \cup Contract!Evasive(Abs(i))
        BY DEF DescribesTruly
    <2>1. /\ Abs(i).exists /\ (Abs(i).power = "off" <=> ~Alive(i)) /\ (SeenStopped(i) => ~Alive(i))
        BY AbsPower, SeenIsOff DEF MeetInv, KeepInv
    <2>2. child[i] /\ ~SeenStopped(i) => Alive(i)
        BY DEF SeenStopped
    <2>3. CASE Alive(i)
        BY <2>1, <2>3 DEF Statuses, Contract!Evasive
    <2>4. CASE ~Alive(i)
        BY <2>1, <2>2, <2>4 DEF Statuses, Contract!Evasive, Contract!Observed
    <2> QED BY <2>3, <2>4
<1>3. ASSUME job.pc # "idle", ~job.half, ~Half(job.id)
      PROVE  \E e \in Effects(job.op, before) \cup Failures(job.op, before) :
                /\ e.machine = Abs(job.id)
                /\ job.pc = "done" => e.reply = job.reply \/ job.reply = "error"
    <2>1. PICK i \in Ids : i = job.id
        BY <1>3 DEF MeetInv, KeepInv, Typed
    <2>2. Course(i, Abs(i), before) /\ ~Half(i)
        BY <1>3, <2>1, OnCourse
    <2>3. CASE job.pc = "done"
        <3>1. Served(job.op, before, Abs(i), job.reply)
            BY <2>2, <2>3 DEF Course
        <3> QED BY <2>1, <3>1 DEF Served
    <2>4. CASE job.pc \in {"receipts", "looks"}
        <3> DEFINE o == Contract!Outcome(Contract!Launch(before), "ok")
        <3>1. /\ job.op.kind = "start" /\ before.exists /\ ~before.fenced /\ before.power = "off"
              /\ Abs(i) \in Exits(Contract!Launch(before)) /\ before \in Contract!Machine
            BY <2>1, <2>2, <2>4, OnCourse DEF Course
        <3>2. o \in Contract!Outcomes(job.op.kind, before, job.op.spec, job.op.wipe)
            BY <3>1 DEF Contract!Outcomes, Contract!Start
        <3>3. o.machine = Contract!Launch(before) /\ before \in Exits(before)
            BY DEF Contract!Outcome, Exits
        <3> HIDE DEF o
        <3>4. Served(job.op, before, Abs(i), "error")
            BY <3>1, <3>2, <3>3, OutcomeServes
        <3> QED BY <2>1, <2>4, <3>4 DEF Served
    <2>5. CASE job.pc \notin {"done", "receipts", "looks"}
        <3>1. Served(job.op, before, Abs(i), "error")
            BY <1>3, <2>1, <2>2, <2>5, FailsMeet
        <3> QED BY <2>1, <2>5, <3>1 DEF Served
    <2> QED BY <2>3, <2>4, <2>5
<1> QED BY <1>1, <1>2, <1>3 DEF MeetsContract

\* At each of its steps a mutation has done to its machine what HostRuntime allows,
\* and is answered accordingly, unless a removal of the machine was cut short; and
\* no describe tells "stopped" of a machine whose QEMU lives (host.py:199-400).
THEOREM ContractHolds == Spec => []MeetsContract
<1>1. MeetInv => MeetsContract
    BY MeetInvMeets
<1> QED BY <1>1, InitMeets, StepMeets, PTL DEF Spec

-----------------------------------------------------------------------------
(* The memory of a set of machines *)

Total(S) == MapThenSumSet(LAMBDA j : Memory[j], S)

\* What the fold is: a recursive function over the subsets.
Picked(s) == CHOOSE x \in s : TRUE
Rest(s)  == s \ {Picked(s)}
Sums(g, S) == g = [s \in SUBSET S |-> IF s = {} THEN 0 ELSE Memory[Picked(s)] + g[Rest(s)]]

LEMMA TotalIs == ASSUME NEW S PROVE Total(S) = (CHOOSE g : Sums(g, S))[S]
BY DEF Total, MapThenSumSet, MapThenFoldSet, Sums, Rest, Picked

\* Of some sets of machines, one contains no other.
LEMMA SmallestSet ==
    ASSUME NEW B \in SUBSET (SUBSET Ids), B # {}
    PROVE  \E S \in B : \A T \in B : T \subseteq S => T = S
<1> DEFINE R == StrictSubsetOrdering(Ids)
<1>1. IsWellFoundedOn(R, FiniteSubsetsOf(Ids))
    BY FS_StrictSubsetOrderingWellFounded
<1>2. B \subseteq FiniteSubsetsOf(Ids)
    BY RunnerConstants, FS_Subset DEF FiniteSubsetsOf
<1>3. PICK S \in B : \A T \in B : <<T, S>> \notin R
    <2> HIDE DEF R
    <2> QED BY <1>1, <1>2, WFMin
<1>4. ASSUME NEW T \in B, T \subseteq S, T # S PROVE FALSE
    <2>1. <<T, S>> \in R
        BY <1>4 DEF StrictSubsetOrdering
    <2> QED BY <1>3, <2>1
<1> QED BY <1>4

LEMMA RestIs ==
    ASSUME NEW s, s # {}
    PROVE  Picked(s) \in s /\ Rest(s) \subseteq s /\ Rest(s) # s
<1>1. Picked(s) \in s
    BY DEF Picked
<1> QED BY <1>1 DEF Rest

\* Two such functions agree.
LEMMA SumsAgree ==
    ASSUME NEW S \in SUBSET Ids, NEW T \in SUBSET Ids, NEW g, NEW h, Sums(g, S), Sums(h, T),
           NEW U, U \subseteq S, U \subseteq T
    PROVE  g[U] = h[U]
<1> DEFINE B == {V \in SUBSET U : g[V] # h[V]}
<1>1. SUFFICES ASSUME B # {} PROVE FALSE
    OBVIOUS
<1>2. PICK V \in B : \A W \in B : W \subseteq V => W = V
    <2>1. B \in SUBSET (SUBSET Ids)
        OBVIOUS
    <2> HIDE DEF B
    <2> QED BY <1>1, <2>1, SmallestSet
<1>3. /\ g[V] = IF V = {} THEN 0 ELSE Memory[Picked(V)] + g[Rest(V)]
      /\ h[V] = IF V = {} THEN 0 ELSE Memory[Picked(V)] + h[Rest(V)]
    BY DEF Sums
<1>4. V # {}
    BY <1>2, <1>3
<1>5. Rest(V) \in SUBSET U /\ Rest(V) \notin B
    BY <1>2, <1>4, RestIs
<1> QED BY <1>2, <1>3, <1>4, <1>5

LEMMA SumsExist == ASSUME NEW S \in SUBSET Ids PROVE \E g : Sums(g, S)
<1> DEFINE B == {V \in SUBSET Ids : ~\E g : Sums(g, V)}
<1>1. SUFFICES ASSUME B # {} PROVE FALSE
    OBVIOUS
<1>2. PICK T \in B : \A W \in B : W \subseteq T => W = T
    <2>1. B \in SUBSET (SUBSET Ids)
        OBVIOUS
    <2> HIDE DEF B
    <2> QED BY <1>1, <2>1, SmallestSet
<1> DEFINE h(s) == CHOOSE g : Sums(g, s)
           G == [s \in SUBSET T |-> IF s = {} THEN 0 ELSE Memory[Picked(s)] + h(Rest(s))[Rest(s)]]
<1>3. ASSUME NEW s \in SUBSET T, s # T PROVE Sums(h(s), s)
    <2>1. s \notin B
        BY <1>2, <1>3
    <2>2. \E g : Sums(g, s)
        BY <1>2, <2>1
    <2> QED BY <2>2
<1>4. ASSUME NEW s \in SUBSET T, s # {} PROVE G[Rest(s)] = h(Rest(s))[Rest(s)]
    <2> DEFINE r == Rest(s)
    <2>1. r \in SUBSET T /\ r # T
        BY <1>4, RestIs
    <2> HIDE DEF r
    <2>2. Sums(h(r), r)
        BY <1>3, <2>1
    <2>3. CASE r = {}
        <3>1. h(r)[r] = 0
            BY <2>2, <2>3 DEF Sums
        <3>2. G[r] = 0
            BY <2>1, <2>3
        <3> QED BY <3>1, <3>2 DEF r
    <2>4. CASE r # {}
        <3> DEFINE q == Rest(r)
        <3>1. q \in SUBSET r /\ q # r
            BY <2>4, RestIs
        <3> HIDE DEF q
        <3>2. Sums(h(q), q)
            BY <1>3, <2>1, <3>1
        <3>3. h(r)[q] = h(q)[q]
            BY <1>2, <2>1, <2>2, <3>1, <3>2, SumsAgree
        <3>4. h(r)[r] = Memory[Picked(r)] + h(r)[q]
            BY <2>2, <2>4 DEF Sums, q
        <3>5. G[r] = Memory[Picked(r)] + h(q)[q]
            BY <2>1, <2>4 DEF q
        <3> QED BY <3>3, <3>4, <3>5 DEF r
    <2> QED BY <2>3, <2>4
<1>5. G = [s \in SUBSET T |-> IF s = {} THEN 0 ELSE Memory[Picked(s)] + G[Rest(s)]]
    <2> DEFINE K(s) == IF s = {} THEN 0 ELSE Memory[Picked(s)] + h(Rest(s))[Rest(s)]
    <2>1. G = [s \in SUBSET T |-> K(s)]
        OBVIOUS
    <2> HIDE DEF G, h
    <2> DEFINE L(s) == IF s = {} THEN 0 ELSE Memory[Picked(s)] + G[Rest(s)]
    <2>2. ASSUME NEW s \in SUBSET T PROVE K(s) = L(s)
        BY <1>4
    <2>3. G = [s \in SUBSET T |-> L(s)]
        <3> HIDE DEF K, L
        <3> QED BY <2>1, <2>2
    <2> QED BY <2>3
<1>6. Sums(G, T)
    BY <1>5 DEF Sums
<1> QED BY <1>2, <1>6

LEMMA TotalUnfolds ==
    ASSUME NEW S \in SUBSET Ids
    PROVE  Total(S) = IF S = {} THEN 0 ELSE Memory[Picked(S)] + Total(Rest(S))
<1> DEFINE h(s) == CHOOSE g : Sums(g, s)
<1>1. ASSUME NEW s \in SUBSET Ids PROVE Sums(h(s), s) /\ Total(s) = h(s)[s]
    BY <1>1, SumsExist, TotalIs
<1>2. Sums(h(S), S) /\ Total(S) = h(S)[S]
    BY <1>1
<1>3. h(S)[S] = IF S = {} THEN 0 ELSE Memory[Picked(S)] + h(S)[Rest(S)]
    BY <1>2 DEF Sums
<1>4. ASSUME S # {} PROVE h(S)[Rest(S)] = Total(Rest(S))
    <2>1. Rest(S) \in SUBSET S
        BY <1>4, RestIs
    <2>2. Sums(h(Rest(S)), Rest(S)) /\ Total(Rest(S)) = h(Rest(S))[Rest(S)]
        BY <1>1, <2>1
    <2> HIDE DEF h
    <2> QED BY <1>2, <2>1, <2>2, SumsAgree
<1> QED BY <1>2, <1>3, <1>4

LEMMA TotalIsNat == ASSUME NEW S \in SUBSET Ids PROVE Total(S) \in Nat
<1> DEFINE B == {V \in SUBSET Ids : Total(V) \notin Nat}
<1>1. SUFFICES ASSUME B # {} PROVE FALSE
    OBVIOUS
<1>2. PICK T \in B : \A W \in B : W \subseteq T => W = T
    <2>1. B \in SUBSET (SUBSET Ids)
        OBVIOUS
    <2> HIDE DEF B
    <2> QED BY <1>1, <2>1, SmallestSet
<1>3. Total(T) = IF T = {} THEN 0 ELSE Memory[Picked(T)] + Total(Rest(T))
    BY <1>2, TotalUnfolds
<1>4. CASE T = {}
    BY <1>2, <1>3, <1>4
<1>5. CASE T # {}
    <2>1. Picked(T) \in T /\ Rest(T) \in SUBSET T /\ Rest(T) # T
        BY <1>5, RestIs
    <2>2. Total(Rest(T)) \in Nat
        BY <1>2, <2>1
    <2>3. Memory[Picked(T)] \in Nat
        BY <1>2, <2>1, RunnerConstants
    <2> QED BY <1>2, <1>3, <1>5, <2>2, <2>3
<1> QED BY <1>4, <1>5

\* Whichever machine is counted first, the sum is the same.
LEMMA TotalWithout ==
    ASSUME NEW S \in SUBSET Ids, NEW x \in S
    PROVE  Total(S) = Memory[x] + Total(S \ {x})
<1> DEFINE B == {V \in SUBSET Ids : \E y \in V : Total(V) # Memory[y] + Total(V \ {y})}
<1>1. SUFFICES ASSUME B # {} PROVE FALSE
    OBVIOUS
<1>2. PICK T \in B : \A W \in B : W \subseteq T => W = T
    <2>1. B \in SUBSET (SUBSET Ids)
        OBVIOUS
    <2> HIDE DEF B
    <2> QED BY <1>1, <2>1, SmallestSet
<1>3. PICK y \in T : Total(T) # Memory[y] + Total(T \ {y})
    BY <1>2
<1> DEFINE n == Picked(T)
           R == Rest(T)
<1>4. n \in T /\ R \in SUBSET T /\ R # T /\ R = T \ {n} /\ T \in SUBSET Ids
    BY <1>2, <1>3, RestIs DEF Rest
<1>5. Total(T) = Memory[n] + Total(R)
    BY <1>3, <1>4, TotalUnfolds
<1> HIDE DEF n, R
<1>6. y # n
    BY <1>3, <1>4, <1>5
<1>7. y \in R /\ n \in T \ {y} /\ T \ {y} # T
    BY <1>3, <1>4, <1>6
<1>8. Total(R) = Memory[y] + Total(R \ {y})
    <2>1. R \notin B
        BY <1>2, <1>4
    <2> QED BY <1>4, <1>7, <2>1
<1>9. Total(T \ {y}) = Memory[n] + Total((T \ {y}) \ {n})
    <2>1. T \ {y} \notin B
        BY <1>2, <1>7
    <2>2. T \ {y} \in SUBSET Ids
        BY <1>4
    <2> QED BY <1>7, <2>1, <2>2
<1>10. Total(R \ {y}) = Total((T \ {y}) \ {n})
    <2>1. R \ {y} = (T \ {y}) \ {n}
        BY <1>4
    <2> QED BY <2>1
<1>11. /\ Memory[n] \in Nat /\ Memory[y] \in Nat /\ Total(R \ {y}) \in Nat
    BY <1>4, <1>3, RunnerConstants, TotalIsNat
<1>12. Total(T) = Memory[n] + (Memory[y] + Total(R \ {y}))
    BY <1>5, <1>8
<1>13. Total(T \ {y}) = Memory[n] + Total(R \ {y})
    BY <1>9, <1>10
<1>14. Total(T) = Memory[y] + Total(T \ {y})
    BY <1>11, <1>12, <1>13
<1> QED BY <1>3, <1>14

LEMMA TotalGrows ==
    ASSUME NEW S \in SUBSET Ids, NEW T \in SUBSET S
    PROVE  Total(T) <= Total(S)
<1> DEFINE B == {V \in SUBSET Ids : T \subseteq V /\ ~(Total(T) <= Total(V))}
<1>1. SUFFICES ASSUME B # {} PROVE FALSE
    OBVIOUS
<1>2. PICK V \in B : \A W \in B : W \subseteq V => W = V
    <2>1. B \in SUBSET (SUBSET Ids)
        OBVIOUS
    <2> HIDE DEF B
    <2> QED BY <1>1, <2>1, SmallestSet
<1>3. Total(T) \in Nat /\ Total(V) \in Nat
    BY <1>2, TotalIsNat
<1>4. V # T
    BY <1>2, <1>3
<1>5. PICK x \in V : x \notin T
    BY <1>2, <1>4
<1> DEFINE W == V \ {x}
<1>6. W \in SUBSET Ids /\ T \subseteq W /\ W # V /\ W \subseteq V
    BY <1>2, <1>5
<1>7. Total(T) <= Total(W)
    BY <1>2, <1>6
<1>8. Total(V) = Memory[x] + Total(W)
    BY <1>2, <1>5, TotalWithout
<1>9. Memory[x] \in Nat /\ Total(W) \in Nat
    BY <1>2, <1>5, <1>6, RunnerConstants, TotalIsNat
<1>10. ~(Total(T) <= Total(V))
    BY <1>2
<1> HIDE DEF B, W
<1> QED BY <1>3, <1>7, <1>8, <1>9, <1>10

-----------------------------------------------------------------------------
(* The limits *)

Live == {i \in Ids : Alive(i)}

Fits(S) == Cardinality(S) <= MaxRunning /\ Total(S) <= MaxMemory

\* Between the count of a start and its launch, its machine still fits with what
\* lives: nothing else is launched, for runner.lock is held.
AdmitInv ==
    /\ Fits(Live)
    /\ job.pc \in {"marks", "spawns"} => Fits(Live \cup {job.id})

LEMMA FewerFit ==
    ASSUME NEW S \in SUBSET Ids, NEW T \in SUBSET S, Fits(S)
    PROVE  Fits(T)
<1>1. IsFiniteSet(S)
    BY RunnerConstants, FS_Subset
<1>2. IsFiniteSet(T) /\ Cardinality(T) <= Cardinality(S)
    BY <1>1, FS_Subset
<1>3. /\ Cardinality(T) \in Nat /\ Cardinality(S) \in Nat /\ Total(T) \in Nat /\ Total(S) \in Nat
      /\ MaxRunning \in Nat /\ MaxMemory \in Nat
    BY <1>1, <1>2, FS_CardinalityType, TotalIsNat, RunnerConstants
<1>4. Total(T) <= Total(S)
    BY TotalGrows
<1> QED BY <1>2, <1>3, <1>4 DEF Fits

\* What a start counts, with its own machine, is within the limits.
LEMMA CountedFits ==
    ASSUME NEW i \in Ids, NEW S \in SUBSET (Ids \ {i}), ~Exceeds(i, S)
    PROVE  Fits(S \cup {i})
<1>1. IsFiniteSet(S)
    BY RunnerConstants, FS_Subset
<1>2. Cardinality(S) \in Nat /\ Cardinality(S \cup {i}) = Cardinality(S) + 1
    BY <1>1, FS_CardinalityType, FS_AddElement
<1>3. Total(S \cup {i}) = Memory[i] + Total(S)
    <2>1. (S \cup {i}) \ {i} = S
        OBVIOUS
    <2>2. S \cup {i} \in SUBSET Ids /\ i \in S \cup {i}
        OBVIOUS
    <2> QED BY <2>1, <2>2, TotalWithout
<1>4. Memory[i] \in Nat /\ Total(S) \in Nat /\ MaxRunning \in Nat /\ MaxMemory \in Nat
    BY RunnerConstants, TotalIsNat
<1>5. ~(Total(S) + Memory[i] > MaxMemory) /\ ~(Cardinality(S) >= MaxRunning)
    BY DEF Exceeds, Total
<1> QED BY <1>2, <1>3, <1>4, <1>5 DEF Fits

\* Nothing but a launch makes a machine live.
LEMMA OnlySpawns ==
    ASSUME MeetInv, [Next]_vars, ~(Continues /\ Spawns(job.id)), NEW j \in Ids, Alive(j)'
    PROVE  Alive(j)
<1>0. qemu \in [Ids -> QemuType]
    BY DEF MeetInv, HostInv, LaunchTyped
<1>1. CASE Accepts
    <2>1. PICK i \in Ids : \E op \in Calls[i] : Begins(i, op)
        BY <1>1 DEF Accepts
    <2>2. PICK op \in Calls[i] : Begins(i, op)
        BY <2>1
    <2>3. UNCHANGED qemu
        BY <2>2 DEF Begins, Create, StartBegins, StartAnswers, Fence, Destroy, Reseed, Stop, launch
    <2> QED BY <2>3 DEF Alive
<1>2. CASE Continues
    <2>1. PICK i \in {job.id} :
             \/ Discards(i) \/ Builds(i) \/ Publishes(i) \/ Marks(i) \/ Receipts(i)
             \/ Looks(i) \/ Fences(i) \/ Quits(i) \/ Polls(i) \/ Flags(i) \/ Renames(i)
             \/ Removes(i) \/ Seeds(i)
        BY <1>2 DEF Continues
    <2>2. CASE Quits(i)
        <3>1. qemu' = qemu \/ qemu' = [qemu EXCEPT ![i].power = "quitting"]
            BY <2>2 DEF Quits, launch
        <3>2. (~SeenStopped(i) /\ Alive(i)) \/ qemu' = qemu
            BY <2>2 DEF Quits, launch
        <3> QED BY <1>0, <3>1, <3>2 DEF Alive
    <2>3. CASE ~Quits(i)
        <3>1. UNCHANGED qemu
            BY <2>1, <2>3 DEF Discards, Builds, Publishes, Marks, Receipts, Looks, Fences, Polls, Flags,
                              Renames, Removes, Seeds, launch
        <3> QED BY <3>1 DEF Alive
    <2> QED BY <2>2, <2>3
<1>3. CASE Answers \/ CallFails \/ Crashes \/ Restarts \/ UNCHANGED vars
           \/ \E i \in Ids : Describes(i)
    <2>1. UNCHANGED qemu
        BY <1>3 DEF Answers, CallFails, Crashes, Restarts, Describes, vars, launch
    <2> QED BY <2>1 DEF Alive
<1>4. CASE HostReboots
    BY <1>0, <1>4 DEF HostReboots, Alive, QemuType
<1>5. CASE \E i \in Ids : QemuOpens(i) \/ QemuExits(i) \/ QemuCloses(i)
    <2>1. PICK i \in Ids : QemuOpens(i) \/ QemuExits(i) \/ QemuCloses(i)
        BY <1>5
    <2> QED BY <1>0, <2>1 DEF QemuOpens, QemuExits, QemuCloses, Alive, QemuType
<1> QED BY <1>1, <1>2, <1>3, <1>4, <1>5 DEF Next

\* A mutation gets past the count by a start alone.
LEMMA OnlyStarts ==
    ASSUME MeetInv, [Next]_vars, job'.pc \in {"marks", "spawns"},
           ~\E i \in Ids : \E op \in Calls[i] : StartBegins(i, op)
    PROVE  job.pc \in {"marks", "spawns"} /\ job'.id = job.id
<1>0. job \in [pc: Pcs, id: Ids \cup {"none"}, op: AnyOp, half: BOOLEAN,
               reply: {"none", "ok", "error", "gone", "limit"}]
    BY DEF MeetInv, KeepInv, Typed
<1>1. CASE Accepts
    <2>1. PICK i \in Ids : \E op \in Calls[i] : Begins(i, op)
        BY <1>1 DEF Accepts
    <2>2. PICK op \in Calls[i] : Begins(i, op)
        BY <2>1
    <2>3. ~StartBegins(i, op)
        OBVIOUS
    <2> QED BY <2>2, <2>3 DEF Begins, Create, StartAnswers, Fence, Destroy, Reseed, Stop, Replies, Enters
<1>2. CASE Continues
    <2>1. PICK i \in {job.id} :
             \/ Discards(i) \/ Builds(i) \/ Publishes(i) \/ Marks(i) \/ Spawns(i) \/ Receipts(i)
             \/ Looks(i) \/ Fences(i) \/ Quits(i) \/ Polls(i) \/ Flags(i) \/ Renames(i)
             \/ Removes(i) \/ Seeds(i)
        BY <1>2 DEF Continues
    <2>2. CASE Marks(i)
        BY <1>0, <2>2 DEF Marks, At, Goto
    <2>3. CASE ~Marks(i)
        BY <1>0, <2>1, <2>3 DEF Discards, Builds, Stages, Publishes, Spawns, Receipts, Looks, Fences, Quits,
              Polls, Asked, Flags, Renames, Removes, Seeds, Goto, Done
    <2> QED BY <2>2, <2>3
<1>3. CASE Answers \/ Crashes \/ HostReboots
    BY <1>3 DEF Answers, Crashes, HostReboots, Forgets, NoJob
<1>4. CASE CallFails
    BY <1>0, <1>4 DEF CallFails, Done
<1>5. CASE \/ Restarts \/ UNCHANGED vars
           \/ \E i \in Ids : Describes(i) \/ QemuOpens(i) \/ QemuExits(i) \/ QemuCloses(i)
    BY <1>5 DEF Restarts, vars, Describes, QemuOpens, QemuExits, QemuCloses
<1> QED BY <1>1, <1>2, <1>3, <1>4, <1>5 DEF Next

LEMMA StartAdmits ==
    ASSUME MeetInv, NEW i \in Ids, NEW op \in Calls[i], StartBegins(i, op),
           job'.pc \in {"marks", "spawns"}
    PROVE  job'.id = i /\ Fits(Live \cup {i})
<1>1. PICK others \in SUBSET MayCount(i) :
         IF Exceeds(i, others \cup SurelyCounted(i)) THEN Replies(i, op, "limit")
         ELSE Enters(i, op, "marks", "none")
    BY DEF StartBegins
<1> DEFINE S == others \cup SurelyCounted(i)
<1>2. ~Exceeds(i, S) /\ job'.id = i
    BY <1>1 DEF Replies, Enters
<1>3. S \in SUBSET (Ids \ {i})
    BY DEF MayCount, SurelyCounted
<1>4. Fits(S \cup {i})
    <2> HIDE DEF S
    <2> QED BY <1>2, <1>3, CountedFits
<1>5. Live \cup {i} \in SUBSET (S \cup {i})
    <2> SUFFICES ASSUME NEW j \in Ids, Alive(j), j # i PROVE j \in S
        BY DEF Live
    <2>1. folder[j].meta /\ ~SeenStopped(j)
        BY SeenIsOff DEF MeetInv, HostInv
    <2> QED BY <2>1 DEF SurelyCounted
<1>6. S \cup {i} \in SUBSET Ids
    BY <1>3
<1> HIDE DEF S
<1> QED BY <1>2, <1>4, <1>5, <1>6, FewerFit

LEMMA StepAdmits == ASSUME MeetInv, AdmitInv, [Next]_vars PROVE AdmitInv'
<1>1. Live \in SUBSET Ids /\ Live' \in SUBSET Ids
    BY DEF Live
<1>2. CASE Continues /\ Spawns(job.id)
    <2>1. job.pc = "spawns" /\ job.id \in Ids /\ job'.pc \notin {"marks", "spawns"}
        BY <1>2 DEF Spawns, At, Goto, MeetInv, KeepInv, Typed
    <2>2. Live' \in SUBSET (Live \cup {job.id}) /\ Live \cup {job.id} \in SUBSET Ids
        <3>1. \A j \in Ids \ {job.id} : qemu'[j] = qemu[j]
            BY <1>2 DEF Spawns, MeetInv, HostInv, LaunchTyped
        <3> QED BY <2>1, <3>1 DEF Live, Alive
    <2>3. Fits(Live \cup {job.id})
        BY <2>1 DEF AdmitInv
    <2>4. Fits(Live')
        BY <2>2, <2>3, FewerFit
    <2> QED BY <2>1, <2>4 DEF AdmitInv, Fits, Total, MapThenSumSet, MapThenFoldSet
<1>3. CASE ~(Continues /\ Spawns(job.id))
    <2>1. Live' \in SUBSET Live
        BY <1>3, OnlySpawns DEF Live
    <2>2. Fits(Live')
        BY <1>1, <2>1, FewerFit DEF AdmitInv
    <2>3. ASSUME job'.pc \in {"marks", "spawns"} PROVE Fits(Live' \cup {job'.id})
        <3>1. job'.id \in Ids /\ Fits(Live \cup {job'.id})
            <4>1. CASE \E i \in Ids : \E op \in Calls[i] : StartBegins(i, op)
                BY <2>3, <4>1, StartAdmits
            <4>2. CASE ~\E i \in Ids : \E op \in Calls[i] : StartBegins(i, op)
                BY <2>3, <4>2, OnlyStarts DEF AdmitInv, MeetInv, KeepInv, Typed
            <4> QED BY <4>1, <4>2
        <3>2. /\ Live \cup {job'.id} \in SUBSET Ids
              /\ Live' \cup {job'.id} \in SUBSET (Live \cup {job'.id})
            BY <1>1, <2>1, <3>1
        <3> QED BY <3>1, <3>2, FewerFit
    <2> QED BY <2>2, <2>3 DEF AdmitInv, Fits, Total, MapThenSumSet, MapThenFoldSet
<1> QED BY <1>2, <1>3

LEMMA InitAdmits == Init => AdmitInv
<1> SUFFICES ASSUME Init PROVE AdmitInv
    OBVIOUS
<1>1. Live = {} /\ job.pc = "idle"
    BY DEF Init, Live, Alive, NoJob
<1>2. Cardinality({}) = 0 /\ Total({}) = 0
    BY FS_EmptySet, TotalUnfolds
<1> QED BY <1>1, <1>2, RunnerConstants DEF AdmitInv, Fits

\* The host never runs more machines, or more memory, than it was configured for,
\* whatever crashes, reboots or is launched by an earlier supervisor
\* (host.py:341-346): a start counts whatever is not seen to be stopped, and what
\* is seen to be stopped does not live.
THEOREM LimitsAlwaysHold == Spec => []LimitsHold
<1>1. AdmitInv => LimitsHold
    BY DEF AdmitInv, Fits, Live, Total, LimitsHold
<1>2. Init => MeetInv /\ AdmitInv
    BY InitMeets, InitAdmits
<1>3. MeetInv /\ AdmitInv /\ [Next]_vars => (MeetInv /\ AdmitInv)'
    BY StepMeets, StepAdmits
<1> QED BY <1>1, <1>2, <1>3, PTL DEF Spec
=============================================================================
