------------------------------ MODULE ImageInstall ------------------------------
(***************************************************************************)
(* The guest image on this computer (src/image.js) and the command that    *)
(* fetches it before the engine serves (`mola start`, bin/mola.js): the    *)
(* artifacts of a published build arrive part by part and chunk by chunk,  *)
(* are written sparsely into a staging directory, compared with the digest *)
(* of the manifest, and take the place of the image on disk by a rename.   *)
(*                                                                         *)
(* The publisher may replace the build at any time, also between two parts *)
(* of one download.  One command runs at a time.  Compression is left out: *)
(* the bytes hashed are the bytes written.                                 *)
(***************************************************************************)
EXTENDS Naturals, Sequences, FiniteSetsExt, SequencesExt, Functions

CONSTANTS
    Names,      \* the artifacts in the order of the manifest, root.ext4 first
    Parts,      \* build -> artifact -> the parts it is published in, as bits
    Version,    \* build -> what the build calls itself
    FullSize,   \* artifact -> sparse_bytes, 0 when the manifest names none
    BlockSize,  \* bits in a block of the sparse writer
    MaxFaults   \* bound: failures and crashes

Builds == DOMAIN Parts
Files  == Range(Names)
Root   == Names[1]

NoBuild  == "none"
Handmade == "handmade"   \* an image bin/native-prepare made: no installed.json

ASSUME ImageConstants ==
    /\ Names \in Seq(Files) /\ Names # <<>>
    /\ \A b \in Builds : Parts[b] \in [Files -> Seq(Seq({0, 1}))]
    /\ {NoBuild, Handmade} \cap Builds = {}
    /\ FullSize \in [Files -> Nat]
    /\ BlockSize \in Nat \ {0} /\ MaxFaults \in Nat

VARIABLES
    published,  \* the build behind the manifest's URL
    final,      \* the image directory
    staging,    \* its sibling, image.incoming
    inst,       \* the command: where it is and what it has read
    faults

imageVars == <<published, final, staging, inst, faults>>

\* A directory: its files with their bits, and the build installed.json records.
NoDir    == [exists |-> FALSE, files |-> <<>>, record |-> NoBuild]
EmptyDir == [NoDir EXCEPT !.exists = TRUE]
HasImage == final.exists /\ Root \in DOMAIN final.files

Pcs == {"off", "manifest", "clears", "connects", "reads", "closes", "records", "removes",
        "renames", "catches", "serving"}

\* had: was there an image when the command began, that no uninstaller has
\* removed? name, part: what is being fetched. body: what is left of the part.
\* seen: what the digest has covered. pending, position: the sparse writer's tail
\* and where it will go.
Idle == [pc |-> "off", had |-> FALSE, manifest |-> NoBuild, name |-> 1, part |-> 1, attempt |-> 1,
         body |-> <<>>, seen |-> <<>>, pending |-> <<>>, position |-> 0, notice |-> "none"]

Artifact(build, name) == FlattenSeq(Parts[build][name])
Zeroes(n) == [i \in 1..n |-> 0]
Padded(bits, n) == IF Len(bits) < n THEN bits \o Zeroes(n - Len(bits)) ELSE bits

\* What machines are cloned from: the artifact, grown to the size it runs at.
Disk(build, name) == Padded(Artifact(build, name), FullSize[name])
Image(build) == [exists |-> TRUE, files |-> [f \in Files |-> Disk(build, f)], record |-> build]

ImageInit ==
    /\ published \in Builds
    /\ final \in {NoDir, [Image(published) EXCEPT !.record = Handmade]} \cup {Image(b) : b \in Builds}
    /\ staging = NoDir /\ inst = Idle /\ faults = 0

Spend == faults < MaxFaults /\ faults' = faults + 1
Goto(pc) == inst' = [inst EXCEPT !.pc = pc]
Leaves(pc) == inst' = [Idle EXCEPT !.pc = pc, !.had = inst.had]
Throws == Leaves("catches")

-----------------------------------------------------------------------------
(* The sparse writer *)

\* The file after flush() of each block of these bits at this position: a block
\* of zeroes is not written, and what was skipped before a written one is a hole.
Flushed(file, position, bits) ==
    LET In(j) == ((j - 1) * BlockSize + 1)..(IF j * BlockSize < Len(bits) THEN j * BlockSize ELSE Len(bits))
        dirty == {j \in 1..Len(bits) : \E i \in In(j) : bits[i] # 0}
        upTo  == IF dirty = {} THEN Len(file) ELSE position + Max(In(Max(dirty)))
    IN  [i \in 1..upTo |-> IF i <= Len(file) THEN file[i]
                           ELSE IF i > position THEN bits[i - position] ELSE 0]

Whole(pending) == (Len(pending) \div BlockSize) * BlockSize

-----------------------------------------------------------------------------
(* `mola start` *)

NoticeMutant ==
    IF final.record \notin Builds THEN "unrecorded"
    ELSE IF Version[final.record] = Version[published] THEN "current" ELSE "stale"

\* imageStatus: by the root file system's digest, as builds share versions.
Notice ==
    IF final.record \notin Builds THEN "unrecorded"
    ELSE IF Artifact(final.record, Root) = Artifact(published, Root) THEN "current" ELSE "stale"

Starts(refresh) ==
    /\ inst.pc = "off"
    /\ inst' = [Idle EXCEPT !.pc = IF HasImage /\ ~refresh THEN "serving" ELSE "manifest", !.had = HasImage,
                            !.notice = IF HasImage /\ ~refresh THEN Notice ELSE "none"]
    /\ UNCHANGED <<published, final, staging, faults>>

\* The published manifest cannot be reached: the engine starts all the same.
StartsOffline ==
    /\ inst.pc = "off" /\ HasImage /\ Spend
    /\ inst' = [Idle EXCEPT !.pc = "serving", !.had = TRUE, !.notice = "unknown"]
    /\ UNCHANGED <<published, final, staging>>

\* NO_MANIFEST, no answer, or a staging directory that will not go: not caught.
ManifestFails ==
    /\ inst.pc \in {"manifest", "clears"} /\ Spend
    /\ Leaves("off")
    /\ UNCHANGED <<published, final, staging>>

ManifestRead ==
    /\ inst.pc = "manifest"
    /\ inst' = [inst EXCEPT !.pc = "clears", !.manifest = published]
    /\ UNCHANGED <<published, final, staging, faults>>

Opened == [inst EXCEPT !.pc = "connects", !.part = 1, !.attempt = 1, !.body = <<>>, !.seen = <<>>,
                       !.pending = <<>>, !.position = 0]

Fetched == Names[inst.name]
Put(files, name, bits) == [f \in DOMAIN files \cup {name} |-> IF f = name THEN bits ELSE files[f]]
Rewritten(file) == [staging EXCEPT !.files = Put(@, Fetched, file)]

\* Is the file that is open for writing still there under its name?
Linked == Fetched \in DOMAIN staging.files

ClearsMutant ==
    /\ inst.pc = "clears"
    /\ staging' = [EmptyDir EXCEPT !.files = Put(@, Names[1], <<>>)]
    /\ inst' = [Opened EXCEPT !.name = 1]
    /\ final' = NoDir
    /\ UNCHANGED <<published, faults>>

Clears ==
    /\ inst.pc = "clears"
    /\ staging' = [EmptyDir EXCEPT !.files = Put(@, Names[1], <<>>)]
    /\ inst' = [Opened EXCEPT !.name = 1]
    /\ UNCHANGED <<published, final, faults>>

\* Each part is whatever the URL holds when it is asked for.
Connects ==
    /\ inst.pc = "connects"
    /\ inst.part \in DOMAIN Parts[published][Fetched]
    /\ inst' = [inst EXCEPT !.pc = "reads", !.body = Parts[published][Fetched][inst.part]]
    /\ UNCHANGED <<published, final, staging, faults>>

\* Three attempts at a part, then the download is given up.
ConnectFails ==
    /\ inst.pc = "connects"
    /\ \/ Spend
       \/ inst.part \notin DOMAIN Parts[published][Fetched] /\ UNCHANGED faults
    /\ IF inst.attempt >= 3 THEN Throws ELSE inst' = [inst EXCEPT !.attempt = @ + 1]
    /\ UNCHANGED <<published, final, staging>>

\* A chunk of any length reaches the digest and the writer.
Chunk(n) ==
    LET bits == inst.pending \o SubSeq(inst.body, 1, n)
        k    == Whole(bits)
    IN  /\ inst.pc = "reads" /\ n <= Len(inst.body)
        /\ staging' = IF Linked THEN Rewritten(Flushed(staging.files[Fetched], inst.position, SubSeq(bits, 1, k)))
                      ELSE staging
        /\ inst' = [inst EXCEPT !.body = SubSeq(@, n + 1, Len(@)), !.seen = @ \o SubSeq(inst.body, 1, n),
                                !.pending = SubSeq(bits, k + 1, Len(bits)), !.position = @ + k]
        /\ UNCHANGED <<published, final, faults>>

\* The transport cuts the part short without an error.
BodyCut ==
    /\ inst.pc = "reads" /\ inst.body # <<>> /\ Spend
    /\ inst' = [inst EXCEPT !.body = <<>>]
    /\ UNCHANGED <<published, final, staging>>

\* Reading or writing throws: pipeline() rejects, downloadImage catches.
BodyFails == inst.pc = "reads" /\ Spend /\ Throws /\ UNCHANGED <<published, final, staging>>

NextPart ==
    /\ inst.pc = "reads" /\ inst.body = <<>>
    /\ inst' = IF inst.part < Len(Parts[inst.manifest][Fetched])
               THEN [inst EXCEPT !.pc = "connects", !.part = @ + 1, !.attempt = 1]
               ELSE [inst EXCEPT !.pc = "closes"]
    /\ UNCHANGED <<published, final, staging, faults>>

ClosedMutant(file) == Flushed(file, inst.position, inst.pending)

\* final(): the tail, and ftruncate to the position reached.
Closed(file) == Padded(Flushed(file, inst.position, inst.pending), inst.position + Len(inst.pending))

VerifiedMutant == Len(inst.seen) = Len(Artifact(inst.manifest, Fetched))

Verified == inst.seen = Artifact(inst.manifest, Fetched)

\* The file is closed and its digest compared.
Mismatches ==
    /\ inst.pc = "closes" /\ ~Verified /\ Throws
    /\ staging' = IF Linked THEN Rewritten(Closed(staging.files[Fetched])) ELSE staging
    /\ UNCHANGED <<published, final, faults>>

\* The file, still there under its name if it is to grow, has its full size; the
\* next is opened.
Closes ==
    /\ inst.pc = "closes" /\ Verified /\ (Linked \/ FullSize[Fetched] = 0)
    /\ LET done == IF Linked THEN Rewritten(Padded(Closed(staging.files[Fetched]), FullSize[Fetched])) ELSE staging
       IN  IF inst.name = Len(Names) THEN Goto("records") /\ staging' = done
           ELSE /\ staging.exists
                /\ staging' = [done EXCEPT !.files = Put(@, Names[inst.name + 1], <<>>)]
                /\ inst' = [Opened EXCEPT !.name = @ + 1]
    /\ UNCHANGED <<published, final, faults>>

Records ==
    /\ inst.pc = "records" /\ staging.exists
    /\ staging' = [staging EXCEPT !.record = inst.manifest]
    /\ Leaves("removes")
    /\ UNCHANGED <<published, final, faults>>

\* Somebody removed what the next call names: stat, open or writeFile throws.
StagingGone ==
    /\ \/ inst.pc = "closes" /\ Verified /\ ~Linked /\ FullSize[Fetched] # 0
       \/ inst.pc = "closes" /\ Verified /\ inst.name < Len(Names) /\ ~staging.exists
       \/ inst.pc = "records" /\ ~staging.exists
    /\ Throws
    /\ UNCHANGED <<published, final, staging, faults>>

\* rmSync takes a directory's files one by one, then the directory.
OneRemoved(dir) ==
    {[dir EXCEPT !.files = Restrict(@, DOMAIN @ \ {f})] : f \in DOMAIN dir.files}
    \cup (IF dir.record \in Builds THEN {[dir EXCEPT !.record = NoBuild]}
          ELSE IF DOMAIN dir.files = {} THEN {NoDir} ELSE {})

Removes ==
    /\ inst.pc = "removes"
    /\ \/ final' \in OneRemoved(final) /\ UNCHANGED faults
          /\ IF final'.exists THEN UNCHANGED inst ELSE Goto("renames")
       \/ Spend /\ Throws /\ UNCHANGED final
    /\ UNCHANGED <<published, staging>>

Renames ==
    /\ inst.pc = "renames"
    /\ \/ staging.exists /\ final' = staging /\ staging' = NoDir /\ Leaves("serving") /\ UNCHANGED faults
       \/ ~staging.exists /\ Throws /\ UNCHANGED <<final, staging, faults>>
       \/ Spend /\ Throws /\ UNCHANGED <<final, staging>>
    /\ UNCHANGED published

\* The catch of downloadImage; the command then exits.
Catches ==
    /\ inst.pc = "catches"
    /\ staging' = NoDir /\ Leaves("off")
    /\ UNCHANGED <<published, final, faults>>

\* The command is killed wherever it is; once it serves, Ctrl-C ends it.
Crashes ==
    /\ inst.pc # "off"
    /\ IF inst.pc = "serving" THEN UNCHANGED faults ELSE Spend
    /\ Leaves("off")
    /\ UNCHANGED <<published, final, staging>>

Publishes(b) == published' = b /\ b # published /\ UNCHANGED <<final, staging, inst, faults>>

ImageNext ==
    \/ \E refresh \in BOOLEAN : Starts(refresh)
    \/ StartsOffline \/ ManifestFails \/ ManifestRead \/ Clears \/ Connects \/ ConnectFails
    \/ \E n \in 1..Len(inst.body) : Chunk(n)
    \/ BodyCut \/ BodyFails \/ NextPart \/ Mismatches \/ Closes \/ StagingGone \/ Records \/ Removes \/ Renames
    \/ Catches \/ Crashes
    \/ \E b \in Builds : Publishes(b)

ImageSpec == ImageInit /\ [][ImageNext]_imageVars
=============================================================================
