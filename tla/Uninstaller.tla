------------------------------- MODULE Uninstaller -------------------------------
(***************************************************************************)
(* `mola uninstall` (src/uninstall.js) beside the engine that `mola start` *)
(* brings up (ImageInstall): the survey, the question, the machines torn   *)
(* down through an engine that listens or else QEMU signalled, and the     *)
(* state directory removed, with or without the guest image.               *)
(*                                                                         *)
(* Processes keep their identity: the operating system gives no pid of the *)
(* survey to another program while the question is open.                   *)
(***************************************************************************)
EXTENDS ImageInstall

CONSTANTS Machines   \* machine ids

ASSUME MachineConstants == "foreign" \notin Machines

VARIABLES
    procs,    \* QEMU processes by their -name: machines, and one that is not ours
    machines, \* those with a disk under runtime/
    un        \* the uninstaller

machineVars == <<procs, machines>>
vars == <<imageVars, machineVars, un>>

Serving == inst.pc = "serving"

\* found: running at the survey, as ps told. asked: did the engine list its machines?
\* todo: those left to delete through it. parts: what is to go. part: the one rmSync
\* is at. killed: the running ones that were sent SIGKILL. unseen: the running ones
\* no ps has shown, started since the last or because it failed.
NotRun == [pc |-> "none", found |-> {}, asked |-> FALSE, todo |-> {}, parts |-> {},
           part |-> "none", killed |-> {}, unseen |-> {}]

Init ==
    /\ ImageInit
    /\ procs = {"foreign"} /\ machines = {}
    /\ un = NotRun

RunningMachinesMutant == procs

\* ps, filtered by -name mola-<id>.
RunningMachines == procs \cap Machines

-----------------------------------------------------------------------------
(* The engine and its machines *)

ImageCommand == ImageNext /\ UNCHANGED <<machineVars, un>>

\* A new machine, cloned from the image, or one that was stopped.
EngineBoots(m) ==
    /\ Serving /\ m \notin procs /\ (HasImage \/ m \in machines)
    /\ procs' = procs \cup {m} /\ machines' = machines \cup {m}
    /\ un' = IF un.pc = "none" \/ un.asked THEN un ELSE [un EXCEPT !.unseen = @ \cup {m}]
    /\ UNCHANGED imageVars

\* The QEMU of m is gone, and with it what was said of that process.
Forgets(m) == [un EXCEPT !.killed = @ \ {m}, !.unseen = @ \ {m}]

\* By itself, when the engine stops it, or in the end on SIGTERM or SIGKILL.
QemuExits(m) ==
    /\ m \in RunningMachines
    /\ procs' = procs \ {m}
    /\ un' = Forgets(m)
    /\ UNCHANGED <<imageVars, machines>>

-----------------------------------------------------------------------------
(* `mola uninstall` *)

\* What goes: all of the state directory, or runtime/ if the survey found it there.
Doomed(keep, there) == IF ~keep THEN {"runtime", "image", "staging"} ELSE IF there THEN {"runtime"} ELSE {}

Surveyed(keep, there, found, unseen) ==
    [NotRun EXCEPT !.pc = "asks", !.parts = Doomed(keep, there), !.found = found, !.unseen = unseen]

\* The survey. When ps fails it finds nothing running.
Survey(keep, there) ==
    /\ un.pc = "none"
    /\ final.exists \/ staging.exists \/ machines # {} \/ RunningMachines # {}
    /\ machines # {} => there
    /\ \/ un' = Surveyed(keep, there, RunningMachines, {}) /\ UNCHANGED faults
       \/ un' = Surveyed(keep, there, {}, RunningMachines) /\ Spend
    /\ UNCHANGED <<published, final, staging, inst, machineVars>>

\* Without --yes there is a question first.
Declines ==
    /\ un.pc = "asks"
    /\ un' = NotRun
    /\ UNCHANGED <<imageVars, machineVars>>

Removing == [un EXCEPT !.pc = "removes", !.found = {}]

\* Without a token file, a listener, or a good answer within four seconds: not
\* through the engine, which may all the same be there and go on. SIGTERM goes to
\* those of the survey, if any; QemuExits says when they are gone.
EngineAbsent ==
    /\ un.pc = "asks"
    /\ un' = IF un.found = {} THEN Removing ELSE [un EXCEPT !.pc = "waits"]
    /\ UNCHANGED <<imageVars, machineVars>>

EngineLists ==
    /\ un.pc = "asks" /\ Serving
    /\ un' = [un EXCEPT !.pc = "deletes", !.asked = TRUE, !.todo = machines, !.found = {}, !.unseen = {}]
    /\ UNCHANGED <<imageVars, machineVars>>

\* Whatever the status of the answer, and also when there is none, the next follows.
Deleted(m) ==
    /\ un.pc = "deletes" /\ m \in un.todo
    /\ \/ /\ Serving
          /\ procs' = procs \ {m} /\ machines' = machines \ {m}
          /\ un' = [Forgets(m) EXCEPT !.todo = @ \ {m}]
       \/ un' = [un EXCEPT !.todo = @ \ {m}] /\ UNCHANGED machineVars
    /\ UNCHANGED imageVars

RemovesAfterEngine ==
    /\ un.pc = "deletes" /\ un.todo = {}
    /\ un' = Removing
    /\ UNCHANGED <<imageVars, machineVars>>

InsistsMutant ==
    /\ un.pc = "waits"
    /\ un' = [Removing EXCEPT !.unseen = {}]
    /\ UNCHANGED <<imageVars, machineVars>>

\* A ps that shows none ends the wait; the one after ten seconds gets SIGKILL for
\* all it shows, and nobody waits for them to die.
Insists ==
    /\ un.pc = "waits"
    /\ un' = [Removing EXCEPT !.killed = RunningMachines, !.unseen = {}]
    /\ UNCHANGED <<imageVars, machineVars>>

\* A ps that fails shows none.
PsFails ==
    /\ un.pc = "waits" /\ Spend
    /\ un' = [Removing EXCEPT !.unseen = RunningMachines]
    /\ UNCHANGED <<published, final, staging, inst, machineVars>>

-----------------------------------------------------------------------------
(* rmSync, of one part after the other *)

At(part) == un.pc = "removes" /\ part \in un.parts /\ un.part \in {part, "none"}

Goes(part, gone) ==
    un' = IF gone THEN [un EXCEPT !.part = "none", !.parts = @ \ {part}] ELSE [un EXCEPT !.part = part]

RemovesDisk(m) ==
    /\ At("runtime") /\ m \in machines
    /\ machines' = machines \ {m} /\ Goes("runtime", FALSE)
    /\ UNCHANGED <<imageVars, procs>>

RemovesRuntime ==
    /\ At("runtime") /\ machines = {}
    /\ Goes("runtime", TRUE)
    /\ UNCHANGED <<imageVars, machineVars>>

RemovesImage ==
    /\ At("image")
    /\ final' \in OneRemoved(final)
    /\ inst' = [inst EXCEPT !.had = FALSE]
    /\ Goes("image", ~final'.exists)
    /\ UNCHANGED <<published, staging, faults, machineVars>>

RemovesStaging ==
    /\ At("staging")
    /\ staging' \in OneRemoved(staging)
    /\ inst' = [inst EXCEPT !.had = FALSE]
    /\ Goes("staging", ~staging'.exists)
    /\ UNCHANGED <<published, final, faults, machineVars>>

\* Nothing is left, or rmSync throws: a file that will not go, or one that appeared
\* in a directory since it was read.
RemovalEnds ==
    /\ un.pc = "removes"
    /\ un.parts = {} \/ inst.pc # "off"
    /\ un' = NotRun
    /\ UNCHANGED <<imageVars, machineVars>>

RemovalFails ==
    /\ un.pc = "removes" /\ Spend
    /\ un' = NotRun
    /\ UNCHANGED <<published, final, staging, inst, machineVars>>

-----------------------------------------------------------------------------
Next ==
    \/ ImageCommand
    \/ \E m \in Machines : EngineBoots(m) \/ QemuExits(m) \/ Deleted(m) \/ RemovesDisk(m)
    \/ \E keep, there \in BOOLEAN : Survey(keep, there)
    \/ Declines \/ EngineAbsent \/ EngineLists
    \/ RemovesAfterEngine \/ Insists \/ PsFails
    \/ RemovesRuntime \/ RemovesImage \/ RemovesStaging
    \/ RemovalEnds \/ RemovalFails

Spec == Init /\ [][Next]_vars

-----------------------------------------------------------------------------
(* Properties *)

InstallTypeOK ==
    /\ published \in Builds
    /\ \A dir \in {final, staging} : /\ DOMAIN dir = {"exists", "files", "record"}
                                     /\ DOMAIN dir.files \subseteq Files
                                     /\ ~dir.exists => dir = NoDir
    /\ inst.pc \in Pcs /\ inst.name \in 1..Len(Names) /\ inst.attempt \in 1..3
    /\ procs \subseteq Machines \cup {"foreign"} /\ machines \subseteq Machines
    /\ un.pc \in {"none", "asks", "deletes", "waits", "removes"}
    /\ un.found \cup un.todo \subseteq Machines /\ un.killed \cup un.unseen \subseteq RunningMachines
    /\ un.part \in un.parts \cup {"none"}
    /\ faults \in 0..MaxFaults

\* Whatever is in the image directory is, bit for bit and at its full size, what
\* one single build published: no file cut short, no hole in the wrong place, no
\* kernel of one build beside the root file system of another, although the
\* publisher may change builds between any two parts (image.js, fetchArtifact).
FinalIsOneBuild ==
    final.exists => \E b \in Builds :
        /\ final.record \in {b, Handmade, NoBuild}
        /\ \A f \in DOMAIN final.files : final.files[f] = Disk(b, f)

\* The image one had is touched only once a whole image is staged to take its place:
\* no failure before that costs it (image.js:246-253). An uninstaller takes it at will,
\* and so it does files of the staging directory under a download that runs on.
RefreshNeedsStaged ==
    [][(inst.had /\ final.exists /\ final' # final /\ ~RemovesImage) => \E b \in Builds : staging = Image(b)]_vars

\* The start that stays silent about the image's age does so because its root
\* file system is the one published, two builds of one version notwithstanding.
SilenceIsCurrent ==
    [][(inst'.pc = "serving" /\ inst'.notice = "current" /\ inst.pc = "off")
           => final.files[Root] = Disk(published, Root)]_vars

\* Where no engine answered, a disk goes from under a QEMU that lives only if that
\* QEMU was sent SIGKILL, or no ps has shown it: it was started since, or ps failed
\* (uninstall.js:166-185). So one that a survey found and SIGTERM did not end, and
\* one started while the command waited for those, do not lose their disks.
StoppedBeforeRemoval ==
    [][\A m \in machines \ machines' : m \in RunningMachines /\ un.pc = "removes" /\ ~un.asked
                                      => m \in un.killed \cup un.unseen]_vars

\* README.md:183-185: an interrupted refresh leaves the image you already had.
InterruptedRefreshKeepsImage == (inst.pc = "off" /\ inst.had) => HasImage
=============================================================================
