-------------------------- MODULE HostRuntimeProofs --------------------------
(***************************************************************************)
(* What the outcomes of a call at the runtime have in common: lemmas about *)
(* the operators of HostRuntime, which the theorems of its clients cite.   *)
(***************************************************************************)
EXTENDS HostRuntime, TLAPS

\* What a mutation makes of a machine is a machine, and its answer one of the four.
LEMMA OutcomesTyped ==
    ASSUME NEW m \in Machine, NEW token \in Nat, NEW wipe \in BOOLEAN, NEW kind \in CallKinds,
           NEW o \in Outcomes(kind, m, token, wipe)
    PROVE  o.machine \in Machine /\ o.reply \in CallReplies
<1> DEFINE New == [m EXCEPT !.exists = TRUE, !.disk = token, !.seed = token,
                            !.power = "off", !.fenced = FALSE]
           Gone == [NoMachine EXCEPT !.boot = m.boot, !.cred = m.cred,
                                    !.retained = m.retained \/ ~wipe]
           Wiped == [m EXCEPT !.retained = @ /\ ~wipe]
           Flagged == [m EXCEPT !.fenced = TRUE]
<1>0. /\ m.exists \in BOOLEAN /\ m.disk \in Nat /\ m.seed \in Nat /\ m.power \in Power
      /\ m.boot \in Nat /\ m.boot + 1 \in Nat /\ m.cred \in Nat
      /\ m.fenced \in BOOLEAN /\ m.retained \in BOOLEAN
  BY DEF Machine
<1>1. New \in Machine
  BY DEF Machine, Power
<1>2. Launch(m) \in Machine
  BY <1>0 DEF Machine, Power, Launch
<1>3. Quit(m) \in Machine
  BY DEF Machine, Power, Quit
<1>4. Gone \in Machine
  BY DEF Machine, Power, NoMachine
<1>5. Wiped \in Machine
  BY DEF Machine
<1>6. [m EXCEPT !.seed = token] \in Machine
  BY DEF Machine
<1>7. Flagged \in Machine /\ [Flagged EXCEPT !.power = "off"] \in Machine /\ Quit(Flagged) \in Machine
  BY DEF Machine, Power, Quit
<1> HIDE DEF New, Gone, Wiped, Flagged
<1> USE DEF CallReplies, Outcome, Failure
<1>11. CASE kind = "create"
  BY <1>1, <1>11 DEF Outcomes, Create, New
<1>12. CASE kind = "start"
  BY <1>2, <1>12 DEF Outcomes, Start
<1>13. CASE kind \in {"shutdown", "force-stop"}
  BY <1>3, <1>13 DEF Outcomes, Stop
<1>14. CASE kind = "destroy"
  BY <1>4, <1>5, <1>14 DEF Outcomes, Destroy, Gone, Wiped
<1>15. CASE kind = "reseed"
  BY <1>6, <1>15 DEF Outcomes, Reseed
<1>16. CASE kind = "fence"
  <2>1. Outcomes(kind, m, token, wipe) = Fence(m)
    BY <1>16 DEF Outcomes
  <2>2. o \in {Outcome(m, "gone"), Outcome([Flagged EXCEPT !.power = "off"], "ok"),
               Failure(Quit(Flagged)), Outcome(Flagged, "gone")}
    BY <2>1 DEF Fence, Flagged
  <2> QED BY <1>7, <2>2
<1>17. CASE kind \in {"snapshot", "restore"}
  <2>1. Outcomes(kind, m, token, wipe) = StoppedWork(m)
    BY <1>17 DEF Outcomes
  <2> QED BY <2>1 DEF StoppedWork
<1>18. CASE kind = "storage"
  <2>1. Outcomes(kind, m, token, wipe) = OtherStorage(m)
    BY <1>18 DEF Outcomes
  <2> QED BY <2>1 DEF OtherStorage
<1> QED BY <1>11, <1>12, <1>13, <1>14, <1>15, <1>16, <1>17, <1>18 DEF CallKinds

\* A machine that is off stays off, but for a start call.
LEMMA OffStaysOff ==
    ASSUME NEW m \in Machine, m.power = "off", NEW token, NEW wipe, NEW kind, kind # "start",
           NEW o \in Outcomes(kind, m, token, wipe)
    PROVE  o.machine.power = "off"
<1> DEFINE New == [m EXCEPT !.exists = TRUE, !.disk = token, !.seed = token,
                            !.power = "off", !.fenced = FALSE]
           Gone == [NoMachine EXCEPT !.boot = m.boot, !.cred = m.cred,
                                    !.retained = m.retained \/ ~wipe]
           Wiped == [m EXCEPT !.retained = @ /\ ~wipe]
           Flagged == [m EXCEPT !.fenced = TRUE]
           Reseeded == [m EXCEPT !.seed = token]
<1>0. /\ New.power = "off" /\ Gone.power = "off" /\ Wiped.power = "off" /\ Reseeded.power = "off"
      /\ Flagged.power = "off" /\ [Flagged EXCEPT !.power = "off"].power = "off"
      /\ Quit(Flagged).power = "off" /\ Quit(m).power = "off"
  BY DEF Machine, NoMachine, Quit
<1> HIDE DEF New, Gone, Wiped, Flagged, Reseeded
<1> USE DEF Outcome, Failure
<1>1. CASE kind = "create"
  <2>1. o.machine \in {m, New}
    BY <1>1 DEF Outcomes, Create, New
  <2> QED BY <1>0, <2>1
<1>2. CASE kind \in {"shutdown", "force-stop"}
  BY <1>0, <1>2 DEF Outcomes, Stop
<1>3. CASE kind = "destroy"
  <2>1. o.machine \in {m, Gone, Wiped}
    BY <1>3 DEF Outcomes, Destroy, Gone, Wiped
  <2> QED BY <1>0, <2>1
<1>4. CASE kind = "reseed"
  <2>1. o.machine \in {m, Reseeded}
    BY <1>4 DEF Outcomes, Reseed, Reseeded
  <2> QED BY <1>0, <2>1
<1>5. CASE kind = "fence"
  <2>1. Outcomes(kind, m, token, wipe) = Fence(m)
    BY <1>5 DEF Outcomes
  <2>2. o.machine \in {m, Flagged, [Flagged EXCEPT !.power = "off"], Quit(Flagged)}
    BY <2>1 DEF Fence, Flagged
  <2> QED BY <1>0, <2>2
<1>6. CASE kind \in {"snapshot", "restore"}
  <2>1. Outcomes(kind, m, token, wipe) = StoppedWork(m)
    BY <1>6 DEF Outcomes
  <2> QED BY <2>1 DEF StoppedWork
<1>7. CASE kind \notin {"create", "start", "shutdown", "force-stop", "destroy", "reseed", "fence",
                        "snapshot", "restore"}
  <2>1. Outcomes(kind, m, token, wipe) = OtherStorage(m)
    BY <1>7 DEF Outcomes
  <2> QED BY <2>1 DEF OtherStorage
<1> QED BY <1>1, <1>2, <1>3, <1>4, <1>5, <1>6, <1>7

\* The part of a machine that an image is made of.
SameImage(m, n) == m.exists = n.exists /\ m.disk = n.disk /\ m.seed = n.seed

\* Only three calls touch it.
LEMMA ImageKept ==
    ASSUME NEW m \in Machine, NEW token, NEW wipe,
           NEW kind \in CallKinds \ {"create", "destroy", "reseed"},
           NEW o \in Outcomes(kind, m, token, wipe)
    PROVE  SameImage(o.machine, m)
<1> DEFINE Flagged == [m EXCEPT !.fenced = TRUE]
           Halted == [Flagged EXCEPT !.power = "off"]
<1>0. /\ SameImage(m, m) /\ SameImage(Launch(m), m) /\ SameImage(Quit(m), m)
      /\ SameImage(Flagged, m) /\ SameImage(Halted, m) /\ SameImage(Quit(Flagged), m)
  BY DEF SameImage, Launch, Quit, Machine
<1> HIDE DEF Flagged, Halted
<1> USE DEF Outcome, Failure
<1>1. CASE kind = "start"
  BY <1>0, <1>1 DEF Outcomes, Start
<1>2. CASE kind \in {"shutdown", "force-stop"}
  BY <1>0, <1>2 DEF Outcomes, Stop
<1>3. CASE kind = "fence"
  <2>1. Outcomes(kind, m, token, wipe) = Fence(m)
    BY <1>3 DEF Outcomes
  <2>2. o.machine \in {m, Flagged, Halted, Quit(Flagged)}
    BY <2>1 DEF Fence, Flagged, Halted
  <2> QED BY <1>0, <2>2
<1>4. CASE kind \in {"snapshot", "restore"}
  <2>1. Outcomes(kind, m, token, wipe) = StoppedWork(m)
    BY <1>4 DEF Outcomes
  <2> QED BY <1>0, <2>1 DEF StoppedWork
<1>5. CASE kind = "storage"
  <2>1. Outcomes(kind, m, token, wipe) = OtherStorage(m)
    BY <1>5 DEF Outcomes
  <2> QED BY <1>0, <2>1 DEF OtherStorage
<1> QED BY <1>1, <1>2, <1>3, <1>4, <1>5 DEF CallKinds

\* A create makes a machine of its token, or meets one and leaves it alone; it only
\* succeeds if the disk was made for the same token (host.py, create).
LEMMA CreateOutcome ==
    ASSUME NEW m \in Machine, NEW token \in Nat, NEW wipe, NEW o \in Outcomes("create", m, token, wipe)
    PROVE  /\ m.exists => o.machine = m
           /\ \/ o.machine = m
              \/ o.machine.exists /\ o.machine.disk = token /\ o.machine.seed = token
           /\ o.reply = "ok" => o.machine.exists /\ o.machine.disk = token
<1> DEFINE New == [m EXCEPT !.exists = TRUE, !.disk = token, !.seed = token,
                            !.power = "off", !.fenced = FALSE]
<1>1. New.exists /\ New.disk = token /\ New.seed = token
  BY DEF Machine
<1>2. o \in Create(m, token)
  BY DEF Outcomes
<1> HIDE DEF New
<1>3. CASE m.exists
  <2>1. (o = Outcome(m, "ok") /\ m.disk = token) \/ o = Outcome(m, "error")
    BY <1>2, <1>3 DEF Create
  <2> QED BY <1>3, <2>1 DEF Outcome
<1>4. CASE ~m.exists
  <2>1. o \in {Failure(m), Outcome(New, "ok")}
    BY <1>2, <1>4 DEF Create, New
  <2> QED BY <1>1, <1>4, <2>1 DEF Failure, Outcome
<1> QED BY <1>3, <1>4

\* A destroy that is answered with success leaves no machine, any other one leaves
\* it as it was (host.py, destroy).
LEMMA DestroyOutcome ==
    ASSUME NEW m \in Machine, NEW token, NEW wipe, NEW o \in Outcomes("destroy", m, token, wipe)
    PROVE  IF o.reply = "ok" THEN ~o.machine.exists ELSE o.machine = m
<1> DEFINE Gone == [NoMachine EXCEPT !.boot = m.boot, !.cred = m.cred,
                                    !.retained = m.retained \/ ~wipe]
           Wiped == [m EXCEPT !.retained = @ /\ ~wipe]
<1>1. ~Gone.exists /\ Wiped.exists = m.exists
  BY DEF NoMachine, Machine
<1>2. o \in Destroy(m, wipe)
  BY DEF Outcomes
<1> HIDE DEF Gone, Wiped
<1>3. \/ o = Outcome(Wiped, "ok") /\ ~m.exists
      \/ o = Failure(m)
      \/ o = Outcome(Gone, "ok")
  BY <1>2 DEF Destroy, Gone, Wiped
<1> QED BY <1>1, <1>3 DEF Outcome, Failure

\* A reseed that succeeds writes its token on a machine that is there.
LEMMA ReseedOutcome ==
    ASSUME NEW m \in Machine, NEW token, NEW wipe, NEW o \in Outcomes("reseed", m, token, wipe)
    PROVE  /\ o.machine.exists = m.exists
           /\ o.reply = "ok" => o.machine.exists /\ o.machine.seed = token
<1> DEFINE Reseeded == [m EXCEPT !.seed = token]
<1>1. Reseeded.exists = m.exists /\ Reseeded.seed = token
  BY DEF Machine
<1>2. o \in Reseed(m, token)
  BY DEF Outcomes
<1> HIDE DEF Reseeded
<1>3. \/ o = Outcome(m, "gone")
      \/ o = Failure(m)
      \/ o = Outcome(Reseeded, "ok") /\ m.exists
  BY <1>2 DEF Reseed, Reseeded
<1> QED BY <1>1, <1>3 DEF Outcome, Failure

\* A fence that succeeds has met the machine, flagged it and seen QEMU gone.
LEMMA FenceOutcome ==
    ASSUME NEW m \in Machine, NEW token, NEW wipe, NEW o \in Outcomes("fence", m, token, wipe),
           o.reply = "ok"
    PROVE  o.machine.exists /\ o.machine.fenced /\ o.machine.power = "off"
<1> DEFINE Flagged == [m EXCEPT !.fenced = TRUE]
           Halted == [Flagged EXCEPT !.power = "off"]
<1>1. Halted.exists = m.exists /\ Halted.fenced /\ Halted.power = "off"
  BY DEF Machine
<1>2. o \in Fence(m)
  BY DEF Outcomes
<1> HIDE DEF Halted
<1> HIDE DEF Flagged
<1>3. \/ o = Outcome(m, "gone")
      \/ m.exists /\ o = Outcome(Halted, "ok")
      \/ o = Failure(Quit(Flagged))
      \/ o = Outcome(Flagged, "gone")
  BY <1>2 DEF Fence, Flagged, Halted
<1> QED BY <1>1, <1>3 DEF Outcome, Failure

\* A machine that is fenced and off stays so, whatever call arrives late, until it
\* is destroyed: the runner refuses to start it.
Sealed(m) == m.exists /\ m.fenced /\ m.power = "off"

LEMMA SealedStays ==
    ASSUME NEW m \in Machine, Sealed(m), NEW token, NEW wipe, NEW kind, kind # "destroy",
           NEW o \in Outcomes(kind, m, token, wipe)
    PROVE  Sealed(o.machine)
<1> DEFINE Flagged == [m EXCEPT !.fenced = TRUE]
           Halted == [Flagged EXCEPT !.power = "off"]
           Reseeded == [m EXCEPT !.seed = token]
<1>0. Sealed(Flagged) /\ Sealed(Halted) /\ Sealed(Reseeded) /\ Quit(m) = m
  BY DEF Sealed, Machine, Quit
<1>00. m.exists /\ m.fenced /\ m.power = "off"
  BY DEF Sealed
<1> HIDE DEF Flagged, Halted, Reseeded
<1> USE DEF Outcome, Failure
<1>1. CASE kind = "create"
  BY <1>00, <1>1 DEF Outcomes, Create
<1>2. CASE kind = "start"
  BY <1>00, <1>2 DEF Outcomes, Start
<1>3. CASE kind \in {"shutdown", "force-stop"}
  BY <1>0, <1>00, <1>3 DEF Outcomes, Stop
<1>4. CASE kind = "reseed"
  BY <1>0, <1>00, <1>4 DEF Outcomes, Reseed, Reseeded
<1>5. CASE kind = "fence"
  <2>1. Outcomes(kind, m, token, wipe) = Fence(m)
    BY <1>5 DEF Outcomes
  <2>2. o.machine = Halted
    BY <1>00, <2>1 DEF Fence, Flagged, Halted
  <2> QED BY <1>0, <2>2
<1>6. CASE kind \in {"snapshot", "restore"}
  <2>1. Outcomes(kind, m, token, wipe) = StoppedWork(m)
    BY <1>6 DEF Outcomes
  <2> QED BY <2>1 DEF StoppedWork
<1>7. CASE kind \notin {"create", "start", "shutdown", "force-stop", "destroy", "reseed", "fence",
                        "snapshot", "restore"}
  <2>1. Outcomes(kind, m, token, wipe) = OtherStorage(m)
    BY <1>7 DEF Outcomes
  <2> QED BY <2>1 DEF OtherStorage
<1> QED BY <1>1, <1>2, <1>3, <1>4, <1>5, <1>6, <1>7

\* A start either launches a machine that is off or leaves it as it is.
LEMMA StartOutcome ==
    ASSUME NEW m \in Machine, NEW token, NEW wipe, NEW o \in Outcomes("start", m, token, wipe)
    PROVE  o.machine = m \/ (m.power = "off" /\ o.machine = Launch(m))
<1> DEFINE Up == Launch(m)
<1>1. o \in Start(m)
  BY DEF Outcomes
<1>2. \/ o = Outcome(m, "gone") \/ o = Failure(m) \/ o = Outcome(m, "ok") \/ o = Outcome(m, "limit")
      \/ m.power = "off" /\ o = Outcome(Up, "ok")
  BY <1>1 DEF Start, Up
<1> HIDE DEF Up
<1>3. o.machine = m \/ (m.power = "off" /\ o.machine = Up)
  BY <1>2 DEF Outcome, Failure
<1> QED BY <1>3 DEF Up

\* What no other call changes: the count of launches and what the last one read.
SameBoot(n, m) == n.boot = m.boot /\ n.cred = m.cred

\* The identity image is only ever written with the token of the call.
LEMMA NoLaunch ==
    ASSUME NEW m \in Machine, NEW token \in Nat, NEW wipe, NEW kind \in CallKinds \ {"start"},
           NEW o \in Outcomes(kind, m, token, wipe)
    PROVE  SameBoot(o.machine, m) /\ o.machine.seed \in {m.seed, token, 0}
<1> DEFINE New == [m EXCEPT !.exists = TRUE, !.disk = token, !.seed = token,
                            !.power = "off", !.fenced = FALSE]
           Gone == [NoMachine EXCEPT !.boot = m.boot, !.cred = m.cred,
                                    !.retained = m.retained \/ ~wipe]
           Wiped == [m EXCEPT !.retained = @ /\ ~wipe]
           Flagged == [m EXCEPT !.fenced = TRUE]
           Halted == [Flagged EXCEPT !.power = "off"]
           Reseeded == [m EXCEPT !.seed = token]
           Kept(n) == SameBoot(n, m) /\ n.seed \in {m.seed, token, 0}
<1>0. /\ Kept(m) /\ Kept(New) /\ Kept(Gone) /\ Kept(Wiped) /\ Kept(Flagged) /\ Kept(Halted)
      /\ Kept(Reseeded) /\ Kept(Quit(m)) /\ Kept(Quit(Flagged))
  BY DEF Machine, NoMachine, Quit, SameBoot
<1> HIDE DEF New, Gone, Wiped, Flagged, Halted, Reseeded, Kept
<1> SUFFICES Kept(o.machine)
  BY DEF Kept
<1> USE DEF Outcome, Failure
<1>1. CASE kind = "create"
  <2>1. o.machine \in {m, New}
    BY <1>1 DEF Outcomes, Create, New
  <2> QED BY <1>0, <2>1
<1>2. CASE kind \in {"shutdown", "force-stop"}
  BY <1>0, <1>2 DEF Outcomes, Stop
<1>3. CASE kind = "destroy"
  <2>1. o.machine \in {m, Gone, Wiped}
    BY <1>3 DEF Outcomes, Destroy, Gone, Wiped
  <2> QED BY <1>0, <2>1
<1>4. CASE kind = "reseed"
  <2>1. o.machine \in {m, Reseeded}
    BY <1>4 DEF Outcomes, Reseed, Reseeded
  <2> QED BY <1>0, <2>1
<1>5. CASE kind = "fence"
  <2>1. Outcomes(kind, m, token, wipe) = Fence(m)
    BY <1>5 DEF Outcomes
  <2>2. o.machine \in {m, Flagged, Halted, Quit(Flagged)}
    BY <2>1 DEF Fence, Flagged, Halted
  <2> QED BY <1>0, <2>2
<1>6. CASE kind \in {"snapshot", "restore"}
  <2>1. Outcomes(kind, m, token, wipe) = StoppedWork(m)
    BY <1>6 DEF Outcomes
  <2> QED BY <1>0, <2>1 DEF StoppedWork
<1>7. CASE kind = "storage"
  <2>1. Outcomes(kind, m, token, wipe) = OtherStorage(m)
    BY <1>7 DEF Outcomes
  <2> QED BY <1>0, <2>1 DEF OtherStorage
<1> QED BY <1>1, <1>2, <1>3, <1>4, <1>5, <1>6, <1>7 DEF CallKinds
=============================================================================
