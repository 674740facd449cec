---------------------------- MODULE HostApiProofs ----------------------------
(***************************************************************************)
(* Theorems about HostApi, for every set of requests and all bounds: the   *)
(* record and its journal, the answers, and then what an answer says of    *)
(* the machine, which relates the journal, the handler and the calls under *)
(* way to the runtime's machine.                                           *)
(***************************************************************************)
EXTENDS HostApiReady, HostRuntimeProofs, SequenceTheorems

-----------------------------------------------------------------------------
(* Records *)

\* Requests have the shape the validation of a body gives them (host-api.js:142-156).
LEMMA RequestTyped ==
    ASSUME NEW r \in Requests
    PROVE  r.verb \in Verbs /\ r.gen \in Nat /\ r.gen > 0 /\ r.flag \in BOOLEAN
BY RequestsAssumption DEF RequestType

\* The empty record of an unknown id is well typed.
LEMMA NoRecordTyped == NoRecord \in Record
BY DEF NoRecord, Record

\* The record a create starts is well typed (host-api.js:209-220).
LEMMA CreatedTyped ==
    ASSUME mem \in Record, minted \in Nat, NEW r \in Requests
    PROVE  Created(r) \in Record
BY RequestTyped DEF Created, Record

\* Journalling a request leaves a record (host-api.js:218-220).
LEMMA JournalledTyped ==
    ASSUME mem \in Record, NEW r \in Requests
    PROVE  Journalled(r) \in Record
BY RequestTyped DEF Journalled, Record

\* So does accepting it, with what a fence or a restore changes besides.
LEMMA AcceptedTyped ==
    ASSUME mem \in Record, minted \in Nat, NEW r \in Requests
    PROVE  Accepted(r) \in Record
<1>1. Created(r) \in Record /\ Journalled(r) \in Record
  BY CreatedTyped, JournalledTyped
<1>2. Fenced(Journalled(r)) \in Record
  <2> DEFINE rec == Journalled(r)
  <2>1. rec \in Record
    BY <1>1
  <2> HIDE DEF rec
  <2>2. Fenced(rec) \in Record
    BY <2>1 DEF Fenced, Record
  <2> QED BY <2>2 DEF rec
<1>3. Rotated(Journalled(r)) \in Record
  <2> DEFINE rec == Journalled(r)
  <2>1. rec \in Record
    BY <1>1
  <2> HIDE DEF rec
  <2>2. minted + 1 \in Nat
    OBVIOUS
  <2>3. Rotated(rec) \in Record
    BY <2>1, <2>2 DEF Rotated, Record
  <2> QED BY <2>3 DEF rec
<1> QED BY <1>1, <1>2, <1>3 DEF Accepted

\* And so does disowning a boot (host-api.js:232-239).
LEMMA BootRequestedTyped ==
    ASSUME NEW rec \in Record, NEW r \in Requests
    PROVE  BootRequested(rec, r) \in Record
BY DEF BootRequested, Record

-----------------------------------------------------------------------------
(* Type correctness *)

\* Wherever the handler goes next, the request in hand is a request.
LEMMA GotoTyped ==
    ASSUME NEW pc \in Pcs, NEW r \in Requests
    PROVE  HandlerOK(Goto(pc, r))
BY DEF HandlerOK, Goto, Replies

\* The free lock is a handler.
LEMMA IdleTyped == HandlerOK(Idle)
BY DEF HandlerOK, Idle, Pcs, Replies

\* A flush keeps both records typed, whether it succeeds or throws.
LEMMA FlushTyped ==
    ASSUME TypeOK, NEW rec \in Record, NEW next, HandlerOK(next), Flush(rec, next)
    PROVE  mem' \in Record /\ disk' \in Record /\ HandlerOK(handler') /\ faults' \in Nat
BY IdleTyped DEF TypeOK, Flush, Saved, FlushThrows, Fault

\* A result is stored in a record.
LEMMA SettledTyped ==
    ASSUME NEW rec \in Record, NEW r \in Requests, NEW res \in Results
    PROVE  [rec EXCEPT !.result[r] = res] \in Record
BY DEF Record

\* Settling the request in hand keeps every variable typed.
LEMMA SettleTyped ==
    ASSUME TypeOK, handler.pc # "idle", NEW rec \in Record, NEW res \in Results,
           Settle(rec, res)
    PROVE  TypeOK'
<1> DEFINE settled == [rec EXCEPT !.result[handler.req] = res]
<1>1. handler.req \in Requests
  BY DEF TypeOK, HandlerOK
<1>2. settled \in Record
  BY <1>1, SettledTyped
<1>3. mem' \in Record /\ disk' \in Record /\ HandlerOK(handler') /\ faults' \in Nat
  <2> HIDE DEF settled
  <2> QED BY <1>2, IdleTyped, SMTT(20) DEF Settle, settled, TypeOK, Saved, FlushThrows, Fault
<1>4. answers' \in [Requests -> SUBSET Results]
  BY <1>1 DEF Settle, TypeOK
<1>5. UNCHANGED <<reader, runtime, beats, minted>>
  BY DEF Settle
<1> QED BY <1>3, <1>4, <1>5 DEF TypeOK, runtime

\* What a describe may answer.
LEMMA ProbeTyped ==
    ASSUME NEW busy \in BOOLEAN, machine \in Machine,
           NEW s \in Observed(machine, busy) \cup Evasive(machine)
    PROVE  s \in Replies
BY DEF Observed, Evasive, Machine, Power, Replies, CallReplies, Statuses

\* The status a description gives is one of four.
LEMMA StatusTyped ==
    ASSUME NEW rec, NEW seen, NEW settled
    PROVE  Status(rec, seen, settled) \in Results
BY DEF Status, Known, Results, Statuses

\* Every reachable state is well typed.
LEMMA TypeInvariant == TypeOK /\ [Next]_vars => TypeOK'
<1> SUFFICES ASSUME TypeOK, [Next]_vars PROVE TypeOK'
  OBVIOUS
<1>h. /\ HandlerOK(handler) /\ mem \in Record /\ disk \in Record /\ machine \in Machine
      /\ queue \in Seq(CallType) /\ minted \in Nat /\ faults \in Nat
  BY DEF TypeOK
<1>r. ASSUME NEW pc \in Pcs, handler.pc # "idle", Proceeds(pc) PROVE TypeOK'
  <2>1. HandlerOK(handler')
    BY <1>h, <1>r, GotoTyped DEF Proceeds, HandlerOK
  <2> QED BY <1>r, <2>1 DEF TypeOK, Proceeds, records, runtime, history
<1>s. ASSUME Rejects PROVE TypeOK'
  BY <1>s, IdleTyped DEF TypeOK, Rejects, records, runtime, history
<1>a. ASSUME NEW r \in Requests, Accept(r) PROVE TypeOK'
  <2>1. FirstPc(r) \in Pcs
    BY DEF FirstPc, Pcs, ProbePcs, CallPcs
  <2>2. Flush(Accepted(r), Goto(FirstPc(r), r))
    BY <1>a DEF Accept
  <2>3. mem' \in Record /\ disk' \in Record /\ HandlerOK(handler') /\ faults' \in Nat
    BY <1>h, <2>1, <2>2, GotoTyped, AcceptedTyped, FlushTyped
  <2> QED BY <1>a, <2>3 DEF TypeOK, Accept, runtime
<1>1. CASE Receive
  <2> SUFFICES ASSUME NEW r \in Requests,
                      ReceiveProbed(r) \/ ReceiveNew(r) \/ ReceiveRetry(r) \/ ReceiveReplay(r)
               PROVE  TypeOK'
    BY <1>1 DEF Receive
  <2>0. FirstPc(r) \in Pcs /\ ProbePc(r) \in Pcs
    BY DEF FirstPc, ProbePc, Pcs, ProbePcs, CallPcs
  <2>1. CASE ReceiveProbed(r)
    BY <2>0, <2>1, GotoTyped DEF ReceiveProbed, TypeOK, records, runtime, history
  <2>2. CASE ReceiveNew(r)
    BY <2>2, <1>a DEF ReceiveNew
  <2>3. CASE ReceiveRetry(r)
    BY <2>0, <2>3, GotoTyped DEF ReceiveRetry, TypeOK, records, runtime, history
  <2>4. CASE ReceiveReplay(r)
    <3>1. mem.result[r] \in Results
      BY <1>h, <2>4 DEF ReceiveReplay, Record
    <3>2. answers' \in [Requests -> SUBSET Results]
      BY <3>1, <2>4 DEF ReceiveReplay, TypeOK
    <3> QED BY <2>4, <3>2 DEF ReceiveReplay, TypeOK, records, runtime
  <2> QED BY <2>1, <2>2, <2>3, <2>4
<1>2. CASE Read
  <2>1. ASSUME NEW x \in Observed(machine, FALSE) \cup Evasive(machine) PROVE x \in Replies
    BY <1>h, ProbeTyped
  <2>2. UNCHANGED <<records, handler, runtime, beats, history, faults>>
    BY <1>2 DEF Read, ReadStarts, ReadObserves, ReadAnswers
  <2> DEFINE Readers == [pc: {"idle", "asked", "observed"}, before: Revisions, seen: Replies]
  <2>3. reader \in Readers
    BY DEF TypeOK
  <2>4. reader' \in Readers
    <3>1. CASE ReadStarts
      <4>1. Revision(mem) \in Revisions
        <5>1. /\ mem.gen \in Nat /\ mem.deleted \in BOOLEAN
              /\ mem.ops \in SUBSET Requests /\ Pending(mem) \in SUBSET Requests
          BY <1>h DEF Pending, Record
        <5> QED BY <5>1 DEF Revision, Revisions
      <4> QED BY <3>1, <4>1 DEF ReadStarts, Replies
    <3>2. CASE ReadObserves
      <4>1. PICK x \in Observed(machine, FALSE) \cup Evasive(machine) :
                 reader' = [reader EXCEPT !.pc = "observed", !.seen = x]
        BY <3>2 DEF ReadObserves
      <4>2. x \in Replies
        BY <2>1, <4>1
      <4> QED BY <2>3, <4>1, <4>2
    <3>3. CASE ReadAnswers
      BY <3>3 DEF ReadAnswers, NoReader, Replies, Revisions
    <3> QED BY <1>2, <3>1, <3>2, <3>3 DEF Read
  <2> QED BY <2>2, <2>4 DEF TypeOK, records, runtime, history
<1>3. CASE CallLeaves
  <2>1. handler.req \in Requests /\ handler.pc \in CallPcs
    BY <1>h, <1>3 DEF CallLeaves, HandlerOK, CallPcs
  <2>2. CallKind \in CallKinds
    BY <2>1, RequestTyped DEF CallKind, CallKinds, CallPcs, At, Verbs, LifecycleVerbs, StorageVerbs
  <2>3. Call(CallKind, handler.req, mem.token) \in CallType
    BY <1>h, <2>1, <2>2 DEF Call, CallType, Record
  <2>4. queue' \in Seq(CallType)
    BY <1>h, <1>3, <2>3 DEF CallLeaves
  <2>5. HandlerOK(handler')
    BY <1>h, <1>3 DEF CallLeaves, HandlerOK, Replies
  <2> QED BY <1>3, <2>4, <2>5 DEF CallLeaves, TypeOK, records, history
<1>c. ASSUME NEW c \in CallType, NEW o \in Outcomes(c.kind, machine, c.token, c.req.flag), CarryOut(c, o)
      PROVE  machine' \in Machine /\ beats' \subseteq [boot: Nat, cred: Nat] /\ o.reply \in CallReplies
  <2>1. c.kind \in CallKinds /\ c.token \in Nat /\ c.req.flag \in BOOLEAN
    BY RequestTyped DEF CallType
  <2>2. o.machine \in Machine /\ o.reply \in CallReplies
    BY <1>h, <2>1, OutcomesTyped
  <2> QED BY <1>c, <2>2 DEF CarryOut, Surviving, TypeOK
<1>q. ASSUME queue # <<>> PROVE Head(queue) \in CallType /\ Tail(queue) \in Seq(CallType)
  BY <1>h, <1>q
<1>p. ASSUME NEW x \in Replies, Reply(x) PROVE HandlerOK(handler')
  BY <1>h, <1>p DEF Reply, HandlerOK
<1>4. CASE RuntimeCarriesOut
  <2> DEFINE c == Head(queue)
  <2>1. PICK o \in Outcomes(c.kind, machine, c.token, c.req.flag) : CarryOut(c, o) /\ Reply(o.reply)
    BY <1>4 DEF RuntimeCarriesOut
  <2>2. c \in CallType /\ queue' \in Seq(CallType)
    BY <1>4, <1>q DEF RuntimeCarriesOut
  <2>3. machine' \in Machine /\ beats' \subseteq [boot: Nat, cred: Nat] /\ o.reply \in Replies
    BY <1>c, <2>1, <2>2 DEF Replies
  <2>4. HandlerOK(handler')
    BY <1>p, <2>1, <2>3
  <2> QED BY <1>4, <2>2, <2>3, <2>4 DEF RuntimeCarriesOut, TypeOK, records, history
<1>5. CASE ProbeAnswers
  <2>1. ASSUME NEW x \in Observed(machine, queue # <<>>) \cup Evasive(machine) PROVE x \in Replies
    BY <1>h, ProbeTyped
  <2>2. HandlerOK(handler') /\ faults' \in Nat
    BY <1>h, <1>5, <2>1 DEF ProbeAnswers, HandlerOK, Fault
  <2> QED BY <1>5, <2>2 DEF ProbeAnswers, TypeOK, records, runtime, history
<1>6. CASE CallFails
  BY <1>6, <1>s DEF CallFails
<1>7. CASE Report
  <2>1. Status(mem, handler.reply, {handler.req}) \in Results
    BY StatusTyped
  <2> QED BY <1>7, <2>1, <1>h, SettleTyped DEF Report, At
<1>8. CASE CreateSteps
  <2>1. CASE CreateVacated \/ CreateUnheld \/ CreateDone
    BY <2>1, <1>r DEF CreateVacated, CreateUnheld, CreateDone, Answered, At, Pcs, ProbePcs, CallPcs
  <2>2. CASE ProbeRefuses
    BY <2>2, <1>s DEF ProbeRefuses
  <2>3. CASE CreateAccepted
    BY <2>3, <1>h, <1>a DEF CreateAccepted, Answered, At, HandlerOK
  <2> QED BY <1>8, <2>1, <2>2, <2>3 DEF CreateSteps
<1>9. CASE StartSteps
  <2>1. CASE StartPrepares
    <3> DEFINE r   == handler.req
               rec == IF r \notin mem.prepared /\ handler.reply = "stopped"
                      THEN BootRequested(mem, r) ELSE mem
               new == [rec EXCEPT !.desired = "running"]
    <3>1. r \in Requests
      BY <1>h, <2>1 DEF StartPrepares, Answered, At, HandlerOK
    <3>2. rec \in Record
      BY <1>h, <3>1, BootRequestedTyped
    <3>3. new \in Record
      <4> HIDE DEF rec
      <4> QED BY <3>2 DEF Record
    <3>4. HandlerOK(Goto("launch", r))
      BY <3>1, GotoTyped DEF Pcs, CallPcs
    <3>5. Flush(new, Goto("launch", r))
      BY <2>1 DEF StartPrepares
    <3>6. mem' \in Record /\ disk' \in Record /\ HandlerOK(handler') /\ faults' \in Nat
      <4> HIDE DEF new
      <4> QED BY <3>3, <3>4, <3>5, FlushTyped
    <3> QED BY <2>1, <3>6 DEF StartPrepares, TypeOK, runtime, history
  <2>2. CASE StartUncertain
    BY <2>2, <1>s DEF StartUncertain
  <2>3. CASE Started
    BY <2>3, <1>r DEF Started, Answered, At, Pcs, ProbePcs
  <2>4. CASE StartLimited
    <3>1. [mem EXCEPT !.desired = "stopped"] \in Record
      BY <1>h DEF Record
    <3> QED BY <2>4, <3>1, SettleTyped DEF StartLimited, Answered, At, Results
  <2> QED BY <1>9, <2>1, <2>2, <2>3, <2>4 DEF StartSteps
<1>10. CASE StopSteps
  <2>1. CASE StopBegins
    <3> DEFINE pc  == IF handler.req.verb = "destroy" THEN "settle" ELSE "stop"
               new == [mem EXCEPT !.desired = "stopped"]
    <3>1. new \in Record
      BY <1>h DEF Record
    <3>2. HandlerOK(Goto(pc, handler.req))
      <4>1. handler.req \in Requests
        BY <1>h, <2>1 DEF StopBegins, At, HandlerOK
      <4>2. pc \in Pcs
        BY DEF Pcs, CallPcs
      <4> QED BY <4>1, <4>2, GotoTyped
    <3>3. mem' \in Record /\ disk' \in Record /\ HandlerOK(handler') /\ faults' \in Nat
      <4>1. Flush(new, Goto(pc, handler.req))
        BY <2>1 DEF StopBegins
      <4> HIDE DEF new, pc
      <4> QED BY <3>1, <3>2, <4>1, FlushTyped
    <3> QED BY <2>1, <3>3 DEF StopBegins, TypeOK, runtime, history
  <2>2. CASE StopAsked \/ SettleAsked \/ SettlePolls \/ Settled
    BY <2>2, <1>r DEF StopAsked, SettleAsked, SettlePolls, Settled, Answered, At, Pcs, ProbePcs, CallPcs
  <2>3. CASE SettleFails
    BY <2>3, <1>s DEF SettleFails
  <2>4. CASE Destroyed
    <3>1. [mem EXCEPT !.deleted = TRUE, !.token = 0] \in Record
      BY <1>h DEF Record
    <3> QED BY <2>4, <3>1, SettleTyped DEF Destroyed, Answered, At, Results
  <2> QED BY <1>10, <2>1, <2>2, <2>3, <2>4 DEF StopSteps
<1>11. CASE StorageSteps
  <2>1. CASE StorageAccepted
    BY <2>1, <1>h, <1>a DEF StorageAccepted, Answered, At, HandlerOK
  <2>2. CASE StorageRestored
    BY <2>2, <1>r DEF StorageRestored, Answered, At, Pcs, CallPcs
  <2>3. CASE StorageDone
    BY <2>3, <1>h, SettleTyped DEF StorageDone, Answered, At, Results
  <2> QED BY <1>11, <2>1, <2>2, <2>3 DEF StorageSteps
<1>12. CASE RuntimeFails
  <2>1. machine' \in Machine
    BY <1>h, <1>12 DEF RuntimeFails, Leftovers, Machine
  <2>2. HandlerOK(handler')
    BY <1>12, <1>p DEF RuntimeFails, Replies, CallReplies
  <2> QED BY <1>h, <1>12, <1>q, <2>1, <2>2 DEF RuntimeFails, Fault, TypeOK, records, history
<1>13. CASE OrphanCarriesOut
  <2>1. PICK c \in orphans :
            /\ orphans' = orphans \ {c}
            /\ \E o \in Outcomes(c.kind, machine, c.token, c.req.flag) : CarryOut(c, o)
    BY <1>13 DEF OrphanCarriesOut
  <2>2. machine' \in Machine /\ beats' \subseteq [boot: Nat, cred: Nat]
    BY <2>1, <1>c DEF TypeOK
  <2> QED BY <1>13, <2>1, <2>2 DEF OrphanCarriesOut, TypeOK, records, history
<1>14. CASE CallTimesOut \/ SettleGivesUp
  BY <1>14, <1>h, IdleTyped
  DEF CallTimesOut, SettleGivesUp, Fault, TypeOK, records, runtime, history
<1>15. CASE EngineCrashes
  <2>1. orphans' \subseteq CallType
    BY <1>h, <1>15 DEF EngineCrashes, TypeOK
  <2> QED BY <1>h, <1>15, <2>1, IdleTyped DEF EngineCrashes, Fault, NoReader, Replies, Revisions, TypeOK, history
<1>16. CASE HostRestarts
  <2>1. [disk EXCEPT !.fresh = FALSE] \in Record
    BY <1>h DEF Record
  <2>2. [machine EXCEPT !.power = "off"] \in Machine
    BY <1>h DEF Machine, Power
  <2> QED BY <1>h, <1>16, <2>1, <2>2, IdleTyped
          DEF HostRestarts, Fault, NoReader, Replies, Revisions, TypeOK, history
<1>17. CASE LaterFlush
  BY <1>17 DEF LaterFlush, TypeOK, runtime, history
<1>18. CASE GuestReports
  BY <1>h, <1>18 DEF GuestReports, TypeOK, Machine, records, runtime, history
<1>19. CASE HeartbeatHandled
  <2>1. PICK b \in beats :
          /\ beats' = beats \ {b}
          /\ IF mem.exists /\ mem.token # 0 /\ b.cred = mem.token
             THEN /\ mem' = [mem EXCEPT !.boot_id = b.boot, !.fresh = TRUE]
                  /\ \/ disk' = mem' /\ UNCHANGED faults
                     \/ FlushFaults /\ Fault /\ UNCHANGED disk
             ELSE UNCHANGED <<records, faults>>
    BY <1>19 DEF HeartbeatHandled
  <2>2. b.boot \in Nat
    BY DEF TypeOK
  <2>3. [mem EXCEPT !.boot_id = b.boot, !.fresh = TRUE] \in Record
    BY <1>h, <2>2 DEF Record
  <2> QED BY <1>h, <1>19, <2>1, <2>3 DEF HeartbeatHandled, Fault, TypeOK, records, runtime, history
<1>20. CASE HeartbeatAges
  <2>1. [mem EXCEPT !.fresh = FALSE] \in Record /\ [disk EXCEPT !.fresh = FALSE] \in Record
    BY <1>h DEF Record
  <2> QED BY <1>20, <2>1 DEF HeartbeatAges, TypeOK, runtime, history
<1>21. CASE GuestGoesDown \/ QuitCompletes
  <2>1. GuestPowersOff(machine) \in Machine /\ ProcessExits(machine) \in Machine
    BY <1>h DEF GuestPowersOff, ProcessExits, Machine, Power
  <2> QED BY <1>21, <2>1
          DEF GuestGoesDown, QuitCompletes, MachineStops, Surviving, TypeOK, records, history
<1>22. CASE UNCHANGED vars
  BY <1>22 DEF vars, TypeOK
<1> QED
  BY <1>1, <1>2, <1>3, <1>4, <1>5, <1>6, <1>7, <1>8, <1>9, <1>10, <1>11, <1>12, <1>13, <1>14,
     <1>15, <1>16, <1>17, <1>18, <1>19, <1>20, <1>21, <1>22
  DEF Next, CallSteps, HandlerSteps, FaultSteps, GuestSteps

\* The first state is well typed.
LEMMA TypeInit == Init => TypeOK
<1> SUFFICES ASSUME Init PROVE TypeOK
  OBVIOUS
<1>1. NoMachine \in Machine
  BY DEF NoMachine, Machine, Power
<1>2. <<>> \in Seq(CallType)
  OBVIOUS
<1> QED BY <1>1, <1>2, NoRecordTyped, IdleTyped DEF Init, TypeOK, NoReader, Replies, Revisions

\* Every reachable state of the engine, its file and the machine is well typed,
\* whatever requests, faults and bounds the system is given.
THEOREM TypeCorrect == Spec => []TypeOK
BY TypeInit, TypeInvariant, PTL DEF Spec

-----------------------------------------------------------------------------
(* The journal.                                                             *)
(*                                                                          *)
(* OnePending is not inductive: between its checks and its intent a request *)
(* waits for the runtime, and what was checked must still hold when the     *)
(* answer is back.  Checked says so of the handler; Running says that a     *)
(* handler past that point works for an unresolved operation; RecordInv     *)
(* adds to JournalOK what the record of an unknown id looks like.           *)

CheckPcs == {"held", "vacated", "unheld", "probe"}
RunPcs   == {"begin", "prepare", "settling", "report"} \cup CallPcs

RecordInv(rec) ==
    /\ JournalOK(rec)
    /\ \A r \in Requests : r \notin rec.ops => rec.result[r] = "none"
    /\ ~rec.exists => rec.ops = {} /\ rec.gen = 0 /\ rec.inc = 0
    /\ rec.inc <= rec.gen

\* Nothing stands against accepting r.
Admissible(r, rec) ==
    /\ Pending(rec) = {}
    /\ \A q \in rec.ops : Key(q) # Key(r)
    /\ r.gen >= rec.gen
    /\ IF r.verb = "create" THEN rec.exists => r.gen > rec.gen ELSE rec.exists

Checked(h, rec) == h.pc \in CheckPcs => Admissible(h.req, rec)
Running(h, rec) == h.pc \in RunPcs => h.req \in Pending(rec)

JournalInv ==
    /\ RecordInv(mem) /\ RecordInv(disk)
    /\ Checked(handler, mem) /\ Running(handler, mem)

\* What these invariants look at in a record.
SameJournal(rec, old) ==
    rec.exists = old.exists /\ rec.gen = old.gen /\ rec.inc = old.inc
    /\ rec.ops = old.ops /\ rec.result = old.result

\* A change of anything else disturbs none of them.
LEMMA SameJournalInv ==
    ASSUME NEW rec, NEW old, SameJournal(rec, old), NEW h
    PROVE  /\ Pending(rec) = Pending(old)
           /\ RecordInv(old) => RecordInv(rec)
           /\ Checked(h, old) => Checked(h, rec)
           /\ Running(h, old) => Running(h, rec)
BY DEF SameJournal, RecordInv, JournalOK, Pending, Checked, Admissible, Running

\* Recording the intent of an admissible request leaves exactly it unresolved.
LEMMA AcceptedInv ==
    ASSUME mem \in Record, minted \in Nat, RecordInv(mem), NEW r \in Requests, Admissible(r, mem)
    PROVE  RecordInv(Accepted(r)) /\ Pending(Accepted(r)) = {r}
<1>1. r.gen \in Nat /\ r.gen > 0 /\ mem.gen \in Nat /\ mem.inc \in Nat
      /\ mem.result \in [Requests -> Results \cup {"none"}] /\ mem.ops \subseteq Requests
  BY RequestTyped DEF Record
<1>2. r \notin mem.ops /\ mem.result[r] = "none"
  BY DEF Admissible, RecordInv
<1> DEFINE rec == Accepted(r)
<1>3. /\ rec.exists = TRUE /\ rec.gen = r.gen
      /\ rec.ops = mem.ops \cup {r} /\ rec.result = mem.result
      /\ rec.inc \in {mem.inc, r.gen, 0}
  <2>1. CASE r.verb = "create"
    BY <2>1 DEF Accepted, Created
  <2>2. CASE r.verb # "create"
    <3>1. mem.exists = TRUE
      BY <2>2 DEF Admissible, Record
    <3> QED BY <2>2, <3>1 DEF Accepted, Journalled, Fenced, Rotated, Record
  <2> QED BY <2>1, <2>2
<1> HIDE DEF rec
<1>4. Pending(rec) = {r}
  BY <1>1, <1>2, <1>3 DEF Admissible, Pending
<1>5. JournalOK(rec)
  BY <1>3, <1>4 DEF JournalOK, Admissible, RecordInv
<1>6. rec.inc <= rec.gen
  BY <1>1, <1>3 DEF Admissible, RecordInv
<1>7. \A q \in Requests : q \notin rec.ops => rec.result[q] = "none"
  BY <1>3 DEF RecordInv
<1>8. RecordInv(rec)
  BY <1>3, <1>5, <1>6, <1>7 DEF RecordInv
<1> QED BY <1>4, <1>8 DEF rec

\* Resolving an accepted operation leaves no new one unresolved.
LEMMA ResolvedInv ==
    ASSUME NEW rec \in Record, RecordInv(rec), NEW r \in Pending(rec), NEW res \in Results
    PROVE  RecordInv([rec EXCEPT !.result[r] = res])
<1> DEFINE new == [rec EXCEPT !.result[r] = res]
<1>1. /\ new.exists = rec.exists /\ new.gen = rec.gen /\ new.inc = rec.inc /\ new.ops = rec.ops
      /\ new.result = [rec.result EXCEPT ![r] = res]
      /\ rec.result \in [Requests -> Results \cup {"none"}] /\ r \in rec.ops /\ rec.ops \subseteq Requests
  BY DEF Record, Pending
<1> HIDE DEF new
<1>2. res # "none"
  BY DEF Results, Statuses
<1>3. Pending(new) \subseteq Pending(rec)
  BY <1>1, <1>2 DEF Pending
<1>4. JournalOK(new)
  BY <1>1, <1>3 DEF JournalOK, RecordInv
<1>5. RecordInv(new)
  BY <1>1, <1>4 DEF RecordInv
<1> QED BY <1>5 DEF new

\* The handler's new place agrees with the record it flushes.
Agrees(h, rec) == Checked(h, rec) /\ Running(h, rec)

\* A handler that has ended agrees with every record.
LEMMA IdleAgrees == ASSUME NEW rec PROVE Agrees(Idle, rec)
BY DEF Agrees, Checked, Running, Idle, CheckPcs, RunPcs, CallPcs

\* A flush keeps both records consistent if what it writes is.
LEMMA FlushInv ==
    ASSUME JournalInv, NEW rec, RecordInv(rec), NEW next, Agrees(next, rec), Flush(rec, next)
    PROVE  JournalInv'
BY IdleAgrees DEF JournalInv, Flush, Saved, FlushThrows, Agrees

\* Settling the request in hand keeps the journal consistent.
LEMMA SettleInv ==
    ASSUME TypeOK, JournalInv, handler.pc \in RunPcs,
           NEW rec \in Record, SameJournal(rec, mem), NEW res \in Results, Settle(rec, res)
    PROVE  JournalInv'
<1>1. RecordInv(rec) /\ handler.req \in Pending(rec)
  BY SameJournalInv DEF JournalInv, Running
<1> DEFINE new == [rec EXCEPT !.result[handler.req] = res]
<1>2. RecordInv(new)
  BY <1>1, ResolvedInv
<1> HIDE DEF new
<1>3. handler' = Idle /\ mem' = new /\ (disk' = new \/ disk' = disk)
  BY DEF Settle, Saved, FlushThrows, new
<1> QED BY <1>2, <1>3, IdleAgrees DEF JournalInv, Agrees

\* An admissible request that is accepted becomes the one unresolved operation.
LEMMA AcceptInv ==
    ASSUME TypeOK, JournalInv, NEW r \in Requests, Admissible(r, mem), Accept(r)
    PROVE  JournalInv'
<1> DEFINE rec == Accepted(r)
<1>1. RecordInv(rec) /\ Pending(rec) = {r}
  BY AcceptedInv DEF TypeOK, JournalInv
<1>2. Flush(rec, Goto(FirstPc(r), r))
  BY DEF Accept
<1> HIDE DEF rec
<1>3. Agrees(Goto(FirstPc(r), r), rec)
  BY <1>1 DEF Agrees, Checked, Running, Goto, FirstPc, CheckPcs
<1> QED BY <1>1, <1>2, <1>3, FlushInv

\* The checks of a new operation make it admissible (host-api.js:157-204).
LEMMA AcceptableAdmissible ==
    ASSUME mem \in Record, RecordInv(mem), NEW r \in Requests, Acceptable(r)
    PROVE  Admissible(r, mem)
<1>1. r.gen \in Nat /\ mem.gen \in Nat
  BY RequestTyped DEF Record
<1>2. \A q \in mem.ops : Key(q) # Key(r)
  BY DEF Acceptable, KeyUsed
<1>3. CASE r.verb = "create"
  <2>1. mem.exists => r.gen > mem.gen /\ Pending(mem) = {}
    BY <1>3 DEF Acceptable, AcceptableCreate, Recreatable
  <2>2. ~mem.exists => mem.gen = 0 /\ Pending(mem) = {}
    BY DEF RecordInv, Pending
  <2> QED BY <1>1, <1>2, <1>3, <2>1, <2>2 DEF Admissible
<1>4. CASE r.verb # "create"
  BY <1>1, <1>2, <1>4 DEF Acceptable, AcceptableChange, Admissible
<1> QED BY <1>3, <1>4

\* Steps that leave the records, and the handler's place and request, alone.
LEMMA StayInv ==
    ASSUME JournalInv, UNCHANGED records,
           handler'.pc = handler.pc, handler'.req = handler.req
    PROVE  JournalInv'
BY DEF JournalInv, records, Checked, Running

\* A handler that ends without writing changes nothing.
LEMMA RejectsInv == ASSUME JournalInv, UNCHANGED records, handler' = Idle PROVE JournalInv'
BY IdleAgrees DEF JournalInv, records, Agrees

\* The next await of the same phase.
LEMMA ProceedsInv ==
    ASSUME JournalInv, NEW pc, Proceeds(pc),
           \/ handler.pc \in CheckPcs /\ pc \in CheckPcs
           \/ handler.pc \in RunPcs /\ pc \in RunPcs
    PROVE  JournalInv'
<1>1. CheckPcs \cap RunPcs = {}
  BY DEF CheckPcs, RunPcs, CallPcs
<1>2. handler'.pc = pc /\ handler'.req = handler.req /\ UNCHANGED records
  BY DEF Proceeds, Goto
<1> QED BY <1>1, <1>2 DEF JournalInv, records, Checked, Running

\* JournalInv is inductive.
LEMMA JournalInvariant == TypeOK /\ JournalInv /\ [Next]_vars => JournalInv'
<1> SUFFICES ASSUME TypeOK, JournalInv, [Next]_vars PROVE JournalInv'
  OBVIOUS
<1>h. /\ HandlerOK(handler) /\ mem \in Record /\ disk \in Record
      /\ RecordInv(mem) /\ RecordInv(disk) /\ Checked(handler, mem) /\ Running(handler, mem)
  BY DEF TypeOK, JournalInv
<1>1. CASE Receive
  <2> SUFFICES ASSUME NEW r \in Requests,
                      ReceiveProbed(r) \/ ReceiveNew(r) \/ ReceiveRetry(r) \/ ReceiveReplay(r)
               PROVE  JournalInv'
    BY <1>1 DEF Receive
  <2>1. CASE ReceiveProbed(r)
    <3>1. Admissible(r, mem)
      BY <1>h, <2>1, AcceptableAdmissible DEF ReceiveProbed
    <3>2. handler'.pc \in CheckPcs /\ handler'.pc \notin RunPcs /\ handler'.req = r
      BY <2>1 DEF ReceiveProbed, Goto, ProbePc, CheckPcs, RunPcs, CallPcs
    <3> QED BY <1>h, <2>1, <3>1, <3>2 DEF ReceiveProbed, JournalInv, Checked, Running, records
  <2>2. CASE ReceiveNew(r)
    BY <1>h, <2>2, AcceptableAdmissible, AcceptInv DEF ReceiveNew
  <2>3. CASE ReceiveRetry(r)
    <3>1. handler'.pc \notin CheckPcs /\ handler'.req = r
      BY <2>3 DEF ReceiveRetry, Goto, FirstPc, CheckPcs
    <3> QED BY <1>h, <2>3, <3>1 DEF ReceiveRetry, JournalInv, Checked, Running, records
  <2>4. CASE ReceiveReplay(r)
    BY <2>4, StayInv DEF ReceiveReplay
  <2> QED BY <2>1, <2>2, <2>3, <2>4
<1>r. ASSUME NEW x, Reply(x) PROVE handler'.pc = handler.pc /\ handler'.req = handler.req
  BY <1>h, <1>r DEF Reply, HandlerOK
<1>2. CASE Read \/ CallLeaves \/ RuntimeCarriesOut \/ RuntimeFails \/ ProbeAnswers
           \/ OrphanCarriesOut \/ GuestReports \/ GuestGoesDown \/ QuitCompletes
  <2>1. UNCHANGED records
    BY <1>2 DEF Read, ReadStarts, ReadObserves, ReadAnswers, CallLeaves, RuntimeCarriesOut,
                RuntimeFails, ProbeAnswers, OrphanCarriesOut, GuestReports, GuestGoesDown,
                QuitCompletes, MachineStops
  <2>2. handler'.pc = handler.pc /\ handler'.req = handler.req
    <3>1. CASE RuntimeCarriesOut \/ RuntimeFails
      BY <1>r, <3>1 DEF RuntimeCarriesOut, RuntimeFails
    <3>2. CASE CallLeaves \/ ProbeAnswers
      BY <1>h, <3>2 DEF CallLeaves, ProbeAnswers, HandlerOK
    <3>3. CASE Read \/ OrphanCarriesOut \/ GuestReports \/ GuestGoesDown \/ QuitCompletes
      BY <3>3 DEF Read, ReadStarts, ReadObserves, ReadAnswers, OrphanCarriesOut, GuestReports,
                  GuestGoesDown, QuitCompletes, MachineStops
    <3> QED BY <1>2, <3>1, <3>2, <3>3
  <2> QED BY <2>1, <2>2, StayInv
<1>3. CASE CallFails \/ ProbeRefuses \/ StartUncertain \/ SettleFails \/ SettleGivesUp \/ CallTimesOut
  BY <1>3, RejectsInv
  DEF CallFails, ProbeRefuses, StartUncertain, SettleFails, SettleGivesUp, CallTimesOut, Rejects
<1>4. CASE CreateVacated \/ CreateUnheld
  BY <1>4, ProceedsInv DEF CreateVacated, CreateUnheld, Answered, At, CheckPcs
<1>5. CASE CreateDone \/ Started \/ StopAsked \/ SettleAsked \/ SettlePolls \/ Settled \/ StorageRestored
  BY <1>5, ProceedsInv
  DEF CreateDone, Started, StopAsked, SettleAsked, SettlePolls, Settled, StorageRestored,
      Answered, At, RunPcs, CallPcs
<1>6. CASE CreateAccepted \/ StorageAccepted
  <2>1. handler.pc \in CheckPcs /\ handler.req \in Requests /\ Accept(handler.req)
    BY <1>h, <1>6 DEF CreateAccepted, StorageAccepted, Answered, At, CheckPcs, HandlerOK
  <2> QED BY <1>h, <2>1, AcceptInv DEF Checked
<1>s. SameJournal(mem, mem)
  BY DEF SameJournal
<1>7. CASE Report
  <2>1. Settle(mem, Status(mem, handler.reply, {handler.req})) /\ handler.pc \in RunPcs
    BY <1>7 DEF Report, At, RunPcs
  <2> QED BY <1>h, <1>s, <2>1, StatusTyped, SettleInv
<1>8. CASE StorageDone
  <2>1. Settle(mem, "storage") /\ handler.pc \in RunPcs /\ "storage" \in Results
    BY <1>8 DEF StorageDone, Answered, At, RunPcs, CallPcs, Results
  <2> QED BY <1>h, <1>s, <2>1, SettleInv
<1>9. CASE StartLimited
  <2> DEFINE rec == [mem EXCEPT !.desired = "stopped"]
  <2>1. rec \in Record /\ SameJournal(rec, mem)
    BY <1>h DEF Record, SameJournal
  <2>2. Settle(rec, "limit") /\ handler.pc \in RunPcs /\ "limit" \in Results
    BY <1>9 DEF StartLimited, Answered, At, RunPcs, CallPcs, Results
  <2> HIDE DEF rec
  <2> QED BY <2>1, <2>2, SettleInv
<1>10. CASE Destroyed
  <2> DEFINE rec == [mem EXCEPT !.deleted = TRUE, !.token = 0]
  <2>1. rec \in Record /\ SameJournal(rec, mem)
    BY <1>h DEF Record, SameJournal
  <2>2. Settle(rec, "destroyed") /\ handler.pc \in RunPcs /\ "destroyed" \in Results
    BY <1>10 DEF Destroyed, Answered, At, RunPcs, CallPcs, Results
  <2> HIDE DEF rec
  <2> QED BY <2>1, <2>2, SettleInv
<1>f. ASSUME NEW rec, SameJournal(rec, mem), handler.pc \in RunPcs, NEW pc, pc \notin CheckPcs,
             Flush(rec, Goto(pc, handler.req))
      PROVE  JournalInv'
  <2>1. RecordInv(rec) /\ handler.req \in Pending(rec)
    BY <1>h, <1>f, SameJournalInv DEF Running
  <2>2. Agrees(Goto(pc, handler.req), rec)
    BY <1>f, <2>1 DEF Agrees, Checked, Running, Goto
  <2> QED BY <1>f, <2>1, <2>2, FlushInv
<1>11. CASE StartPrepares
  <2> DEFINE base == IF handler.req \notin mem.prepared /\ handler.reply = "stopped"
                     THEN BootRequested(mem, handler.req) ELSE mem
             rec  == [base EXCEPT !.desired = "running"]
  <2>1. SameJournal(rec, mem)
    BY <1>h DEF SameJournal, BootRequested, Record
  <2>2. Flush(rec, Goto("launch", handler.req)) /\ handler.pc \in RunPcs /\ "launch" \notin CheckPcs
    BY <1>11 DEF StartPrepares, Answered, At, RunPcs, CheckPcs
  <2> HIDE DEF rec
  <2> QED BY <1>f, <2>1, <2>2
<1>12. CASE StopBegins
  <2> DEFINE rec == [mem EXCEPT !.desired = "stopped"]
             pc  == IF handler.req.verb = "destroy" THEN "settle" ELSE "stop"
  <2>1. SameJournal(rec, mem)
    BY <1>h DEF SameJournal, Record
  <2>2. Flush(rec, Goto(pc, handler.req)) /\ handler.pc \in RunPcs /\ pc \notin CheckPcs
    BY <1>12 DEF StopBegins, At, RunPcs, CheckPcs
  <2> HIDE DEF rec, pc
  <2> QED BY <1>f, <2>1, <2>2
<1>b. ASSUME SameJournal(mem', mem), disk' = mem' \/ disk' = disk \/ SameJournal(disk', disk),
             UNCHANGED handler
      PROVE  JournalInv'
  BY <1>h, <1>b, SameJournalInv DEF JournalInv
<1>13. CASE HeartbeatHandled
  BY <1>13, <1>h, <1>b, <1>s DEF HeartbeatHandled, SameJournal, Record, records
<1>14. CASE HeartbeatAges
  BY <1>14, <1>h, <1>b DEF HeartbeatAges, SameJournal, Record
<1>15. CASE EngineCrashes
  BY <1>15, <1>h, IdleAgrees DEF EngineCrashes, JournalInv, Agrees
<1>16. CASE HostRestarts
  <2>1. SameJournal(mem', disk) /\ disk' = mem' /\ handler' = Idle
    BY <1>16, <1>h DEF HostRestarts, SameJournal, Record
  <2> QED BY <1>h, <2>1, SameJournalInv, IdleAgrees DEF JournalInv, Agrees
<1>17. CASE LaterFlush
  BY <1>17, <1>h DEF LaterFlush, JournalInv
<1>18. CASE UNCHANGED vars
  BY <1>18, StayInv DEF vars, records
<1> QED
  BY <1>1, <1>2, <1>3, <1>4, <1>5, <1>6, <1>7, <1>8, <1>9, <1>10, <1>11, <1>12, <1>13, <1>14,
     <1>15, <1>16, <1>17, <1>18
  DEF Next, CallSteps, HandlerSteps, CreateSteps, StartSteps, StopSteps, StorageSteps, FaultSteps,
      GuestSteps

\* And holds at first.
LEMMA JournalInit == Init => JournalInv
BY IdleAgrees DEF Init, JournalInv, Agrees, RecordInv, JournalOK, NoRecord, Pending

\* Neither the engine's memory nor machines.json ever holds two unresolved
\* operations, one of another generation, or an operation id with two
\* fingerprints: with any set of requests, any number of faults, flushes that
\* throw and supervisors that outlive the engine.
THEOREM JournalHoldsOnePending == Spec => []OnePending
<1>1. TypeOK /\ JournalInv /\ [Next]_vars => (TypeOK /\ JournalInv)'
  BY TypeInvariant, JournalInvariant
<1>2. JournalInv => OnePending
  BY DEF JournalInv, RecordInv, OnePending
<1> QED BY <1>1, <1>2, TypeInit, JournalInit, PTL DEF Spec

-----------------------------------------------------------------------------
(* Calls.  A handler that has its answer leaves no call behind, and so an    *)
(* operation is only resolved when nothing is under way for it.  As long as  *)
(* flushes do not throw, memory and file agree besides.                      *)

InStep == disk = mem

AwaitsNone ==
    \/ handler.pc \in CallPcs /\ handler.reply \in CallReplies
    \/ handler.pc \in {"report", "settling"}

Quiet == AwaitsNone => queue = <<>>

CallInv ==
    /\ \A i \in DOMAIN queue : queue[i].req \in Pending(mem)
    /\ Quiet

\* The calls an operation makes: a destroy settles first, a restore reseeds last.
Fits(c) ==
    \/ c.kind = c.req.verb
    \/ c.kind = "force-stop" /\ c.req.verb = "destroy"
    \/ c.kind = "reseed" /\ c.req.verb = "restore"

\* Where the handler of an operation can be.
InPlace(h) ==
    /\ h.pc \in {"held", "vacated", "unheld", "create"} => h.req.verb = "create"
    /\ h.pc = "probe" => h.req.verb \in {"snapshot", "restore"}
    /\ h.pc \in {"prepare", "launch"} => h.req.verb = "start"
    /\ h.pc = "begin" => h.req.verb \in {"shutdown", "force-stop", "destroy"}
    /\ h.pc = "stop" => h.req.verb \in {"shutdown", "force-stop"}
    /\ h.pc \in {"settle", "settling", "remove"} => h.req.verb = "destroy"
    /\ h.pc = "storage" => h.req.verb \in StorageVerbs
    /\ h.pc = "reseed" => h.req.verb = "restore"
    /\ h.pc = "report" => h.req.verb \in {"create", "start", "shutdown", "force-stop"}

\* Every handler is where its operation may be, every call one of its operation's.
PlaceInv ==
    /\ InPlace(handler)
    /\ \A i \in DOMAIN queue : Fits(queue[i])
    /\ \A c \in orphans : Fits(c)

NoOrphans == orphans = {}

\* Without failing flushes, memory and file never differ.
LEMMA InStepInvariant ==
    ASSUME ~FlushFaults, InStep, [Next]_vars
    PROVE  InStep'
<1>1. ASSUME NEW rec, NEW next, Flush(rec, next) PROVE InStep'
  BY <1>1 DEF Flush, Saved, FlushThrows, InStep
<1>2. ASSUME NEW rec, NEW res, Settle(rec, res) PROVE InStep'
  BY <1>2 DEF Settle, Saved, FlushThrows, InStep
<1>3. ASSUME UNCHANGED records PROVE InStep'
  BY <1>3 DEF records, InStep
<1>4. CASE Receive
  BY <1>4, <1>1, <1>3
  DEF Receive, ReceiveProbed, ReceiveNew, ReceiveRetry, ReceiveReplay, Accept
<1>5. CASE Read \/ CallSteps
  BY <1>5, <1>3 DEF Read, ReadStarts, ReadObserves, ReadAnswers, CallSteps, CallLeaves,
                    RuntimeCarriesOut, ProbeAnswers
<1>6. CASE CallFails \/ Report \/ CreateSteps
  BY <1>6, <1>1, <1>2, <1>3
  DEF CallFails, Report, CreateSteps, CreateVacated, CreateUnheld, CreateAccepted, ProbeRefuses,
      CreateDone, Accept, Proceeds, Rejects
<1>7. CASE StartSteps \/ StopSteps
  BY <1>7, <1>1, <1>2, <1>3
  DEF StartSteps, StartPrepares, StartUncertain, Started, StartLimited, StopSteps, StopBegins,
      StopAsked, SettleAsked, SettlePolls, SettleFails, Settled, Destroyed, Proceeds, Rejects
<1>8. CASE StorageSteps
  BY <1>8, <1>1, <1>2, <1>3
  DEF StorageSteps, StorageAccepted, StorageRestored, StorageDone, Accept, Proceeds
<1>9. CASE FaultSteps
  BY <1>9, <1>3
  DEF FaultSteps, RuntimeFails, CallTimesOut, SettleGivesUp, OrphanCarriesOut, EngineCrashes,
      HostRestarts, LaterFlush, InStep
<1>10. CASE GuestSteps \/ QuitCompletes
  BY <1>10, <1>3
  DEF GuestSteps, GuestReports, HeartbeatHandled, HeartbeatAges, GuestGoesDown, QuitCompletes,
      MachineStops, InStep
<1>11. CASE UNCHANGED vars
  BY <1>11, <1>3 DEF vars, records
<1> QED
  BY <1>4, <1>5, <1>6, <1>7, <1>8, <1>9, <1>10, <1>11 DEF Next, HandlerSteps

\* The calls left are calls there were.
LEMMA TailOfQueue ==
    ASSUME NEW q \in Seq(CallType), q # <<>>
    PROVE  /\ Len(q) = 1 => Tail(q) = <<>>
           /\ \A i \in DOMAIN Tail(q) : i + 1 \in DOMAIN q /\ Tail(q)[i] = q[i + 1]
<1>1. /\ Tail(q) \in Seq(CallType) /\ Len(Tail(q)) = Len(q) - 1 /\ Len(q) \in Nat
      /\ \A i \in 1 .. Len(Tail(q)) : Tail(q)[i] = q[i + 1]
  BY HeadTailProperties, LenProperties
<1>2. DOMAIN q = 1 .. Len(q) /\ DOMAIN Tail(q) = 1 .. Len(Tail(q))
  BY <1>1, LenProperties
<1>3. Len(q) = 1 => Tail(q) = <<>>
  <2> DEFINE t == Tail(q)
  <2>1. Len(q) = 1 => Len(t) = 0
    BY <1>1
  <2>2. t \in Seq(CallType)
    BY <1>1
  <2> HIDE DEF t
  <2>3. Len(t) = 0 => t = <<>>
    BY <2>2, EmptySeq
  <2> QED BY <2>1, <2>3 DEF t
<1> QED BY <1>1, <1>2, <1>3

\* A call that leaves joins them at the end.
LEMMA AppendToQueue ==
    ASSUME NEW q \in Seq(CallType), NEW c \in CallType
    PROVE  \A i \in DOMAIN Append(q, c) : \/ i \in DOMAIN q /\ Append(q, c)[i] = q[i]
                                         \/ Append(q, c)[i] = c
BY AppendProperties

\* Every call belongs to an operation that is unresolved in memory, whatever
\* flush fails.
LEMMA CallInvariant ==
    ASSUME TypeOK, JournalInv, CallInv, [Next]_vars
    PROVE  CallInv'
<1>h. /\ HandlerOK(handler) /\ mem \in Record /\ queue \in Seq(CallType)
      /\ Checked(handler, mem) /\ Running(handler, mem)
  BY DEF TypeOK, JournalInv
<1>e. ASSUME queue = <<>>, queue' = <<>> PROVE CallInv'
  BY <1>h, <1>e DEF CallInv, Quiet
<1>g. ASSUME SameJournal(mem', mem), UNCHANGED queue, AwaitsNone' => AwaitsNone PROVE CallInv'
  <2>1. Pending(mem') = Pending(mem)
    BY <1>g DEF SameJournal, Pending
  <2> QED BY <1>g, <1>h, <2>1 DEF CallInv, Quiet
<1>s. ASSUME UNCHANGED records PROVE SameJournal(mem', mem)
  BY <1>s DEF SameJournal, records
<1>i. ASSUME handler' = Idle PROVE ~AwaitsNone'
  BY <1>i DEF AwaitsNone, Idle, CallPcs
<1>t. ASSUME NEW pc, pc \notin {"report", "settling"}, NEW r, handler' = Goto(pc, r)
      PROVE  ~AwaitsNone'
  BY <1>t DEF AwaitsNone, Goto, CallReplies
<1>p. ASSUME NEW r \in Requests, Admissible(r, mem), Accept(r) PROVE CallInv'
  <2>1. DOMAIN queue = {}
    BY <1>p DEF CallInv, Admissible
  <2>2. queue = <<>>
    BY <1>h, <2>1, EmptySeq
  <2> QED BY <1>e, <1>p, <2>2 DEF Accept, runtime
<1>1. CASE Receive
  <2> SUFFICES ASSUME NEW r \in Requests,
                      ReceiveProbed(r) \/ ReceiveNew(r) \/ ReceiveRetry(r) \/ ReceiveReplay(r)
               PROVE  CallInv'
    BY <1>1 DEF Receive
  <2>1. CASE ReceiveProbed(r)
    BY <2>1, <1>g, <1>s, <1>t DEF ReceiveProbed, ProbePc, runtime
  <2>2. CASE ReceiveNew(r)
    BY <2>2, <1>h, <1>p, AcceptableAdmissible DEF ReceiveNew, JournalInv
  <2>3. CASE ReceiveRetry(r)
    BY <2>3, <1>g, <1>s, <1>t DEF ReceiveRetry, FirstPc, runtime
  <2>4. CASE ReceiveReplay(r)
    BY <2>4, <1>g, <1>s DEF ReceiveReplay, AwaitsNone, runtime
  <2> QED BY <2>1, <2>2, <2>3, <2>4
<1>2. CASE Read \/ OrphanCarriesOut \/ GuestReports \/ GuestGoesDown \/ QuitCompletes
  BY <1>2, <1>g, <1>s
  DEF Read, ReadStarts, ReadObserves, ReadAnswers, OrphanCarriesOut, GuestReports, GuestGoesDown,
      QuitCompletes, MachineStops, AwaitsNone, runtime
<1>3. CASE CallLeaves
  <2> DEFINE c == Call(CallKind, handler.req, mem.token)
  <2>1. handler.pc \in CallPcs /\ handler.req \in Pending(mem) /\ handler.req \in Requests
    BY <1>3, <1>h DEF CallLeaves, Running, RunPcs, HandlerOK, CallPcs
  <2>2. c \in CallType
    <3>1. CallKind \in CallKinds
      BY <2>1, RequestTyped DEF CallKind, CallKinds, CallPcs, At, Verbs, LifecycleVerbs, StorageVerbs
    <3> QED BY <1>h, <2>1, <3>1 DEF Call, CallType, Record
  <2>3. queue' = Append(queue, c) /\ c.req \in Pending(mem) /\ mem' = mem
    BY <1>3, <2>1 DEF CallLeaves, Call, records
  <2>4. ~AwaitsNone'
    BY <1>3, <1>h, <2>1 DEF CallLeaves, AwaitsNone, HandlerOK, CallPcs, CallReplies
  <2> HIDE DEF c
  <2> QED BY <1>h, <2>2, <2>3, <2>4, AppendToQueue DEF CallInv, Quiet
<1>4. CASE RuntimeCarriesOut \/ RuntimeFails
  <2>1. queue # <<>> /\ queue' = Tail(queue) /\ UNCHANGED records
        /\ \E x : Reply(x)
    BY <1>4 DEF RuntimeCarriesOut, RuntimeFails
  <2>2. ~AwaitsNone
    BY <2>1 DEF CallInv, Quiet
  <2>3. AwaitsNone' => queue' = <<>>
    BY <1>h, <2>1, <2>2, TailOfQueue DEF Reply, AwaitsNone, HandlerOK
  <2>4. \A i \in DOMAIN queue' : queue'[i].req \in Pending(mem)
    BY <1>h, <2>1, TailOfQueue DEF CallInv
  <2> QED BY <1>h, <2>1, <2>3, <2>4 DEF CallInv, Quiet, records
<1>5. CASE ProbeAnswers
  <2>1. AwaitsNone' => AwaitsNone
    BY <1>5, <1>h DEF ProbeAnswers, AwaitsNone, HandlerOK, ProbePcs, CallPcs
  <2> QED BY <1>5, <1>g, <1>s, <2>1 DEF ProbeAnswers, runtime
<1>6. CASE CallFails \/ ProbeRefuses \/ StartUncertain \/ SettleFails \/ SettleGivesUp \/ CallTimesOut
  BY <1>6, <1>g, <1>s, <1>i
  DEF CallFails, ProbeRefuses, StartUncertain, SettleFails, SettleGivesUp, CallTimesOut, Rejects,
      runtime
<1>7. CASE CreateVacated \/ CreateUnheld \/ Settled \/ StorageRestored
  BY <1>7, <1>g, <1>s, <1>t
  DEF CreateVacated, CreateUnheld, Settled, StorageRestored, Proceeds, runtime
<1>8. CASE CreateDone \/ Started \/ StopAsked \/ SettleAsked \/ SettlePolls
  <2>1. AwaitsNone
    BY <1>8 DEF CreateDone, Started, StopAsked, SettleAsked, SettlePolls, Answered, At, AwaitsNone,
                CallPcs, CallReplies
  <2> QED BY <1>8, <1>g, <1>s, <2>1
      DEF CreateDone, Started, StopAsked, SettleAsked, SettlePolls, Proceeds, runtime
<1>9. CASE CreateAccepted \/ StorageAccepted
  <2>1. handler.pc \in CheckPcs /\ handler.req \in Requests /\ Accept(handler.req)
    BY <1>h, <1>9 DEF CreateAccepted, StorageAccepted, Answered, At, CheckPcs, HandlerOK
  <2> QED BY <1>h, <2>1, <1>p DEF Checked
<1>10. CASE Report \/ StartLimited \/ Destroyed \/ StorageDone
  <2>1. AwaitsNone /\ UNCHANGED queue
    BY <1>10 DEF Report, StartLimited, Destroyed, StorageDone, Settle, Answered, At, AwaitsNone,
                 CallPcs, CallReplies, runtime
  <2> QED BY <2>1, <1>e DEF CallInv, Quiet
<1>11. CASE StartPrepares
  <2>1. SameJournal(mem', mem) /\ (handler' = Goto("launch", handler.req) \/ handler' = Idle)
    BY <1>11, <1>h, ZenonT(40) DEF StartPrepares, Flush, Saved, FlushThrows, SameJournal, BootRequested, Record
  <2> QED BY <1>11, <1>g, <1>i, <1>t, <2>1 DEF StartPrepares, runtime
<1>12. CASE StopBegins
  <2> DEFINE pc == IF handler.req.verb = "destroy" THEN "settle" ELSE "stop"
  <2>1. SameJournal(mem', mem) /\ (handler' = Goto(pc, handler.req) \/ handler' = Idle)
    BY <1>12, <1>h DEF StopBegins, Flush, Saved, FlushThrows, SameJournal, Record
  <2> QED BY <1>12, <1>g, <1>i, <1>t, <2>1 DEF StopBegins, runtime
<1>13. CASE EngineCrashes \/ HostRestarts
  <2>1. queue' = <<>> /\ handler' = Idle
    BY <1>13 DEF EngineCrashes, HostRestarts
  <2> QED BY <1>h, <2>1 DEF CallInv, Quiet
<1>14. CASE LaterFlush
  BY <1>14, <1>g DEF LaterFlush, SameJournal, AwaitsNone, runtime
<1>15. CASE HeartbeatHandled
  BY <1>15, <1>g, <1>h DEF HeartbeatHandled, SameJournal, Record, AwaitsNone, records, runtime
<1>16. CASE HeartbeatAges
  BY <1>16, <1>g, <1>h DEF HeartbeatAges, SameJournal, Record, AwaitsNone, runtime
<1>17. CASE UNCHANGED vars
  BY <1>17, <1>g, <1>s DEF vars, records, AwaitsNone
<1> QED
  BY <1>1, <1>2, <1>3, <1>4, <1>5, <1>6, <1>7, <1>8, <1>9, <1>10, <1>11, <1>12, <1>13, <1>14,
     <1>15, <1>16, <1>17
  DEF Next, CallSteps, HandlerSteps, CreateSteps, StartSteps, StopSteps, StorageSteps, FaultSteps,
      GuestSteps

\* There is none at first.
LEMMA CallInit == Init => CallInv
BY DEF Init, CallInv, Quiet, AwaitsNone, Idle, CallPcs

\* Memory and file agree at first.
LEMMA InStepInit == Init => InStep
BY DEF Init, InStep

\* Unless a flush of machines.json throws, no runtime call is made, nor is one
\* still under way, but for an operation whose intent is in the file and
\* unresolved: whatever is retried, abandoned or lost in a crash, and also when
\* the supervisor survives its engine.
THEOREM IntentPrecedesCall ==
    ASSUME ~FlushFaults
    PROVE  Spec => []CallsArePending
<1> DEFINE Inv == TypeOK /\ JournalInv /\ CallInv /\ InStep
<1>1. Inv /\ [Next]_vars => Inv'
  BY TypeInvariant, JournalInvariant, CallInvariant, InStepInvariant
<1>2. Init => Inv
  BY TypeInit, JournalInit, CallInit, InStepInit
<1>3. Inv => CallsArePending
  BY DEF CallInv, InStep, CallsArePending
<1> HIDE DEF Inv
<1> QED BY <1>1, <1>2, <1>3, PTL DEF Spec

\* What the kind of a call says of its operation.
LEMMA FitsVerb ==
    ASSUME NEW c, Fits(c)
    PROVE  /\ c.kind = "create" => c.req.verb = "create"
           /\ c.kind = "start" => c.req.verb = "start"
           /\ c.kind = "destroy" => c.req.verb = "destroy"
           /\ c.kind = "reseed" => c.req.verb \in {"reseed", "restore"}
           /\ c.kind = "fence" => c.req.verb = "fence"
BY DEF Fits

\* The free lock, and every first place of an operation.
LEMMA FirstInPlace ==
    ASSUME NEW r \in Requests
    PROVE  InPlace(Idle) /\ InPlace(Goto(FirstPc(r), r))
<1>1. InPlace(Idle)
  BY DEF InPlace, Idle
<1>2. InPlace(Goto(FirstPc(r), r))
  <2>1. r.verb \in Verbs
    BY RequestTyped
  <2> QED BY <2>1 DEF InPlace, Goto, FirstPc, Verbs, LifecycleVerbs, StorageVerbs
<1> QED BY <1>1, <1>2

\* The call a handler makes is one of its operation's.
LEMMA CallFits ==
    ASSUME handler.pc \in CallPcs, handler.req \in Requests, InPlace(handler), NEW token
    PROVE  Fits(Call(CallKind, handler.req, token))
<1>1. handler.req.verb \in Verbs
  BY RequestTyped
<1> QED BY <1>1 DEF Fits, Call, CallKind, InPlace, CallPcs, At, Verbs, LifecycleVerbs,
                    StorageVerbs

\* PlaceInv is inductive, whatever fails and whatever outlives its engine.
LEMMA PlaceInvariant == TypeOK /\ PlaceInv /\ [Next]_vars => PlaceInv'
<1> SUFFICES ASSUME TypeOK, PlaceInv, [Next]_vars PROVE PlaceInv'
  OBVIOUS
<1>h. HandlerOK(handler) /\ queue \in Seq(CallType) /\ mem \in Record /\ InPlace(handler)
  BY DEF TypeOK, PlaceInv
<1>g. ASSUME UNCHANGED queue, orphans' \subseteq orphans, InPlace(handler') PROVE PlaceInv'
  BY <1>g DEF PlaceInv
<1>n. InPlace(Idle)
  BY DEF InPlace, Idle
<1>i. ASSUME UNCHANGED <<queue, orphans>>, handler' = Idle PROVE PlaceInv'
  BY <1>g, <1>i, <1>n
<1>u. ASSUME UNCHANGED <<queue, handler>>, orphans' \subseteq orphans PROVE PlaceInv'
  BY <1>u, <1>g, <1>h
<1>a. ASSUME NEW r \in Requests, Accept(r) PROVE PlaceInv'
  <2>1. handler' = Goto(FirstPc(r), r) \/ handler' = Idle
    BY <1>a DEF Accept, Flush, FlushThrows
  <2> QED BY <1>a, <1>g, <2>1, FirstInPlace DEF Accept, runtime
<1>r. ASSUME NEW x, Reply(x) PROVE handler'.pc = handler.pc /\ handler'.req = handler.req
  BY <1>h, <1>r DEF Reply, HandlerOK
<1>k. ASSUME handler'.pc = handler.pc, handler'.req = handler.req PROVE InPlace(handler')
  BY <1>h, <1>k DEF InPlace
<1>1. CASE Receive
  <2> SUFFICES ASSUME NEW r \in Requests,
                      ReceiveProbed(r) \/ ReceiveNew(r) \/ ReceiveRetry(r) \/ ReceiveReplay(r)
               PROVE  PlaceInv'
    BY <1>1 DEF Receive
  <2>1. CASE ReceiveProbed(r)
    <3>1. InPlace(handler')
      BY <2>1 DEF ReceiveProbed, NeedsProbe, ProbePc, Goto, InPlace
    <3> QED BY <2>1, <3>1, <1>g DEF ReceiveProbed, runtime
  <2>2. CASE ReceiveNew(r)
    BY <2>2, <1>a DEF ReceiveNew
  <2>3. CASE ReceiveRetry(r)
    BY <2>3, <1>g, FirstInPlace DEF ReceiveRetry, runtime
  <2>4. CASE ReceiveReplay(r)
    BY <2>4, <1>u DEF ReceiveReplay, runtime
  <2> QED BY <2>1, <2>2, <2>3, <2>4
<1>2. CASE Read \/ GuestSteps \/ QuitCompletes
  BY <1>2, <1>u
  DEF Read, ReadStarts, ReadObserves, ReadAnswers, GuestSteps, GuestReports, HeartbeatHandled,
      HeartbeatAges, GuestGoesDown, QuitCompletes, MachineStops, runtime
<1>3. CASE CallLeaves
  <2> DEFINE c == Call(CallKind, handler.req, mem.token)
  <2>0. handler.req \in Requests /\ handler.pc \in CallPcs
    BY <1>h, <1>3 DEF CallLeaves, HandlerOK, CallPcs
  <2>1. Fits(c)
    BY <1>h, <2>0, CallFits
  <2>2. c \in CallType
    <3>1. CallKind \in CallKinds
      BY <2>0, RequestTyped DEF CallKind, CallKinds, CallPcs, At, Verbs, LifecycleVerbs, StorageVerbs
    <3> QED BY <1>h, <2>0, <3>1 DEF Call, CallType, Record
  <2>3. queue' = Append(queue, c) /\ UNCHANGED orphans
    BY <1>3 DEF CallLeaves
  <2>4. InPlace(handler')
    BY <1>3, <1>h, <1>k DEF CallLeaves, HandlerOK
  <2> HIDE DEF c
  <2> QED BY <1>h, <2>1, <2>2, <2>3, <2>4, AppendToQueue DEF PlaceInv
<1>4. CASE RuntimeCarriesOut \/ RuntimeFails
  <2>1. queue # <<>> /\ queue' = Tail(queue) /\ UNCHANGED orphans /\ \E x : Reply(x)
    BY <1>4 DEF RuntimeCarriesOut, RuntimeFails
  <2>2. InPlace(handler')
    BY <1>r, <1>k, <2>1
  <2> QED BY <1>h, <2>1, <2>2, TailOfQueue DEF PlaceInv
<1>5. CASE ProbeAnswers
  <2>1. InPlace(handler')
    BY <1>5, <1>h, <1>k DEF ProbeAnswers, HandlerOK
  <2> QED BY <1>5, <1>g, <2>1 DEF ProbeAnswers, runtime
<1>6. CASE CallFails \/ ProbeRefuses \/ StartUncertain \/ SettleFails \/ SettleGivesUp \/ CallTimesOut
  BY <1>6, <1>i
  DEF CallFails, ProbeRefuses, StartUncertain, SettleFails, SettleGivesUp, CallTimesOut, Rejects,
      runtime
<1>7. CASE CreateVacated \/ CreateUnheld \/ CreateDone \/ Started \/ StopAsked \/ SettleAsked
           \/ SettlePolls \/ Settled \/ StorageRestored
  <2>1. UNCHANGED <<queue, orphans>>
    BY <1>7 DEF CreateVacated, CreateUnheld, CreateDone, Started, StopAsked, SettleAsked,
                SettlePolls, Settled, StorageRestored, Proceeds, runtime
  <2>2. InPlace(handler')
    BY <1>7, <1>h
    DEF CreateVacated, CreateUnheld, CreateDone, Started, StopAsked, SettleAsked, SettlePolls,
        Settled, StorageRestored, Proceeds, Answered, At, Goto, InPlace
  <2> QED BY <2>1, <2>2, <1>g
<1>8. CASE CreateAccepted \/ StorageAccepted
  <2>1. handler.req \in Requests /\ Accept(handler.req)
    BY <1>h, <1>8 DEF CreateAccepted, StorageAccepted, Answered, At, HandlerOK
  <2> QED BY <2>1, <1>a
<1>9. CASE Report \/ StartLimited \/ Destroyed \/ StorageDone
  BY <1>9, <1>i
  DEF Report, StartLimited, Destroyed, StorageDone, Settle, Saved, FlushThrows, runtime
<1>10. CASE StartPrepares
  <2>1. handler.req.verb = "start"
    BY <1>10, <1>h DEF StartPrepares, Answered, At, InPlace
  <2>2. handler' = Goto("launch", handler.req) \/ handler' = Idle
    BY <1>10 DEF StartPrepares, Flush, FlushThrows
  <2>3. InPlace(Goto("launch", handler.req))
    BY <2>1 DEF Goto, InPlace
  <2> QED BY <1>10, <1>g, <1>n, <2>2, <2>3 DEF StartPrepares, runtime
<1>11. CASE StopBegins
  <2> DEFINE pc == IF handler.req.verb = "destroy" THEN "settle" ELSE "stop"
  <2>1. handler' = Goto(pc, handler.req) \/ handler' = Idle
    BY <1>11 DEF StopBegins, Flush, FlushThrows
  <2>2. InPlace(Goto(pc, handler.req))
    BY <1>11, <1>h DEF StopBegins, At, Goto, InPlace
  <2> QED BY <1>11, <1>g, <1>n, <2>1, <2>2 DEF StopBegins, runtime
<1>12. CASE EngineCrashes \/ HostRestarts
  <2>1. queue' = <<>> /\ handler' = Idle
    BY <1>12 DEF EngineCrashes, HostRestarts
  <2>2. \A c \in orphans' : Fits(c)
    BY <1>12 DEF EngineCrashes, HostRestarts, PlaceInv
  <2> QED BY <1>n, <2>1, <2>2 DEF PlaceInv
<1>13. CASE OrphanCarriesOut
  BY <1>13, <1>u DEF OrphanCarriesOut
<1>14. CASE LaterFlush
  BY <1>14, <1>u DEF LaterFlush, runtime
<1>15. CASE UNCHANGED vars
  BY <1>15, <1>u DEF vars
<1> QED
  BY <1>1, <1>2, <1>3, <1>4, <1>5, <1>6, <1>7, <1>8, <1>9, <1>10, <1>11, <1>12, <1>13, <1>14, <1>15
  DEF Next, CallSteps, HandlerSteps, CreateSteps, StartSteps, StopSteps, StorageSteps, FaultSteps

\* There is neither a handler nor a call at first.
LEMMA PlaceInit == Init => PlaceInv /\ NoOrphans
BY DEF Init, PlaceInv, InPlace, Idle, NoOrphans

\* Only a crash that a supervisor survives leaves calls behind.
LEMMA NoOrphansInvariant ==
    ASSUME ~Orphans, NoOrphans, [Next]_vars
    PROVE  NoOrphans'
<1>u. ASSUME UNCHANGED orphans PROVE NoOrphans'
  BY <1>u DEF NoOrphans
<1>1. CASE Receive \/ Read \/ CallSteps
  BY <1>1, <1>u
  DEF Receive, ReceiveProbed, ReceiveNew, ReceiveRetry, ReceiveReplay, Accept, Read, ReadStarts,
      ReadObserves, ReadAnswers, CallSteps, CallLeaves, RuntimeCarriesOut, ProbeAnswers, runtime
<1>2. CASE HandlerSteps
  BY <1>2, <1>u
  DEF HandlerSteps, CallFails, Report, CreateSteps, CreateVacated, CreateUnheld, CreateAccepted,
      ProbeRefuses, CreateDone, StartSteps, StartPrepares, StartUncertain, Started, StartLimited,
      StopSteps, StopBegins, StopAsked, SettleAsked, SettlePolls, SettleFails, Settled, Destroyed,
      StorageSteps, StorageAccepted, StorageRestored, StorageDone, Accept, Settle, Proceeds, Rejects,
      runtime
<1>3. CASE FaultSteps
  BY <1>3, <1>u
  DEF FaultSteps, RuntimeFails, CallTimesOut, SettleGivesUp, OrphanCarriesOut, EngineCrashes,
      HostRestarts, LaterFlush, NoOrphans, runtime
<1>4. CASE GuestSteps \/ QuitCompletes \/ UNCHANGED vars
  BY <1>4, <1>u
  DEF GuestSteps, GuestReports, HeartbeatHandled, HeartbeatAges, GuestGoesDown, QuitCompletes,
      MachineStops, runtime, vars
<1> QED BY <1>1, <1>2, <1>3, <1>4 DEF Next

\* Where a supervisor dies with its engine, QEMU is only
\* ever launched while a start is unresolved: 'stopped', once answered, stays
\* true until the next start is accepted.
THEOREM BootsArePending ==
    ASSUME ~Orphans
    PROVE  Spec => BootNeedsPendingStart
<1> DEFINE Inv == TypeOK /\ JournalInv /\ CallInv /\ PlaceInv /\ NoOrphans
<1>1. Inv /\ [Next]_vars => Inv'
  BY TypeInvariant, JournalInvariant, CallInvariant, PlaceInvariant, NoOrphansInvariant
<1>2. Init => Inv
  BY TypeInit, JournalInit, CallInit, PlaceInit
<1>3. Inv /\ [Next]_vars =>
        [machine.power = "off" /\ machine'.power = "on" => \E r \in Pending(mem) : r.verb = "start"]_vars
  <2> SUFFICES ASSUME Inv, [Next]_vars, machine.power = "off", machine'.power = "on"
               PROVE  \E r \in Pending(mem) : r.verb = "start"
    OBVIOUS
  <2>1. RuntimeCarriesOut
    <3>1. machine' # machine /\ machine \in Machine
      BY DEF TypeOK
    <3>2. orphans = {}
      BY DEF NoOrphans
    <3>3. ~RuntimeFails
      BY <3>1 DEF RuntimeFails, Leftovers, Machine
    <3>4. ~HostRestarts /\ ~QuitCompletes /\ ~GuestGoesDown
      BY <3>1 DEF HostRestarts, QuitCompletes, GuestGoesDown, Machine
    <3>5. ~UNCHANGED vars /\ ~OrphanCarriesOut
      BY <3>1, <3>2 DEF vars, OrphanCarriesOut
    <3>6. ~HandlerSteps /\ ~Read /\ ~Receive
      BY <3>1 DEF HandlerSteps, CallFails, Report, CreateSteps, CreateVacated, CreateUnheld,
                  CreateAccepted, ProbeRefuses, CreateDone, StartSteps, StartPrepares, StartUncertain,
                  Started, StartLimited, StopSteps, StopBegins, StopAsked, SettleAsked, SettlePolls,
                  SettleFails, Settled, Destroyed, StorageSteps, StorageAccepted, StorageRestored,
                  StorageDone, Accept, Settle, Proceeds, Rejects, Read, ReadStarts, ReadObserves,
                  ReadAnswers, Receive, ReceiveProbed, ReceiveNew, ReceiveRetry, ReceiveReplay, runtime
    <3>7. ~CallLeaves /\ ~ProbeAnswers /\ ~CallTimesOut /\ ~SettleGivesUp /\ ~EngineCrashes
          /\ ~LaterFlush /\ ~GuestReports /\ ~HeartbeatHandled /\ ~HeartbeatAges
      BY <3>1 DEF CallLeaves, ProbeAnswers, CallTimesOut, SettleGivesUp, EngineCrashes, LaterFlush,
                  GuestReports, HeartbeatHandled, HeartbeatAges, runtime
    <3> QED BY <3>3, <3>4, <3>5, <3>6, <3>7 DEF Next, CallSteps, FaultSteps, GuestSteps
  <2> DEFINE c == queue[1]
  <2>2. PICK o \in Outcomes(c.kind, machine, c.token, c.req.flag) : o.machine = machine'
    BY <2>1 DEF RuntimeCarriesOut, CarryOut
  <2>3. c.kind = "start"
    BY <2>2, OffStaysOff DEF TypeOK
  <2>4. 1 \in DOMAIN queue
    <3>1. queue \in Seq(CallType) /\ queue # <<>>
      BY <2>1 DEF RuntimeCarriesOut, TypeOK
    <3> QED BY <3>1, EmptySeq, LenProperties
  <2> HIDE DEF c
  <2>5. c.req \in Pending(mem) /\ Fits(c)
    BY <2>4 DEF c, CallInv, PlaceInv
  <2> QED BY <2>3, <2>5, FitsVerb
<1> HIDE DEF Inv
<1> QED BY <1>1, <1>2, <1>3, PTL DEF Spec, BootNeedsPendingStart

-----------------------------------------------------------------------------
(* Refinement. *)

\* The first file is the empty journal.
LEMMA JournalStart == Init => J!Init
BY DEF Init, J!Init, NoRecord

\* Every step either leaves the journal in the file alone, or records one
\* admissible intent, or resolves the unresolved operation.
LEMMA JournalSteps ==
    ASSUME TypeOK, JournalInv, InStep, ~FlushFaults, [Next]_vars
    PROVE  \/ SameJournal(disk', disk)
           \/ \E r \in Requests : Admissible(r, mem) /\ disk' = Accepted(r)
           \/ \E r \in Pending(mem), res \in Results, rec \in Record :
                 SameJournal(rec, mem) /\ disk' = [rec EXCEPT !.result[r] = res]
<1> DEFINE Goal == \/ SameJournal(disk', disk)
                   \/ \E r \in Requests : Admissible(r, mem) /\ disk' = Accepted(r)
                   \/ \E r \in Pending(mem), res \in Results, rec \in Record :
                         SameJournal(rec, mem) /\ disk' = [rec EXCEPT !.result[r] = res]
<1>h. /\ HandlerOK(handler) /\ mem \in Record /\ RecordInv(mem) /\ disk = mem
      /\ Checked(handler, mem) /\ Running(handler, mem)
  BY DEF TypeOK, JournalInv, InStep
<1>u. ASSUME UNCHANGED disk PROVE Goal
  BY <1>u DEF SameJournal
<1>a. ASSUME NEW r \in Requests, Admissible(r, mem), Accept(r) PROVE Goal
  BY <1>a DEF Accept, Flush, Saved, FlushThrows
<1>f. ASSUME NEW rec, SameJournal(rec, mem), NEW next, Flush(rec, next) PROVE Goal
  BY <1>f, <1>h DEF Flush, Saved, FlushThrows
<1>s. ASSUME handler.pc \in RunPcs, NEW rec \in Record, SameJournal(rec, mem), NEW res \in Results,
             Settle(rec, res)
      PROVE  Goal
  <2>1. handler.req \in Pending(mem)
    BY <1>h, <1>s DEF Running
  <2>2. disk' = [rec EXCEPT !.result[handler.req] = res]
    BY <1>s DEF Settle, Saved, FlushThrows
  <2> QED BY <1>s, <2>1, <2>2
<1>m. SameJournal(mem, mem)
  BY DEF SameJournal
<1> SUFFICES Goal
  OBVIOUS
<1> HIDE DEF Goal
<1>1. CASE Receive
  BY <1>1, <1>h, <1>u, <1>a, AcceptableAdmissible
  DEF Receive, ReceiveProbed, ReceiveNew, ReceiveRetry, ReceiveReplay, records
<1>2. CASE Read \/ CallSteps \/ CallFails \/ QuitCompletes \/ GuestReports \/ GuestGoesDown
  BY <1>2, <1>u
  DEF Read, ReadStarts, ReadObserves, ReadAnswers, CallSteps, CallLeaves, RuntimeCarriesOut,
      ProbeAnswers, CallFails, Rejects, QuitCompletes, GuestReports, GuestGoesDown, MachineStops, records
<1>3. CASE CreateVacated \/ CreateUnheld \/ ProbeRefuses \/ CreateDone \/ StartUncertain \/ Started
           \/ StopAsked \/ SettleAsked \/ SettlePolls \/ SettleFails \/ Settled \/ StorageRestored
  BY <1>3, <1>u
  DEF CreateVacated, CreateUnheld, ProbeRefuses, CreateDone, StartUncertain, Started, StopAsked,
      SettleAsked, SettlePolls, SettleFails, Settled, StorageRestored, Proceeds, Rejects, records
<1>4. CASE CreateAccepted \/ StorageAccepted
  <2>1. handler.pc \in CheckPcs /\ handler.req \in Requests /\ Accept(handler.req)
    BY <1>h, <1>4 DEF CreateAccepted, StorageAccepted, Answered, At, CheckPcs, HandlerOK
  <2> QED BY <1>h, <2>1, <1>a DEF Checked
<1>5. CASE Report
  <2>1. Settle(mem, Status(mem, handler.reply, {handler.req})) /\ handler.pc \in RunPcs
    BY <1>5 DEF Report, At, RunPcs
  <2> QED BY <1>h, <1>m, <1>s, <2>1, StatusTyped
<1>6. CASE StorageDone
  <2>1. Settle(mem, "storage") /\ handler.pc \in RunPcs /\ "storage" \in Results
    BY <1>6 DEF StorageDone, Answered, At, RunPcs, CallPcs, Results
  <2> QED BY <1>h, <1>m, <1>s, <2>1
<1>7. CASE StartLimited
  <2> DEFINE rec == [mem EXCEPT !.desired = "stopped"]
  <2>1. rec \in Record /\ SameJournal(rec, mem)
    BY <1>h DEF Record, SameJournal
  <2>2. Settle(rec, "limit") /\ handler.pc \in RunPcs /\ "limit" \in Results
    BY <1>7 DEF StartLimited, Answered, At, RunPcs, CallPcs, Results
  <2> HIDE DEF rec
  <2> QED BY <2>1, <2>2, <1>s
<1>8. CASE Destroyed
  <2> DEFINE rec == [mem EXCEPT !.deleted = TRUE, !.token = 0]
  <2>1. rec \in Record /\ SameJournal(rec, mem)
    BY <1>h DEF Record, SameJournal
  <2>2. Settle(rec, "destroyed") /\ handler.pc \in RunPcs /\ "destroyed" \in Results
    BY <1>8 DEF Destroyed, Answered, At, RunPcs, CallPcs, Results
  <2> HIDE DEF rec
  <2> QED BY <2>1, <2>2, <1>s
<1>9. CASE StartPrepares
  <2> DEFINE base == IF handler.req \notin mem.prepared /\ handler.reply = "stopped"
                     THEN BootRequested(mem, handler.req) ELSE mem
             rec  == [base EXCEPT !.desired = "running"]
  <2>1. SameJournal(rec, mem)
    BY <1>h DEF SameJournal, BootRequested, Record
  <2>2. Flush(rec, Goto("launch", handler.req))
    BY <1>9 DEF StartPrepares
  <2> HIDE DEF rec
  <2> QED BY <1>f, <2>1, <2>2
<1>10. CASE StopBegins
  <2> DEFINE rec == [mem EXCEPT !.desired = "stopped"]
             pc  == IF handler.req.verb = "destroy" THEN "settle" ELSE "stop"
  <2>1. SameJournal(rec, mem)
    BY <1>h DEF SameJournal, Record
  <2>2. Flush(rec, Goto(pc, handler.req))
    BY <1>10 DEF StopBegins
  <2> HIDE DEF rec
  <2> QED BY <1>f, <2>1, <2>2
<1>11. CASE RuntimeFails \/ CallTimesOut \/ SettleGivesUp \/ OrphanCarriesOut \/ EngineCrashes
            \/ LaterFlush
  BY <1>11, <1>u
  DEF RuntimeFails, CallTimesOut, SettleGivesUp, OrphanCarriesOut, EngineCrashes, LaterFlush, records
<1>12. CASE HostRestarts
  BY <1>12, <1>h DEF HostRestarts, SameJournal, Record, Goal
<1>13. CASE HeartbeatHandled
  <2>1. \/ UNCHANGED disk
        \/ \E b \in beats : disk' = [mem EXCEPT !.boot_id = b.boot, !.fresh = TRUE]
    BY <1>13 DEF HeartbeatHandled, records
  <2>2. UNCHANGED disk \/ SameJournal(disk', disk)
    BY <1>h, <2>1 DEF SameJournal, Record
  <2> QED BY <1>u, <2>2 DEF Goal
<1>14. CASE HeartbeatAges
  BY <1>14, <1>h DEF HeartbeatAges, SameJournal, Record, Goal
<1>15. CASE UNCHANGED vars
  BY <1>15, <1>u DEF vars
<1> QED
  BY <1>1, <1>2, <1>3, <1>4, <1>5, <1>6, <1>7, <1>8, <1>9, <1>10, <1>11, <1>12, <1>13, <1>14, <1>15
  DEF Next, HandlerSteps, CreateSteps, StartSteps, StopSteps, StorageSteps, FaultSteps, GuestSteps

\* Every step of the host API is a step of the journal or a stutter.
LEMMA JournalStep ==
    ASSUME TypeOK, JournalInv, InStep, ~FlushFaults, [Next]_vars
    PROVE  [J!Next]_(J!jvars)
<1>h. mem \in Record /\ RecordInv(mem) /\ disk = mem
  BY DEF TypeOK, JournalInv, InStep
<1>1. CASE SameJournal(disk', disk)
  BY <1>1 DEF SameJournal, J!jvars
<1>2. ASSUME NEW r \in Requests, Admissible(r, mem), disk' = Accepted(r) PROVE J!Accept(r)
  <2>1. J!Unresolved = {}
    BY <1>2, <1>h DEF J!Unresolved, Admissible, Pending
  <2>2. \A q \in disk.ops : ~J!SameOperation(q, r)
    BY <1>2, <1>h DEF J!SameOperation, Admissible, Key
  <2>3. r.gen >= disk.gen
    BY <1>2, <1>h DEF Admissible
  <2>4. CASE r.verb = "create"
    <3>1. /\ disk'.gen = r.gen /\ disk'.ops = disk.ops \cup {r} /\ disk'.result = disk.result
          /\ disk'.inc = IF mem.exists THEN r.gen ELSE 0
      BY <1>2, <1>h, <2>4 DEF Accepted, Created
    <3>2. J!Incarnate(r)
      BY <1>2, <1>h, <2>4, <3>1 DEF J!Incarnate, Admissible, RecordInv
    <3> QED BY <2>1, <2>2, <2>3, <3>1, <3>2 DEF J!Accept
  <2>5. CASE r.verb # "create"
    <3>1. /\ disk'.gen = r.gen /\ disk'.ops = disk.ops \cup {r} /\ disk'.result = disk.result
          /\ disk'.inc = disk.inc
      BY <1>2, <1>h, <2>5 DEF Accepted, Journalled, Fenced, Rotated, Record
    <3> QED BY <2>1, <2>2, <2>3, <3>1 DEF J!Accept, J!Incarnate
  <2> QED BY <2>4, <2>5
<1>3. ASSUME NEW r \in Pending(mem), NEW res \in Results, NEW rec \in Record,
             SameJournal(rec, mem), disk' = [rec EXCEPT !.result[r] = res]
      PROVE  J!Resolve(r, res)
  <2>1. r \in J!Unresolved
    BY <1>3, <1>h DEF J!Unresolved, Pending
  <2>2. r.gen >= disk.inc
    <3>1. r.gen = mem.gen /\ mem.inc <= mem.gen /\ mem.gen \in Nat /\ mem.inc \in Nat
      BY <1>3, <1>h DEF RecordInv, JournalOK, Record
    <3> QED BY <1>h, <3>1
  <2>3. /\ disk'.gen = disk.gen /\ disk'.inc = disk.inc /\ disk'.ops = disk.ops
        /\ disk'.result = [disk.result EXCEPT ![r] = res]
    BY <1>3, <1>h DEF SameJournal, Record
  <2> QED BY <2>1, <2>2, <2>3 DEF J!Resolve
<1>4. Pending(mem) \subseteq Requests
  BY <1>h DEF Pending, Record
<1> QED BY <1>1, <1>2, <1>3, <1>4, JournalSteps DEF J!Next

\* As long as flushes do not throw, machines.json implements the abstract journal
\* of Journal.tla: for all requests, interleavings, crashes, timeouts and
\* surviving supervisors.
THEOREM FileImplementsJournal ==
    ASSUME ~FlushFaults
    PROVE  Spec => JournalSpec
<1> DEFINE Inv == TypeOK /\ JournalInv /\ InStep
<1>1. Inv /\ [Next]_vars => Inv'
  BY TypeInvariant, JournalInvariant, InStepInvariant
<1>2. Init => Inv
  BY TypeInit, JournalInit, InStepInit
<1>3. Inv /\ [Next]_vars => [J!Next]_(J!jvars)
  BY JournalStep
<1> HIDE DEF Inv
<1> QED BY <1>1, <1>2, <1>3, JournalStart, PTL DEF Spec, JournalSpec, J!Spec


-----------------------------------------------------------------------------
(* The call a handler waits for.                                           *)

\* It is the last one to have left, made for the request in hand; no call carries
\* another token than the record's, because a token only changes when nothing is
\* under way.
SentInv ==
    /\ handler.reply = "sent" =>
          /\ handler.pc \in CallPcs /\ queue # <<>>
          /\ queue[Len(queue)] = Call(CallKind, handler.req, mem.token)
    /\ \A i \in DOMAIN queue : queue[i].token = mem.token

\* The last of the calls left is the last of the calls there were.
LEMMA LastOfTail ==
    ASSUME NEW q \in Seq(CallType), q # <<>>, Len(q) # 1
    PROVE  Tail(q) # <<>> /\ Tail(q)[Len(Tail(q))] = q[Len(q)]
<1>1. /\ Tail(q) \in Seq(CallType) /\ Len(Tail(q)) = Len(q) - 1 /\ Len(q) \in Nat
      /\ \A i \in 1 .. Len(Tail(q)) : Tail(q)[i] = q[i + 1]
  BY HeadTailProperties, LenProperties
<1>2. Len(q) # 0
  BY EmptySeq
<1> DEFINE t == Tail(q)
<1>3. Len(t) \in Nat /\ Len(t) > 0 /\ Len(t) + 1 = Len(q)
  BY <1>1, <1>2
<1>4. t[Len(t)] = q[Len(t) + 1]
  BY <1>1, <1>3
<1>5. t # <<>>
  <2> HIDE DEF t
  <2> QED BY <1>3, EmptySeq
<1> QED BY <1>3, <1>4, <1>5

\* The call that leaves last is the last one.
LEMMA LastOfAppend ==
    ASSUME NEW q \in Seq(CallType), NEW c \in CallType
    PROVE  Append(q, c) # <<>> /\ Append(q, c)[Len(Append(q, c))] = c
BY AppendProperties

\* A create and a restore are only accepted when nothing is under way.
LEMMA AdmissibleQuiet ==
    ASSUME queue \in Seq(CallType), CallInv, NEW r, Admissible(r, mem)
    PROVE  queue = <<>>
<1>1. DOMAIN queue = {}
  BY DEF CallInv, Admissible
<1> QED BY <1>1, EmptySeq

\* What a start or a stop writes before its call: nothing of the journal, of the
\* identity or of the fence.
SameLife(rec, old) ==
    /\ SameJournal(rec, old)
    /\ rec.deleted = old.deleted /\ rec.fenced = old.fenced /\ rec.token = old.token

LEMMA StartWrites ==
    ASSUME mem \in Record, StartPrepares
    PROVE  /\ SameLife(mem', mem) /\ UNCHANGED <<runtime, beats, answers, reader>>
           /\ disk' = mem' \/ (FlushFaults /\ UNCHANGED disk /\ handler' = Idle)
           /\ handler' = Goto("launch", handler.req) \/ handler' = Idle
<1> DEFINE base == IF handler.req \notin mem.prepared /\ handler.reply = "stopped"
                   THEN BootRequested(mem, handler.req) ELSE mem
           rec  == [base EXCEPT !.desired = "running"]
<1>1. SameLife(rec, mem)
  BY DEF SameLife, SameJournal, BootRequested, Record
<1>2. Flush(rec, Goto("launch", handler.req)) /\ UNCHANGED <<runtime, beats, answers, reader>>
  BY DEF StartPrepares, history
<1> HIDE DEF rec
<1> QED BY <1>1, <1>2 DEF Flush, Saved, FlushThrows

LEMMA StopWrites ==
    ASSUME mem \in Record, StopBegins
    PROVE  /\ SameLife(mem', mem) /\ UNCHANGED <<runtime, beats, answers, reader>>
           /\ disk' = mem' \/ (FlushFaults /\ UNCHANGED disk /\ handler' = Idle)
           /\ \/ handler' = Goto(IF handler.req.verb = "destroy" THEN "settle" ELSE "stop", handler.req)
              \/ handler' = Idle
<1> DEFINE rec == [mem EXCEPT !.desired = "stopped"]
           next == Goto(IF handler.req.verb = "destroy" THEN "settle" ELSE "stop", handler.req)
<1>1. SameLife(rec, mem)
  BY DEF SameLife, SameJournal, Record
<1>2. Flush(rec, next) /\ UNCHANGED <<runtime, beats, answers, reader>>
  BY DEF StopBegins, history
<1> HIDE DEF rec, next
<1>3. /\ mem' = rec /\ (disk' = mem' \/ (FlushFaults /\ UNCHANGED disk /\ handler' = Idle))
      /\ handler' = next \/ handler' = Idle
  BY <1>2 DEF Flush, Saved, FlushThrows
<1> QED BY <1>1, <1>2, <1>3 DEF next

\* SentInv is inductive, whatever fails and whatever outlives its engine.
LEMMA SentInvariant ==
    ASSUME TypeOK, JournalInv, CallInv, SentInv, [Next]_vars
    PROVE  SentInv'
<1>h. /\ HandlerOK(handler) /\ queue \in Seq(CallType) /\ mem \in Record
      /\ Checked(handler, mem)
  BY DEF TypeOK, JournalInv
<1>q. ASSUME handler'.reply # "sent", UNCHANGED queue, mem'.token = mem.token \/ queue = <<>>
      PROVE  SentInv'
  BY <1>q DEF SentInv
<1>u. ASSUME UNCHANGED <<handler, queue>>, mem'.token = mem.token PROVE SentInv'
  BY <1>u DEF SentInv, CallKind, At, Call
<1>a. ASSUME NEW r \in Requests, Admissible(r, mem), Accept(r) PROVE SentInv'
  <2>1. queue = <<>>
    BY <1>h, <1>a, AdmissibleQuiet
  <2>2. handler'.reply # "sent"
    BY <1>a DEF Accept, Flush, FlushThrows, Goto, Idle
  <2> QED BY <1>a, <1>q, <2>1, <2>2 DEF Accept, runtime
<1>1. CASE Receive
  <2> SUFFICES ASSUME NEW r \in Requests,
                      ReceiveProbed(r) \/ ReceiveNew(r) \/ ReceiveRetry(r) \/ ReceiveReplay(r)
               PROVE  SentInv'
    BY <1>1 DEF Receive
  <2>1. CASE ReceiveProbed(r) \/ ReceiveRetry(r)
    BY <2>1, <1>q DEF ReceiveProbed, ReceiveRetry, Goto, records, runtime
  <2>2. CASE ReceiveNew(r)
    BY <2>2, <1>h, <1>a, AcceptableAdmissible DEF ReceiveNew, JournalInv
  <2>4. CASE ReceiveReplay(r)
    BY <2>4, <1>u DEF ReceiveReplay, records, runtime
  <2> QED BY <2>1, <2>2, <2>4
<1>2. CASE Read \/ GuestReports \/ GuestGoesDown \/ QuitCompletes \/ OrphanCarriesOut \/ LaterFlush
  BY <1>2, <1>u
  DEF Read, ReadStarts, ReadObserves, ReadAnswers, GuestReports, GuestGoesDown, QuitCompletes,
      MachineStops, OrphanCarriesOut, LaterFlush, records, runtime
<1>3. CASE CallLeaves
  <2> DEFINE c == Call(CallKind, handler.req, mem.token)
  <2>0. handler.req \in Requests /\ handler.pc \in CallPcs
    BY <1>h, <1>3 DEF CallLeaves, HandlerOK, CallPcs
  <2>1. c \in CallType /\ c.token = mem.token
    <3>1. CallKind \in CallKinds
      BY <2>0, RequestTyped DEF CallKind, CallKinds, CallPcs, At, Verbs, LifecycleVerbs, StorageVerbs
    <3> QED BY <1>h, <2>0, <3>1 DEF Call, CallType, Record
  <2>2. queue' = Append(queue, c) /\ mem' = mem
    BY <1>3 DEF CallLeaves, records
  <2>3. handler'.pc = handler.pc /\ handler'.req = handler.req
    BY <1>3, <1>h DEF CallLeaves, HandlerOK
  <2>4. Call(CallKind, handler.req, mem.token)' = c
    BY <2>2, <2>3 DEF CallKind, At, Call
  <2> HIDE DEF c
  <2>5. queue' # <<>> /\ queue'[Len(queue')] = c
    BY <1>h, <2>1, <2>2, LastOfAppend
  <2>6. \A i \in DOMAIN queue' : queue'[i].token = mem'.token
    BY <1>h, <2>1, <2>2, AppendToQueue DEF SentInv
  <2> QED BY <2>0, <2>3, <2>4, <2>5, <2>6 DEF SentInv
<1>4. CASE RuntimeCarriesOut \/ RuntimeFails
  <2>1. queue # <<>> /\ queue' = Tail(queue) /\ UNCHANGED records
    BY <1>4 DEF RuntimeCarriesOut, RuntimeFails
  <2>2. PICK x \in CallReplies : Reply(x)
    <3>1. CASE RuntimeFails
      BY <3>1 DEF RuntimeFails, CallReplies
    <3>2. CASE RuntimeCarriesOut
      <4> DEFINE c == Head(queue)
      <4>1. PICK o \in Outcomes(c.kind, machine, c.token, c.req.flag) : Reply(o.reply)
        BY <3>2 DEF RuntimeCarriesOut
      <4>2. c.kind \in CallKinds /\ c.token \in Nat /\ c.req.flag \in BOOLEAN
        <5>1. c \in CallType
          BY <1>h, <2>1
        <5> QED BY <5>1, RequestTyped DEF CallType
      <4>3. o.reply \in CallReplies
        BY <4>2, OutcomesTyped DEF TypeOK
      <4> QED BY <4>1, <4>3
    <3> QED BY <1>4, <3>1, <3>2
  <2>3. \A i \in DOMAIN queue' : queue'[i].token = mem'.token
    BY <1>h, <2>1, TailOfQueue DEF SentInv, records
  <2>4. CASE Len(queue) = 1 /\ handler.reply = "sent"
    BY <1>h, <2>2, <2>3, <2>4 DEF Reply, SentInv, CallReplies, HandlerOK
  <2>5. CASE ~(Len(queue) = 1 /\ handler.reply = "sent")
    <3>1. handler' = handler /\ mem' = mem
      BY <2>1, <2>2, <2>5 DEF Reply, records
    <3>2. Call(CallKind, handler.req, mem.token)' = Call(CallKind, handler.req, mem.token)
      BY <3>1 DEF CallKind, At, Call
    <3>3. handler.reply = "sent" => queue' # <<>> /\ queue'[Len(queue')] = queue[Len(queue)]
      BY <1>h, <2>1, <2>5, LastOfTail
    <3> QED BY <2>3, <3>1, <3>2, <3>3 DEF SentInv
  <2> QED BY <2>4, <2>5
<1>5. CASE ProbeAnswers
  <2>1. handler'.reply # "sent"
    <3>1. \E x \in Observed(machine, queue # <<>>) \cup Evasive(machine) :
             handler' = [handler EXCEPT !.reply = x]
      BY <1>5 DEF ProbeAnswers
    <3>2. \A x \in Observed(machine, queue # <<>>) \cup Evasive(machine) : x # "sent"
      BY DEF TypeOK, Observed, Evasive, Machine, Power
    <3> QED BY <1>h, <3>1, <3>2 DEF HandlerOK
  <2> QED BY <1>5, <1>q, <2>1 DEF ProbeAnswers, records, runtime
<1>6. CASE CallFails \/ ProbeRefuses \/ StartUncertain \/ SettleFails \/ SettleGivesUp \/ CallTimesOut
  BY <1>6, <1>q
  DEF CallFails, ProbeRefuses, StartUncertain, SettleFails, SettleGivesUp, CallTimesOut, Rejects,
      Idle, records, runtime
<1>7. CASE CreateVacated \/ CreateUnheld \/ CreateDone \/ Started \/ StopAsked \/ SettleAsked
           \/ SettlePolls \/ Settled \/ StorageRestored
  BY <1>7, <1>q
  DEF CreateVacated, CreateUnheld, CreateDone, Started, StopAsked, SettleAsked, SettlePolls,
      Settled, StorageRestored, Proceeds, Goto, records, runtime
<1>8. CASE CreateAccepted \/ StorageAccepted
  <2>1. handler.pc \in CheckPcs /\ handler.req \in Requests /\ Accept(handler.req)
    BY <1>h, <1>8 DEF CreateAccepted, StorageAccepted, Answered, At, CheckPcs, HandlerOK
  <2> QED BY <1>h, <2>1, <1>a DEF Checked
<1>9. CASE Report \/ StartLimited \/ Destroyed \/ StorageDone
  <2>1. AwaitsNone /\ UNCHANGED queue
    BY <1>9 DEF Report, StartLimited, Destroyed, StorageDone, Settle, Answered, At, AwaitsNone,
                CallPcs, CallReplies, runtime
  <2>2. queue = <<>>
    BY <2>1 DEF CallInv, Quiet
  <2>3. handler'.reply # "sent"
    BY <1>9 DEF Report, StartLimited, Destroyed, StorageDone, Settle, FlushThrows, Idle
  <2> QED BY <1>q, <2>1, <2>2, <2>3
<1>10. CASE StartPrepares
  BY <1>10, <1>h, <1>q, StartWrites DEF SameLife, Goto, Idle, runtime
<1>11. CASE StopBegins
  BY <1>11, <1>h, <1>q, StopWrites DEF SameLife, Goto, Idle, runtime
<1>12. CASE EngineCrashes \/ HostRestarts
  <2>1. queue' = <<>> /\ handler' = Idle
    BY <1>12 DEF EngineCrashes, HostRestarts
  <2> QED BY <2>1 DEF SentInv, Idle
<1>13. CASE HeartbeatHandled
  BY <1>13, <1>u, <1>h DEF HeartbeatHandled, Record, records, runtime
<1>14. CASE HeartbeatAges
  BY <1>14, <1>u, <1>h DEF HeartbeatAges, Record, runtime
<1>15. CASE UNCHANGED vars
  BY <1>15, <1>u DEF vars
<1> QED
  BY <1>1, <1>2, <1>3, <1>4, <1>5, <1>6, <1>7, <1>8, <1>9, <1>10, <1>11, <1>12, <1>13, <1>14, <1>15
  DEF Next, CallSteps, HandlerSteps, CreateSteps, StartSteps, StopSteps, StorageSteps, FaultSteps,
      GuestSteps

\* Nothing is awaited at first.
LEMMA SentInit == Init => SentInv
BY DEF Init, SentInv, Idle

-----------------------------------------------------------------------------
(* What a step does to the handler and to the machine.                      *)

\* Only an answer of the runtime gives the handler a reply.
LEMMA HandlerMoves ==
    ASSUME TypeOK, [Next]_vars
    PROVE  \/ RuntimeCarriesOut \/ RuntimeFails \/ ProbeAnswers
           \/ UNCHANGED handler
           \/ handler'.reply \in {"none", "sent"}
<1>h. HandlerOK(handler) /\ mem \in Record
  BY DEF TypeOK
<1>1. CASE Receive
  BY <1>1 DEF Receive, ReceiveProbed, ReceiveNew, ReceiveRetry, ReceiveReplay, Accept, Flush,
              FlushThrows, Goto, Idle
<1>2. CASE Read \/ GuestSteps \/ QuitCompletes \/ OrphanCarriesOut \/ LaterFlush \/ UNCHANGED vars
  BY <1>2
  DEF Read, ReadStarts, ReadObserves, ReadAnswers, GuestSteps, GuestReports, HeartbeatHandled,
      HeartbeatAges, GuestGoesDown, QuitCompletes, MachineStops, OrphanCarriesOut, LaterFlush, vars
<1>3. CASE CallLeaves
  BY <1>3, <1>h DEF CallLeaves, HandlerOK
<1>4. CASE CallFails \/ ProbeRefuses \/ StartUncertain \/ SettleFails \/ SettleGivesUp \/ CallTimesOut
           \/ EngineCrashes \/ HostRestarts
  BY <1>4
  DEF CallFails, ProbeRefuses, StartUncertain, SettleFails, SettleGivesUp, CallTimesOut, Rejects,
      EngineCrashes, HostRestarts, Idle
<1>5. CASE CreateVacated \/ CreateUnheld \/ CreateDone \/ Started \/ StopAsked \/ SettleAsked
           \/ SettlePolls \/ Settled \/ StorageRestored
  BY <1>5
  DEF CreateVacated, CreateUnheld, CreateDone, Started, StopAsked, SettleAsked, SettlePolls,
      Settled, StorageRestored, Proceeds, Goto
<1>6. CASE CreateAccepted \/ StorageAccepted
  BY <1>6 DEF CreateAccepted, StorageAccepted, Accept, Flush, FlushThrows, Goto, Idle
<1>7. CASE Report \/ StartLimited \/ Destroyed \/ StorageDone
  BY <1>7 DEF Report, StartLimited, Destroyed, StorageDone, Settle, FlushThrows, Idle
<1>8. CASE StartPrepares \/ StopBegins
  BY <1>8, <1>h, StartWrites, StopWrites DEF Goto, Idle
<1> QED
  BY <1>1, <1>2, <1>3, <1>4, <1>5, <1>6, <1>7, <1>8
  DEF Next, CallSteps, HandlerSteps, CreateSteps, StartSteps, StopSteps, StorageSteps, FaultSteps

\* The queue only loses its first call or gains a last one, or is lost in a crash.
LEMMA QueueMoves ==
    ASSUME [Next]_vars
    PROVE  \/ CallLeaves
           \/ queue' = Tail(queue) /\ queue # <<>>
           \/ UNCHANGED queue
           \/ queue' = <<>>
<1>1. CASE Receive \/ Read \/ CallSteps
  BY <1>1
  DEF Receive, ReceiveProbed, ReceiveNew, ReceiveRetry, ReceiveReplay, Accept, Read, ReadStarts,
      ReadObserves, ReadAnswers, CallSteps, RuntimeCarriesOut, ProbeAnswers, runtime
<1>2. CASE HandlerSteps
  BY <1>2
  DEF HandlerSteps, CallFails, Report, CreateSteps, CreateVacated, CreateUnheld, CreateAccepted,
      ProbeRefuses, CreateDone, StartSteps, StartPrepares, StartUncertain, Started, StartLimited,
      StopSteps, StopBegins, StopAsked, SettleAsked, SettlePolls, SettleFails, Settled, Destroyed,
      StorageSteps, StorageAccepted, StorageRestored, StorageDone, Accept, Settle, Proceeds, Rejects,
      runtime
<1>3. CASE FaultSteps
  BY <1>3
  DEF FaultSteps, RuntimeFails, CallTimesOut, SettleGivesUp, OrphanCarriesOut, EngineCrashes,
      HostRestarts, LaterFlush, runtime
<1>4. CASE GuestSteps \/ QuitCompletes \/ UNCHANGED vars
  BY <1>4
  DEF GuestSteps, GuestReports, HeartbeatHandled, HeartbeatAges, GuestGoesDown, QuitCompletes,
      MachineStops, runtime, vars
<1> QED BY <1>1, <1>2, <1>3, <1>4 DEF Next

\* But for a call that is carried out, the machine can only be flagged as fenced
\* by a call that failed, or lose its process.
Decays(m, n) ==
    /\ SameImage(n, m) /\ n.boot = m.boot /\ n.cred = m.cred
    /\ m.fenced => n.fenced
    /\ n.power = m.power \/ n.power = "off"

LEMMA MachineDecays ==
    ASSUME TypeOK, [Next]_vars, ~RuntimeCarriesOut, ~OrphanCarriesOut
    PROVE  Decays(machine, machine')
<1>h. machine \in Machine
  BY DEF TypeOK
<1>d. /\ Decays(machine, machine)
      /\ Decays(machine, [machine EXCEPT !.fenced = TRUE])
      /\ Decays(machine, [machine EXCEPT !.power = "off"])
  BY <1>h DEF Decays, SameImage, Machine
<1>u. ASSUME UNCHANGED machine PROVE Decays(machine, machine')
  BY <1>u, <1>d
<1>1. CASE Receive \/ Read \/ CallLeaves \/ ProbeAnswers
  BY <1>1, <1>u
  DEF Receive, ReceiveProbed, ReceiveNew, ReceiveRetry, ReceiveReplay, Accept, Read, ReadStarts,
      ReadObserves, ReadAnswers, CallLeaves, ProbeAnswers, runtime
<1>2. CASE HandlerSteps
  BY <1>2, <1>u
  DEF HandlerSteps, CallFails, Report, CreateSteps, CreateVacated, CreateUnheld, CreateAccepted,
      ProbeRefuses, CreateDone, StartSteps, StartPrepares, StartUncertain, Started, StartLimited,
      StopSteps, StopBegins, StopAsked, SettleAsked, SettlePolls, SettleFails, Settled, Destroyed,
      StorageSteps, StorageAccepted, StorageRestored, StorageDone, Accept, Settle, Proceeds, Rejects,
      runtime
<1>3. CASE CallTimesOut \/ SettleGivesUp \/ EngineCrashes \/ LaterFlush
  BY <1>3, <1>u DEF CallTimesOut, SettleGivesUp, EngineCrashes, LaterFlush, runtime
<1>4. CASE RuntimeFails \/ HostRestarts
  BY <1>4, <1>d DEF RuntimeFails, Leftovers, HostRestarts
<1>5. CASE GuestReports \/ HeartbeatHandled \/ HeartbeatAges \/ UNCHANGED vars
  BY <1>5, <1>u DEF GuestReports, HeartbeatHandled, HeartbeatAges, runtime, vars
<1>6. CASE GuestGoesDown \/ QuitCompletes
  BY <1>6, <1>d DEF GuestGoesDown, QuitCompletes, MachineStops, GuestPowersOff, ProcessExits
<1> QED BY <1>1, <1>2, <1>3, <1>4, <1>5, <1>6 DEF Next, CallSteps, FaultSteps, GuestSteps

LEMMA MachineMoves ==
    ASSUME TypeOK, NoOrphans, [Next]_vars, ~RuntimeCarriesOut
    PROVE  Decays(machine, machine')
BY MachineDecays DEF NoOrphans, OrphanCarriesOut

-----------------------------------------------------------------------------
(* Answers.  What the reply in a handler's hand says of the machine is still *)
(* true when it acts on it: nothing is under way that could change it.       *)

AnswerInv ==
    /\ Answered("remove", {"ok"}) => ~machine.exists
    /\ Answered("unheld", {"gone"}) => ~machine.exists
    /\ Answered("report", {"stopped"}) => machine.power = "off"
    /\ Answered("storage", {"ok"}) /\ handler.req.verb = "fence" => machine.power = "off"

\* The handler waits for nothing when it holds such an answer.
LEMMA NothingUnderWay ==
    ASSUME TypeOK, JournalInv, CallInv,
           \/ handler.pc \in CallPcs /\ handler.reply = "ok"
           \/ handler.pc \in {"report"} \cup CheckPcs
    PROVE  queue = <<>>
<1>1. CASE handler.pc \in CheckPcs
  BY <1>1, AdmissibleQuiet DEF JournalInv, Checked, TypeOK
<1>2. CASE handler.pc \notin CheckPcs
  BY <1>2 DEF CallInv, Quiet, AwaitsNone, CallReplies
<1> QED BY <1>1, <1>2

\* The answer of the last call is the handler's, if it still waits for it.
LEMMA LastAnswer ==
    ASSUME TypeOK, SentInv, RuntimeCarriesOut
    PROVE  \/ handler' = handler
           \/ /\ handler.pc \in CallPcs /\ handler'.pc = handler.pc /\ handler'.req = handler.req
              /\ handler.req \in Requests /\ queue' = <<>> /\ mem' = mem
              /\ \E o \in Outcomes(CallKind, machine, mem.token, handler.req.flag) :
                    machine' = o.machine /\ handler'.reply = o.reply
<1>1. HandlerOK(handler) /\ queue \in Seq(CallType) /\ queue # <<>>
  BY DEF TypeOK, RuntimeCarriesOut
<1> DEFINE c == Head(queue)
<1>2. PICK o \in Outcomes(c.kind, machine, c.token, c.req.flag) : machine' = o.machine /\ Reply(o.reply)
  BY DEF RuntimeCarriesOut, CarryOut
<1>3. CASE ~(Len(queue) = 1 /\ handler.reply = "sent")
  BY <1>2, <1>3 DEF Reply
<1>4. CASE Len(queue) = 1 /\ handler.reply = "sent"
  <2>1. c = Call(CallKind, handler.req, mem.token) /\ handler.pc \in CallPcs
    BY <1>1, <1>4 DEF SentInv
  <2>2. queue' = <<>> /\ mem' = mem
    BY <1>1, <1>4, TailOfQueue DEF RuntimeCarriesOut, records
  <2>3. c.kind = CallKind /\ c.token = mem.token /\ c.req = handler.req
    BY <2>1 DEF Call
  <2>4. handler'.pc = handler.pc /\ handler'.req = handler.req /\ handler'.reply = o.reply
    BY <1>1, <1>2, <1>4 DEF Reply, HandlerOK
  <2>5. handler.req \in Requests
    BY <1>1, <2>1 DEF HandlerOK, CallPcs
  <2> HIDE DEF c
  <2> QED BY <1>2, <2>1, <2>2, <2>3, <2>4, <2>5
<1> QED BY <1>3, <1>4

\* AnswerInv is inductive where a supervisor dies with its engine.
LEMMA AnswerInvariant ==
    ASSUME TypeOK, JournalInv, CallInv, PlaceInv, NoOrphans, SentInv, AnswerInv, [Next]_vars
    PROVE  AnswerInv'
<1>h. HandlerOK(handler) /\ machine \in Machine
  BY DEF TypeOK
<1>1. CASE RuntimeCarriesOut
  <2>1. queue # <<>>
    BY <1>1 DEF RuntimeCarriesOut
  <2>2. CASE handler' = handler
    <3>1. /\ ~Answered("remove", {"ok"}) /\ ~Answered("unheld", {"gone"})
          /\ ~At("report") /\ ~Answered("storage", {"ok"})
      BY <2>1, NothingUnderWay DEF Answered, At, CallPcs, CheckPcs
    <3> QED BY <2>2, <3>1 DEF AnswerInv, Answered, At
  <2>3. CASE handler' # handler
    <3>1. /\ handler.pc \in CallPcs /\ handler'.pc = handler.pc /\ handler'.req = handler.req
          /\ handler.req \in Requests
      BY <1>1, <2>3, LastAnswer
    <3>2. PICK o \in Outcomes(CallKind, machine, mem.token, handler.req.flag) :
                machine' = o.machine /\ handler'.reply = o.reply
      BY <1>1, <2>3, LastAnswer
    <3>3. CASE Answered("remove", {"ok"})'
      <4>1. CallKind = "destroy" /\ o.reply = "ok"
        BY <3>1, <3>2, <3>3 DEF Answered, At, CallKind
      <4>2. ~machine'.exists
        BY <1>h, <3>2, <4>1, DestroyOutcome
      <4> QED BY <3>3, <4>2 DEF AnswerInv, Answered, At
    <3>4. CASE (Answered("storage", {"ok"}) /\ handler.req.verb = "fence")'
      <4>1. CallKind = "fence" /\ o.reply = "ok"
        BY <3>1, <3>2, <3>4 DEF Answered, At, CallKind
      <4>2. machine'.power = "off"
        BY <1>h, <3>2, <4>1, FenceOutcome
      <4> QED BY <3>4, <4>2 DEF AnswerInv, Answered, At
    <3> QED BY <3>1, <3>3, <3>4 DEF AnswerInv, Answered, At, CallPcs
  <2> QED BY <2>2, <2>3
<1>2. CASE ProbeAnswers
  <2>1. PICK s \in Observed(machine, queue # <<>>) \cup Evasive(machine) :
              handler' = [handler EXCEPT !.reply = s]
    BY <1>2 DEF ProbeAnswers
  <2>2. machine' = machine /\ handler.pc \in ProbePcs
    BY <1>2 DEF ProbeAnswers, runtime
  <2>3. handler'.pc = handler.pc /\ handler'.reply = s
    BY <1>h, <2>1 DEF HandlerOK
  <2>4. handler.pc \in {"unheld", "report"} => queue = <<>>
    BY NothingUnderWay DEF CheckPcs
  <2>5. queue = <<>> => (s = "gone" => ~machine.exists) /\ (s = "stopped" => machine.power = "off")
    BY <1>h, <2>1 DEF Observed, Evasive, Machine, Power
  <2> QED BY <2>2, <2>3, <2>4, <2>5 DEF AnswerInv, Answered, At, ProbePcs
<1>3. CASE RuntimeFails
  <2>1. queue # <<>> /\ Reply("error")
    BY <1>3 DEF RuntimeFails
  <2>2. /\ ~Answered("remove", {"ok"}) /\ ~Answered("unheld", {"gone"})
        /\ ~At("report") /\ ~Answered("storage", {"ok"})
    BY <2>1, NothingUnderWay DEF Answered, At, CallPcs, CheckPcs
  <2>3. handler' = handler \/ (handler'.pc = handler.pc /\ handler'.reply = "error")
    BY <1>h, <2>1 DEF Reply, HandlerOK
  <2> QED BY <2>2, <2>3 DEF AnswerInv, Answered, At
<1>4. CASE ~RuntimeCarriesOut /\ ~ProbeAnswers /\ ~RuntimeFails
  <2>1. UNCHANGED handler \/ handler'.reply \in {"none", "sent"}
    BY <1>4, HandlerMoves
  <2>2. Decays(machine, machine')
    BY <1>4, MachineMoves
  <2> QED BY <2>1, <2>2 DEF AnswerInv, Answered, At, Decays, SameImage
<1> QED BY <1>1, <1>2, <1>3, <1>4

\* No answer is there at first.
LEMMA AnswerInit == Init => AnswerInv
BY DEF Init, AnswerInv, Answered, At, Idle

\* What all the theorems below rest on.
CoreInv == TypeOK /\ JournalInv /\ CallInv /\ PlaceInv /\ SentInv

LEMMA CoreInvariant == CoreInv /\ [Next]_vars => CoreInv'
BY TypeInvariant, JournalInvariant, CallInvariant, PlaceInvariant, SentInvariant DEF CoreInv

LEMMA CoreInit == Init => CoreInv
BY TypeInit, JournalInit, CallInit, PlaceInit, SentInit DEF CoreInv

\* The call that is carried out belongs to an unresolved operation of the record's
\* generation.
LEMMA HeadPending ==
    ASSUME CoreInv, queue # <<>>
    PROVE  /\ Head(queue) \in CallType /\ Fits(Head(queue))
           /\ Head(queue).req \in Pending(mem) /\ Head(queue).req.gen = mem.gen
           /\ Head(queue).token = mem.token
<1>1. queue \in Seq(CallType) /\ 1 \in DOMAIN queue
  BY EmptySeq, LenProperties DEF CoreInv, TypeOK
<1>2. Head(queue) = queue[1] /\ queue[1] \in CallType
  BY <1>1
<1>3. queue[1].req \in Pending(mem) /\ Fits(queue[1]) /\ queue[1].token = mem.token
  BY <1>1 DEF CoreInv, CallInv, PlaceInv, SentInv
<1>4. queue[1].req.gen = mem.gen
  BY <1>3 DEF CoreInv, JournalInv, RecordInv, JournalOK
<1> QED BY <1>2, <1>3, <1>4

\* Where a supervisor dies with its engine, a machine's disk only disappears under
\* an unresolved destroy of the current generation: no delayed command of a retired
\* incarnation reaches the new disk, whatever is retried, abandoned or crashes and
\* whatever flush throws.
THEOREM DisksAreDestroyed ==
    ASSUME ~Orphans
    PROVE  Spec => DiskNeedsPendingDestroy
<1> DEFINE Inv == CoreInv /\ NoOrphans
<1>1. Inv /\ [Next]_vars => Inv'
  BY CoreInvariant, NoOrphansInvariant
<1>2. Init => Inv
  BY CoreInit, PlaceInit
<1>3. Inv /\ [Next]_vars =>
        [machine.exists /\ ~machine'.exists
           => \E r \in Pending(mem) : r.verb = "destroy" /\ r.gen = mem.gen]_vars
  <2> SUFFICES ASSUME Inv, [Next]_vars, machine.exists, ~machine'.exists
               PROVE  \E r \in Pending(mem) : r.verb = "destroy" /\ r.gen = mem.gen
    OBVIOUS
  <2>0. machine \in Machine
    BY DEF CoreInv, TypeOK
  <2>1. RuntimeCarriesOut
    BY MachineMoves DEF Decays, SameImage, CoreInv
  <2> DEFINE c == Head(queue)
  <2>2. PICK o \in Outcomes(c.kind, machine, c.token, c.req.flag) : o.machine = machine'
    BY <2>1 DEF RuntimeCarriesOut, CarryOut
  <2>3. /\ c \in CallType /\ Fits(c) /\ c.req \in Pending(mem) /\ c.req.gen = mem.gen
    BY <2>1, HeadPending DEF RuntimeCarriesOut
  <2> HIDE DEF c
  <2>4. c.kind \in CallKinds /\ c.token \in Nat
    BY <2>3 DEF CallType
  <2>5. c.kind # "create"
    BY <2>0, <2>2, <2>4, CreateOutcome
  <2>6. c.kind # "reseed"
    BY <2>0, <2>2, ReseedOutcome
  <2>7. c.kind = "destroy"
    BY <2>0, <2>2, <2>4, <2>5, <2>6, ImageKept DEF SameImage
  <2> QED BY <2>3, <2>7, FitsVerb
<1> HIDE DEF Inv
<1> QED BY <1>1, <1>2, <1>3, PTL DEF Spec, DiskNeedsPendingDestroy

-----------------------------------------------------------------------------
(* Stopped means gone.                                                     *)

\* Between two crashes the journal in memory only moves forward: it gains a new
\* operation, or loses an unresolved one to its result.
Forward(rec, old) ==
    /\ old.ops \subseteq rec.ops
    /\ \A r \in old.ops : old.result[r] # "none" => rec.result[r] = old.result[r]
    /\ \/ Revision(rec) = Revision(old)
       \/ rec.ops # old.ops
       \/ Pending(rec) \subseteq Pending(old) /\ Pending(old) # {}

LEMMA SameLifeForward ==
    ASSUME NEW rec, NEW old, SameJournal(rec, old), rec.deleted = old.deleted
    PROVE  Forward(rec, old) /\ Revision(rec) = Revision(old)
<1>1. Pending(rec) = Pending(old)
  BY DEF SameJournal, Pending
<1> QED BY <1>1 DEF SameJournal, Forward, Revision

\* Accepting an admissible request adds it.
LEMMA AcceptedForward ==
    ASSUME mem \in Record, NEW r \in Requests, Admissible(r, mem)
    PROVE  Forward(Accepted(r), mem) /\ Accepted(r).ops # mem.ops
<1>1. Accepted(r).ops = mem.ops \cup {r} /\ Accepted(r).result = mem.result
  BY DEF Accepted, Created, Journalled, Fenced, Rotated, Record
<1>2. r \notin mem.ops
  BY DEF Admissible
<1> QED BY <1>1, <1>2 DEF Forward

\* So does resolving one that is unresolved, whatever else is written with it.
LEMMA ResolvedForward ==
    ASSUME NEW old \in Record, NEW rec \in Record, SameJournal(rec, old), NEW r \in Pending(old),
           NEW res \in Results
    PROVE  Forward([rec EXCEPT !.result[r] = res], old)
<1> DEFINE new == [rec EXCEPT !.result[r] = res]
<1>1. /\ new.ops = old.ops /\ new.result = [old.result EXCEPT ![r] = res]
      /\ r \in old.ops /\ old.result[r] = "none" /\ old.ops \subseteq Requests
      /\ old.result \in [Requests -> Results \cup {"none"}]
  BY DEF Record, Pending, SameJournal
<1>2. res # "none"
  BY DEF Results, Statuses
<1> HIDE DEF new
<1>3. Pending(new) \subseteq Pending(old)
  BY <1>1, <1>2 DEF Pending
<1>4. \A q \in old.ops : old.result[q] # "none" => new.result[q] = old.result[q]
  BY <1>1
<1> QED BY <1>1, <1>3, <1>4 DEF Forward, new

LEMMA JournalMoves ==
    ASSUME TypeOK, JournalInv, [Next]_vars, ~EngineCrashes, ~HostRestarts
    PROVE  Forward(mem', mem)
<1>h. /\ HandlerOK(handler) /\ mem \in Record /\ RecordInv(mem)
      /\ Checked(handler, mem) /\ Running(handler, mem)
  BY DEF TypeOK, JournalInv
<1>m. SameJournal(mem, mem)
  BY DEF SameJournal
<1>u. ASSUME UNCHANGED mem PROVE Forward(mem', mem)
  BY <1>u, <1>m, SameLifeForward
<1>a. ASSUME NEW r \in Requests, Admissible(r, mem), Accept(r) PROVE Forward(mem', mem)
  BY <1>a, <1>h, AcceptedForward DEF Accept, Flush, Saved, FlushThrows
<1>s. ASSUME handler.pc \in RunPcs, NEW rec \in Record, SameJournal(rec, mem), NEW res \in Results,
             Settle(rec, res)
      PROVE  Forward(mem', mem)
  <2>1. handler.req \in Pending(mem)
    BY <1>h, <1>s DEF Running
  <2>2. mem' = [rec EXCEPT !.result[handler.req] = res]
    BY <1>s DEF Settle, Saved, FlushThrows
  <2> QED BY <1>h, <1>s, <2>1, <2>2, ResolvedForward
<1>1. CASE Receive
  BY <1>1, <1>h, <1>u, <1>a, AcceptableAdmissible
  DEF Receive, ReceiveProbed, ReceiveNew, ReceiveRetry, ReceiveReplay, records
<1>2. CASE Read \/ CallSteps \/ CallFails \/ QuitCompletes \/ GuestReports \/ GuestGoesDown
  BY <1>2, <1>u
  DEF Read, ReadStarts, ReadObserves, ReadAnswers, CallSteps, CallLeaves, RuntimeCarriesOut,
      ProbeAnswers, CallFails, Rejects, QuitCompletes, GuestReports, GuestGoesDown, MachineStops, records
<1>3. CASE CreateVacated \/ CreateUnheld \/ ProbeRefuses \/ CreateDone \/ StartUncertain \/ Started
           \/ StopAsked \/ SettleAsked \/ SettlePolls \/ SettleFails \/ Settled \/ StorageRestored
  BY <1>3, <1>u
  DEF CreateVacated, CreateUnheld, ProbeRefuses, CreateDone, StartUncertain, Started, StopAsked,
      SettleAsked, SettlePolls, SettleFails, Settled, StorageRestored, Proceeds, Rejects, records
<1>4. CASE CreateAccepted \/ StorageAccepted
  <2>1. handler.pc \in CheckPcs /\ handler.req \in Requests /\ Accept(handler.req)
    BY <1>h, <1>4 DEF CreateAccepted, StorageAccepted, Answered, At, CheckPcs, HandlerOK
  <2> QED BY <1>h, <2>1, <1>a DEF Checked
<1>5. CASE Report
  <2>1. Settle(mem, Status(mem, handler.reply, {handler.req})) /\ handler.pc \in RunPcs
    BY <1>5 DEF Report, At, RunPcs
  <2> QED BY <1>h, <1>m, <1>s, <2>1, StatusTyped
<1>6. CASE StorageDone
  <2>1. Settle(mem, "storage") /\ handler.pc \in RunPcs /\ "storage" \in Results
    BY <1>6 DEF StorageDone, Answered, At, RunPcs, CallPcs, Results
  <2> QED BY <1>h, <1>m, <1>s, <2>1
<1>7. CASE StartLimited
  <2> DEFINE rec == [mem EXCEPT !.desired = "stopped"]
  <2>1. rec \in Record /\ SameJournal(rec, mem)
    BY <1>h DEF Record, SameJournal
  <2>2. Settle(rec, "limit") /\ handler.pc \in RunPcs /\ "limit" \in Results
    BY <1>7 DEF StartLimited, Answered, At, RunPcs, CallPcs, Results
  <2> HIDE DEF rec
  <2> QED BY <2>1, <2>2, <1>s
<1>8. CASE Destroyed
  <2> DEFINE rec == [mem EXCEPT !.deleted = TRUE, !.token = 0]
  <2>1. rec \in Record /\ SameJournal(rec, mem)
    BY <1>h DEF Record, SameJournal
  <2>2. Settle(rec, "destroyed") /\ handler.pc \in RunPcs /\ "destroyed" \in Results
    BY <1>8 DEF Destroyed, Answered, At, RunPcs, CallPcs, Results
  <2> HIDE DEF rec
  <2> QED BY <2>1, <2>2, <1>s
<1>9. CASE StartPrepares \/ StopBegins
  BY <1>9, <1>h, StartWrites, StopWrites, SameLifeForward DEF SameLife
<1>10. CASE RuntimeFails \/ CallTimesOut \/ SettleGivesUp \/ OrphanCarriesOut \/ LaterFlush
  BY <1>10, <1>u
  DEF RuntimeFails, CallTimesOut, SettleGivesUp, OrphanCarriesOut, LaterFlush, records
<1>11. CASE HeartbeatHandled \/ HeartbeatAges
  <2>1. SameJournal(mem', mem) /\ mem'.deleted = mem.deleted
    BY <1>11, <1>h DEF HeartbeatHandled, HeartbeatAges, SameJournal, Record, records
  <2> QED BY <2>1, SameLifeForward
<1>12. CASE UNCHANGED vars
  BY <1>12, <1>u DEF vars
<1> QED
  BY <1>1, <1>2, <1>3, <1>4, <1>5, <1>6, <1>7, <1>8, <1>9, <1>10, <1>11, <1>12
  DEF Next, HandlerSteps, CreateSteps, StartSteps, StopSteps, StorageSteps, FaultSteps, GuestSteps

\* A GET remembers the revision it saw first. As long as the journal has not gained
\* an operation, it has not gained an unresolved one either; and while nothing was
\* accepted a machine seen off has not been launched.
ReadInv ==
    reader.pc # "idle" =>
       /\ reader.before[3] \subseteq mem.ops
       /\ reader.before[3] = mem.ops => Pending(mem) \subseteq reader.before[4]
       /\ (/\ reader.pc = "observed" /\ reader.seen = "stopped"
           /\ reader.before = Revision(mem) /\ Pending(mem) = {}) => machine.power = "off"

\* A machine that is off is only launched by a call of an unresolved start.
LEMMA LaunchPending ==
    ASSUME CoreInv, NoOrphans, [Next]_vars, machine.power = "off", machine'.power # "off"
    PROVE  /\ RuntimeCarriesOut /\ UNCHANGED mem
           /\ Head(queue).kind = "start" /\ Head(queue).req \in Pending(mem)
           /\ Head(queue).req.verb = "start"
<1>0. machine \in Machine
  BY DEF CoreInv, TypeOK
<1>1. RuntimeCarriesOut
  BY MachineMoves DEF Decays, CoreInv
<1> DEFINE c == Head(queue)
<1>2. PICK o \in Outcomes(c.kind, machine, c.token, c.req.flag) : o.machine = machine'
  BY <1>1 DEF RuntimeCarriesOut, CarryOut
<1>3. Fits(c) /\ c.req \in Pending(mem)
  BY <1>1, HeadPending DEF RuntimeCarriesOut
<1>4. UNCHANGED mem
  BY <1>1 DEF RuntimeCarriesOut, records
<1> HIDE DEF c
<1>5. c.kind = "start"
  BY <1>0, <1>2, OffStaysOff
<1> QED BY <1>1, <1>3, <1>4, <1>5, FitsVerb DEF c

\* Only a GET moves the reader, and a crash ends it.
LEMMA ReaderMoves ==
    ASSUME [Next]_vars
    PROVE  Read \/ EngineCrashes \/ HostRestarts \/ UNCHANGED reader
<1>1. CASE Receive \/ CallSteps
  BY <1>1
  DEF Receive, ReceiveProbed, ReceiveNew, ReceiveRetry, ReceiveReplay, Accept, CallSteps, CallLeaves,
      RuntimeCarriesOut, ProbeAnswers
<1>2. CASE HandlerSteps
  BY <1>2
  DEF HandlerSteps, CallFails, Report, CreateSteps, CreateVacated, CreateUnheld, CreateAccepted,
      ProbeRefuses, CreateDone, StartSteps, StartPrepares, StartUncertain, Started, StartLimited,
      StopSteps, StopBegins, StopAsked, SettleAsked, SettlePolls, SettleFails, Settled, Destroyed,
      StorageSteps, StorageAccepted, StorageRestored, StorageDone, Accept, Settle, Proceeds, Rejects
<1>3. CASE FaultSteps
  BY <1>3
  DEF FaultSteps, RuntimeFails, CallTimesOut, SettleGivesUp, OrphanCarriesOut, LaterFlush
<1>4. CASE GuestSteps \/ QuitCompletes \/ UNCHANGED vars
  BY <1>4
  DEF GuestSteps, GuestReports, HeartbeatHandled, HeartbeatAges, GuestGoesDown, QuitCompletes,
      MachineStops, vars
<1> QED BY <1>1, <1>2, <1>3, <1>4 DEF Next

\* ReadInv is inductive where a supervisor dies with its engine.
LEMMA ReadInvariant ==
    ASSUME CoreInv, NoOrphans, ReadInv, [Next]_vars
    PROVE  ReadInv'
<1>h. machine \in Machine /\ mem \in Record
  BY DEF CoreInv, TypeOK
<1>1. CASE EngineCrashes \/ HostRestarts
  BY <1>1 DEF EngineCrashes, HostRestarts, NoReader, ReadInv
<1>2. CASE Read
  <2>1. UNCHANGED <<mem, machine>>
    BY <1>2 DEF Read, ReadStarts, ReadObserves, ReadAnswers, records, runtime
  <2>2. Revision(mem)' = Revision(mem) /\ Pending(mem)' = Pending(mem)
    BY <2>1 DEF Revision, Pending
  <2>3. CASE ReadStarts
    <3>1. /\ reader'.pc = "asked" /\ reader'.before[3] = mem.ops
          /\ reader'.before[4] = Pending(mem)
      BY <2>3 DEF ReadStarts, Revision
    <3> QED BY <2>1, <2>2, <3>1 DEF ReadInv
  <2>4. CASE ReadObserves
    <3>1. PICK s \in Observed(machine, FALSE) \cup Evasive(machine) :
                reader' = [reader EXCEPT !.pc = "observed", !.seen = s]
      BY <2>4 DEF ReadObserves
    <3>2. s = "stopped" => machine.power = "off"
      BY <1>h DEF Observed, Evasive, Machine, Power
    <3>3. reader.pc # "idle" /\ reader'.before = reader.before /\ reader'.seen = s
      BY <2>4, <3>1 DEF ReadObserves, CoreInv, TypeOK
    <3> QED BY <2>1, <2>2, <3>2, <3>3 DEF ReadInv
  <2>5. CASE ReadAnswers
    BY <2>5 DEF ReadAnswers, NoReader, ReadInv
  <2> QED BY <1>2, <2>3, <2>4, <2>5 DEF Read
<1>3. CASE UNCHANGED reader /\ ~EngineCrashes /\ ~HostRestarts
  <2> SUFFICES ASSUME reader.pc # "idle" PROVE ReadInv'
    BY <1>3 DEF ReadInv
  <2>1. Forward(mem', mem)
    BY <1>3, JournalMoves DEF CoreInv
  <2>2. reader'.before[3] \subseteq mem'.ops
    BY <1>3, <2>1 DEF Forward, ReadInv
  <2>3. reader.before[3] = mem'.ops => Pending(mem') \subseteq reader.before[4] /\ mem'.ops = mem.ops
    BY <2>1 DEF Forward, ReadInv, Revision
  <2>4. ASSUME reader.pc = "observed", reader.seen = "stopped",
               reader.before = Revision(mem'), Pending(mem') = {}
        PROVE  machine'.power = "off"
    <3>1. reader.before[3] = mem'.ops /\ reader.before[4] = {}
      BY <2>4 DEF Revision
    <3>2. Pending(mem) = {}
      BY <2>3, <3>1 DEF ReadInv
    <3>3. Revision(mem') = Revision(mem)
      BY <2>1, <2>3, <3>1, <3>2 DEF Forward
    <3>4. machine.power = "off"
      BY <2>4, <3>2, <3>3 DEF ReadInv
    <3> QED BY <3>2, <3>4, LaunchPending
  <2> QED BY <1>3, <2>2, <2>3, <2>4 DEF ReadInv
<1> QED BY <1>1, <1>2, <1>3, ReaderMoves

\* No GET is in flight at first.
LEMMA ReadInit == Init => ReadInv
BY DEF Init, ReadInv, NoReader

\* Where a supervisor dies with its engine, "stopped" as the answer of a GET, or as
\* the recorded result of a command, means that QEMU is gone: also when the journal
\* moved while the runtime was asked, and whatever flush throws.
THEOREM StoppedMeansGone ==
    ASSUME ~Orphans
    PROVE  Spec => []StoppedIsEvidence
<1> DEFINE Inv == CoreInv /\ NoOrphans /\ AnswerInv /\ ReadInv
<1>1. Inv /\ [Next]_vars => Inv'
  BY CoreInvariant, NoOrphansInvariant, AnswerInvariant, ReadInvariant DEF CoreInv
<1>2. Init => Inv
  BY CoreInit, PlaceInit, AnswerInit, ReadInit
<1>3. Inv => StoppedIsEvidence
  <2> SUFFICES ASSUME Inv PROVE StoppedIsEvidence
    OBVIOUS
  <2>1. ASSUME NEW seen, NEW settled, Status(mem, seen, settled) = "stopped"
        PROVE  seen = "stopped" /\ Pending(mem) \ settled = {}
    BY <2>1 DEF Status, Known
  <2>2. ASSUME reader.pc = "observed", Status(mem, Seen, {}) = "stopped" PROVE machine.power = "off"
    <3>1. Seen = "stopped" /\ Pending(mem) = {}
      BY <2>1, <2>2
    <3> QED BY <2>2, <3>1 DEF Seen, ReadInv
  <2>3. ASSUME At("report"), Status(mem, handler.reply, {handler.req}) = "stopped"
        PROVE  machine.power = "off"
    <3>1. handler.reply = "stopped"
      BY <2>1, <2>3
    <3> QED BY <2>3, <3>1 DEF AnswerInv, Answered
  <2> QED BY <2>2, <2>3 DEF StoppedIsEvidence
<1> HIDE DEF Inv
<1> QED BY <1>1, <1>2, <1>3, PTL DEF Spec

-----------------------------------------------------------------------------
(* Replays.                                                                *)

\* What callers were told of an operation is what the journal holds for it.
ReplayInv ==
    \A r \in Requests : \A x \in answers[r] : x = mem.result[r] /\ x # "none"

\* A step that gives no answer and forgets no result.
LEMMA ReplayKept ==
    ASSUME ReplayInv, UNCHANGED answers, mem \in Record, RecordInv(mem),
           UNCHANGED mem \/ Forward(mem', mem) \/ SameJournal(mem', mem)
    PROVE  ReplayInv'
<1>1. ASSUME NEW r \in Requests, NEW x \in answers[r] PROVE x = mem'.result[r] /\ x # "none"
  <2>1. x = mem.result[r] /\ x # "none"
    BY DEF ReplayInv
  <2>2. r \in mem.ops
    BY <2>1 DEF RecordInv
  <2> QED BY <2>1, <2>2 DEF Forward, SameJournal
<1> QED BY <1>1 DEF ReplayInv

\* Settling answers with the result that it records.
LEMMA ReplaySettle ==
    ASSUME TypeOK, JournalInv, ReplayInv, handler.pc \in RunPcs,
           NEW rec \in Record, SameJournal(rec, mem), NEW res \in Results, Settle(rec, res)
    PROVE  ReplayInv'
<1> DEFINE q == handler.req
<1>1. q \in Pending(mem) /\ mem.result[q] = "none" /\ q \in Requests
  BY DEF JournalInv, Running, Pending, TypeOK, Record
<1>2. answers[q] = {}
  BY <1>1 DEF ReplayInv
<1>3. mem' = [rec EXCEPT !.result[q] = res]
  BY DEF Settle, Saved, FlushThrows
<1>4. mem'.result = [mem.result EXCEPT ![q] = res] /\ mem.result \in [Requests -> Results \cup {"none"}]
  BY <1>3 DEF Record, SameJournal, TypeOK
<1>5. answers' = answers \/ answers' = [answers EXCEPT ![q] = answers[q] \cup {res}]
  BY DEF Settle
<1>6. answers \in [Requests -> SUBSET Results] /\ res # "none"
  BY DEF TypeOK, Results, Statuses
<1> HIDE DEF q
<1>7. ASSUME NEW r \in Requests, NEW x \in answers'[r] PROVE x = mem'.result[r] /\ x # "none"
  <2>1. CASE r = q
    BY <1>1, <1>2, <1>4, <1>5, <1>6, <1>7, <2>1
  <2>2. CASE r # q
    BY <1>1, <1>4, <1>5, <1>6, <1>7, <2>2 DEF ReplayInv
  <2> QED BY <2>1, <2>2
<1> QED BY <1>7 DEF ReplayInv

\* ReplayInv is inductive as long as flushes do not throw.
LEMMA ReplayInvariant ==
    ASSUME TypeOK, JournalInv, InStep, ReplayInv, [Next]_vars
    PROVE  ReplayInv'
<1>h. /\ HandlerOK(handler) /\ mem \in Record /\ RecordInv(mem) /\ disk = mem
  BY DEF TypeOK, JournalInv, InStep
<1>m. SameJournal(mem, mem)
  BY DEF SameJournal
<1>1. CASE EngineCrashes \/ HostRestarts
  <2>1. SameJournal(mem', mem) /\ UNCHANGED answers
    BY <1>1, <1>h DEF EngineCrashes, HostRestarts, SameJournal, Record, history
  <2> QED BY <1>h, <2>1, ReplayKept
<1>k. ASSUME ~EngineCrashes, ~HostRestarts, UNCHANGED answers PROVE ReplayInv'
  BY <1>k, <1>h, JournalMoves, ReplayKept
<1>2. CASE Receive
  <2> SUFFICES ASSUME NEW r \in Requests,
                      ReceiveProbed(r) \/ ReceiveNew(r) \/ ReceiveRetry(r) \/ ReceiveReplay(r),
                      ~EngineCrashes, ~HostRestarts
               PROVE  ReplayInv'
    BY <1>1, <1>2 DEF Receive
  <2>1. CASE ReceiveProbed(r) \/ ReceiveNew(r) \/ ReceiveRetry(r)
    BY <2>1, <1>k DEF ReceiveProbed, ReceiveNew, ReceiveRetry, Accept, history
  <2>2. CASE ReceiveReplay(r)
    <3>1. answers' = [answers EXCEPT ![r] = answers[r] \cup {mem.result[r]}] /\ mem' = mem
          /\ mem.result[r] # "none" /\ answers \in [Requests -> SUBSET Results]
      BY <2>2 DEF ReceiveReplay, records, TypeOK
    <3> QED BY <3>1 DEF ReplayInv
  <2> QED BY <2>1, <2>2
<1>3. CASE Read \/ CallSteps \/ GuestSteps \/ QuitCompletes \/ UNCHANGED vars
  <2>1. UNCHANGED answers
    BY <1>3
    DEF Read, ReadStarts, ReadObserves, ReadAnswers, CallSteps, CallLeaves, RuntimeCarriesOut,
        ProbeAnswers, GuestSteps, GuestReports, HeartbeatHandled, HeartbeatAges, GuestGoesDown,
        QuitCompletes, MachineStops, history, vars
  <2> QED BY <1>1, <1>k, <2>1
<1>4. CASE CallFails \/ CreateSteps \/ StartPrepares \/ StartUncertain \/ Started
           \/ StopBegins \/ StopAsked \/ SettleAsked \/ SettlePolls \/ SettleFails \/ Settled
           \/ StorageAccepted \/ StorageRestored
  <2>1. UNCHANGED answers
    BY <1>4
    DEF CallFails, CreateSteps, CreateVacated, CreateUnheld, CreateAccepted, ProbeRefuses,
        CreateDone, StartPrepares, StartUncertain, Started, StopBegins, StopAsked, SettleAsked,
        SettlePolls, SettleFails, Settled, StorageAccepted, StorageRestored, Accept, Proceeds,
        Rejects, history
  <2> QED BY <1>1, <1>k, <2>1
<1>5. CASE Report
  <2>1. Settle(mem, Status(mem, handler.reply, {handler.req})) /\ handler.pc \in RunPcs
    BY <1>5 DEF Report, At, RunPcs
  <2> QED BY <1>h, <1>m, <2>1, StatusTyped, ReplaySettle
<1>6. CASE StorageDone
  <2>1. Settle(mem, "storage") /\ handler.pc \in RunPcs /\ "storage" \in Results
    BY <1>6 DEF StorageDone, Answered, At, RunPcs, CallPcs, Results
  <2> QED BY <1>h, <1>m, <2>1, ReplaySettle
<1>7. CASE StartLimited
  <2> DEFINE rec == [mem EXCEPT !.desired = "stopped"]
  <2>1. rec \in Record /\ SameJournal(rec, mem)
    BY <1>h DEF Record, SameJournal
  <2>2. Settle(rec, "limit") /\ handler.pc \in RunPcs /\ "limit" \in Results
    BY <1>7 DEF StartLimited, Answered, At, RunPcs, CallPcs, Results
  <2> HIDE DEF rec
  <2> QED BY <2>1, <2>2, ReplaySettle
<1>8. CASE Destroyed
  <2> DEFINE rec == [mem EXCEPT !.deleted = TRUE, !.token = 0]
  <2>1. rec \in Record /\ SameJournal(rec, mem)
    BY <1>h DEF Record, SameJournal
  <2>2. Settle(rec, "destroyed") /\ handler.pc \in RunPcs /\ "destroyed" \in Results
    BY <1>8 DEF Destroyed, Answered, At, RunPcs, CallPcs, Results
  <2> HIDE DEF rec
  <2> QED BY <2>1, <2>2, ReplaySettle
<1>9. CASE FaultSteps
  <2>1. UNCHANGED answers
    BY <1>9
    DEF FaultSteps, RuntimeFails, CallTimesOut, SettleGivesUp, OrphanCarriesOut, EngineCrashes,
        HostRestarts, LaterFlush, history
  <2> QED BY <1>1, <1>k, <2>1
<1> QED
  BY <1>2, <1>3, <1>4, <1>5, <1>6, <1>7, <1>8, <1>9
  DEF Next, HandlerSteps, StartSteps, StopSteps, StorageSteps

\* Nobody was answered at first.
LEMMA ReplayInit == Init => ReplayInv
BY DEF Init, ReplayInv

\* As long as flushes do not throw, a caller is given one and the same settled
\* answer for a request, however often it retries: across crashes, timeouts,
\* restarts of the host, surviving supervisors and re-creation of the id.
THEOREM ReplaysAreTheSame ==
    ASSUME ~FlushFaults
    PROVE  Spec => []ReplaysAgree
<1> DEFINE Inv == TypeOK /\ JournalInv /\ InStep /\ ReplayInv
<1>1. Inv /\ [Next]_vars => Inv'
  BY TypeInvariant, JournalInvariant, InStepInvariant, ReplayInvariant
<1>2. Init => Inv
  BY TypeInit, JournalInit, InStepInit, ReplayInit
<1>3. Inv => ReplaysAgree
  BY DEF ReplayInv, ReplaysAgree
<1> HIDE DEF Inv
<1> QED BY <1>1, <1>2, <1>3, PTL DEF Spec

-----------------------------------------------------------------------------
(* The machine and its record.                                             *)

Live(rec) == rec.exists /\ ~rec.deleted

\* The identity image carries the record's registration token.
Holds == machine.exists /\ machine.seed = mem.token

\* The handler's answer is that it does.
MadeHeld ==
    \/ Answered("create", {"ok"}) \/ Answered("reseed", {"ok"})
    \/ At("report") /\ handler.req.verb = "create"

\* TombstoneIsGone and SeedMatches are not inductive.  A deleted record has nothing
\* unresolved, and no handler is about to change it.  A machine holds the record's
\* identity whenever no create, restore or destroy is unresolved; under a create it
\* does as soon as it exists.  What the handler was told of it is still true.
ImageInv ==
    /\ mem.deleted => Pending(mem) = {} /\ ~machine.exists
    /\ At("probe") => ~mem.deleted
    /\ Live(mem) /\ (\A r \in Pending(mem) : r.verb \notin {"create", "restore", "destroy"}) => Holds
    /\ Live(mem) /\ machine.exists /\ (\E r \in Pending(mem) : r.verb = "create")
         => Holds /\ machine.disk = mem.token
    /\ MadeHeld => Holds

\* Steps that leave the life of the record and the image of the machine alone.
LEMMA SameLifeImage ==
    ASSUME ImageInv, SameLife(mem', mem), SameImage(machine', machine),
           At("probe")' => ~mem.deleted, MadeHeld' => Holds
    PROVE  ImageInv'
<1>1. /\ Pending(mem') = Pending(mem) /\ mem'.deleted = mem.deleted /\ Live(mem') = Live(mem)
      /\ mem'.token = mem.token
  BY DEF SameLife, SameJournal, Pending, Live
<1>2. Holds' = Holds /\ machine'.exists = machine.exists /\ machine'.disk = machine.disk
  BY <1>1 DEF SameImage, Holds
<1> QED BY <1>1, <1>2 DEF ImageInv

\* An accepted request becomes the one that is unresolved.
LEMMA AcceptImage ==
    ASSUME CoreInv, ImageInv, NEW r \in Requests, Admissible(r, mem), Accept(r),
           IF r.verb = "create" THEN ~machine.exists ELSE ~mem.deleted
    PROVE  ImageInv'
<1>h. mem \in Record /\ minted \in Nat /\ RecordInv(mem)
  BY DEF CoreInv, TypeOK, JournalInv
<1>1. mem' = Accepted(r) /\ UNCHANGED machine
  BY DEF Accept, Flush, Saved, FlushThrows, runtime
<1>2. Pending(mem') = {r}
  BY <1>1, <1>h, AcceptedInv
<1>3. ~mem'.deleted
  BY <1>1, <1>h DEF Accepted, Created, Journalled, Fenced, Rotated, Record
<1>4. handler' = Goto(FirstPc(r), r) \/ handler' = Idle
  BY DEF Accept, Flush, FlushThrows
<1>5. ~At("probe")' /\ ~MadeHeld'
  BY <1>4 DEF MadeHeld, Answered, At, Goto, FirstPc, Idle
<1>6. ASSUME r.verb \notin {"create", "restore", "destroy"} PROVE Holds'
  <2>1. Live(mem) /\ Pending(mem) = {}
    BY <1>6 DEF Admissible, Live
  <2>2. Holds
    BY <2>1 DEF ImageInv
  <2>3. mem'.token = mem.token
    BY <1>1, <1>6, <1>h DEF Accepted, Journalled, Fenced, Record
  <2> QED BY <1>1, <2>2, <2>3 DEF Holds
<1>7. r.verb = "create" => ~machine'.exists
  BY <1>1
<1> QED BY <1>2, <1>3, <1>5, <1>6, <1>7 DEF ImageInv

\* Resolving the request in hand leaves nothing unresolved: the machine must hold
\* the identity by then, or be gone together with its record.
LEMMA SettleImage ==
    ASSUME CoreInv, ImageInv, handler.pc \in RunPcs,
           NEW rec \in Record, SameJournal(rec, mem), NEW res \in Results, Settle(rec, res),
           IF rec.deleted THEN ~machine.exists ELSE Holds /\ rec.token = mem.token
    PROVE  ImageInv'
<1> DEFINE q == handler.req
           new == [rec EXCEPT !.result[q] = res]
<1>1. q \in Pending(mem)
  BY DEF CoreInv, JournalInv, Running
<1>2. mem' = new /\ UNCHANGED machine /\ handler' = Idle
  BY DEF Settle, Saved, FlushThrows, runtime
<1>3. /\ new.deleted = rec.deleted /\ new.token = rec.token /\ new.ops = mem.ops
      /\ new.result = [mem.result EXCEPT ![q] = res]
      /\ mem.result \in [Requests -> Results \cup {"none"}] /\ mem.ops \subseteq Requests
  BY DEF Record, SameJournal, CoreInv, TypeOK
<1>4. res # "none"
  BY DEF Results, Statuses
<1>5. \A p \in Pending(mem) : p = q
  BY <1>1 DEF CoreInv, JournalInv, RecordInv, JournalOK
<1> HIDE DEF q, new
<1>6. Pending(new) = {}
  BY <1>1, <1>3, <1>4, <1>5 DEF Pending
<1>7. ~At("probe")' /\ ~MadeHeld'
  BY <1>2 DEF MadeHeld, Answered, At, Idle
<1>8. ~mem'.deleted => Holds'
  BY <1>2, <1>3 DEF Holds
<1>9. mem'.deleted => ~machine'.exists
  BY <1>2, <1>3
<1> QED BY <1>2, <1>6, <1>7, <1>8, <1>9 DEF ImageInv, Live

\* The request in hand is the only unresolved one, of a record that is alive.
LEMMA InHand ==
    ASSUME CoreInv, ImageInv, handler.pc \in RunPcs
    PROVE  Pending(mem) = {handler.req} /\ Live(mem) /\ handler.req \in Requests
<1>1. handler.req \in Pending(mem) /\ \A p \in Pending(mem) : p = handler.req
  BY DEF CoreInv, JournalInv, Running, RecordInv, JournalOK
<1>2. mem.exists /\ ~mem.deleted
  BY <1>1 DEF CoreInv, JournalInv, RecordInv, ImageInv, Pending
<1>3. Pending(mem) \subseteq Requests
  BY DEF CoreInv, TypeOK, Pending, Record
<1> QED BY <1>1, <1>2, <1>3 DEF Live

\* A call that is carried out.
LEMMA CarriedOutImage ==
    ASSUME CoreInv, ImageInv, RuntimeCarriesOut
    PROVE  ImageInv'
<1>h. machine \in Machine /\ mem \in Record /\ queue # <<>> /\ HandlerOK(handler)
  BY DEF CoreInv, TypeOK, RuntimeCarriesOut
<1> DEFINE c == Head(queue)
<1>1. PICK o \in Outcomes(c.kind, machine, c.token, c.req.flag) : machine' = o.machine
  BY DEF RuntimeCarriesOut, CarryOut
<1>2. /\ c \in CallType /\ Fits(c) /\ c.req \in Pending(mem) /\ c.token = mem.token
  BY <1>h, HeadPending
<1>3. mem' = mem /\ Pending(mem') = Pending(mem) /\ Live(mem') = Live(mem)
  BY DEF RuntimeCarriesOut, records, Pending, Live
<1> HIDE DEF c
<1>4. c.kind \in CallKinds /\ c.token \in Nat /\ c.req.verb \in Verbs
  BY <1>2, RequestTyped DEF CallType
<1>5. \A p \in Pending(mem) : p = c.req
  BY <1>2 DEF CoreInv, JournalInv, RecordInv, JournalOK
<1>6. mem.exists /\ ~mem.deleted
  BY <1>2 DEF CoreInv, JournalInv, RecordInv, ImageInv, Pending
<1>7. (\A r \in Pending(mem) : r.verb \notin {"create", "restore", "destroy"}) => Holds'
  <2> SUFFICES ASSUME \A r \in Pending(mem) : r.verb \notin {"create", "restore", "destroy"}
               PROVE  Holds'
    OBVIOUS
  <2>1. c.kind \notin {"create", "destroy", "reseed"}
    BY <1>2, <1>4, FitsVerb DEF Verbs, LifecycleVerbs, StorageVerbs
  <2>2. SameImage(machine', machine)
    BY <1>1, <1>4, <1>h, <2>1, ImageKept
  <2> QED BY <1>3, <1>6, <2>2 DEF ImageInv, Live, Holds, SameImage
<1>8. machine'.exists /\ (\E r \in Pending(mem) : r.verb = "create") => Holds' /\ machine'.disk = mem.token
  <2> SUFFICES ASSUME machine'.exists, \E r \in Pending(mem) : r.verb = "create"
               PROVE  Holds' /\ machine'.disk = mem.token
    OBVIOUS
  <2>1. c.req.verb = "create"
    BY <1>5
  <2>2. machine.exists => Holds /\ machine.disk = mem.token
    BY <1>6 DEF ImageInv, Live
  <2>3. CASE c.kind = "create"
    BY <1>1, <1>2, <1>3, <1>4, <1>h, <2>2, <2>3, CreateOutcome DEF Holds
  <2>4. CASE c.kind # "create"
    <3>1. c.kind \notin {"create", "destroy", "reseed"}
      BY <1>2, <2>1, <2>4, FitsVerb
    <3>2. SameImage(machine', machine)
      BY <1>1, <1>4, <1>h, <3>1, ImageKept
    <3> QED BY <1>3, <2>2, <3>2 DEF Holds, SameImage
  <2> QED BY <2>3, <2>4
<1>9. MadeHeld' => Holds'
  <2> SUFFICES ASSUME MadeHeld' PROVE Holds'
    OBVIOUS
  <2>1. CASE handler' = handler
    <3>1. \/ handler.pc \in CallPcs /\ handler.reply = "ok"
          \/ handler.pc \in {"report"} \cup CheckPcs
      BY <2>1 DEF MadeHeld, Answered, At, CallPcs
    <3> QED BY <1>h, <3>1, NothingUnderWay DEF CoreInv
  <2>2. CASE handler' # handler
    <3>1. /\ handler.pc \in CallPcs /\ handler'.pc = handler.pc /\ handler'.req = handler.req
      BY <2>2, LastAnswer DEF CoreInv
    <3>2. PICK a \in Outcomes(CallKind, machine, mem.token, handler.req.flag) :
                machine' = a.machine /\ handler'.reply = a.reply
      BY <2>2, LastAnswer DEF CoreInv
    <3>3. a.reply = "ok" /\ handler.pc \in {"create", "reseed"}
      BY <3>1, <3>2 DEF MadeHeld, Answered, At, CallPcs
    <3>4. CASE handler.pc = "create"
      <4>1. CallKind = "create"
        BY <3>4 DEF CallKind, At
      <4>2. machine'.exists
        BY <1>h, <3>2, <3>3, <4>1, CreateOutcome DEF Record
      <4>3. handler.req \in Pending(mem) /\ handler.req.verb = "create"
        BY <3>4 DEF CoreInv, JournalInv, Running, RunPcs, CallPcs, PlaceInv, InPlace
      <4> QED BY <1>8, <4>2, <4>3
    <3>5. CASE handler.pc = "reseed"
      <4>1. CallKind = "reseed"
        BY <3>5 DEF CallKind, At
      <4> QED BY <1>h, <1>3, <3>2, <3>3, <4>1, ReseedOutcome DEF Holds
    <3> QED BY <3>3, <3>4, <3>5
  <2> QED BY <2>1, <2>2
<1>10. At("probe")' => ~mem'.deleted
  BY <1>3, <1>6
<1> QED BY <1>3, <1>6, <1>7, <1>8, <1>9, <1>10 DEF ImageInv


\* ImageInv is inductive as long as flushes do not throw and a supervisor dies with
\* its engine.
LEMMA ImageInvariant ==
    ASSUME CoreInv, NoOrphans, AnswerInv, InStep, ImageInv, [Next]_vars
    PROVE  ImageInv'
<1>h. /\ HandlerOK(handler) /\ machine \in Machine /\ mem \in Record /\ RecordInv(mem)
      /\ Checked(handler, mem) /\ InPlace(handler) /\ disk = mem
  BY DEF CoreInv, TypeOK, JournalInv, PlaceInv, InStep
<1>r. SameLife(mem, mem) /\ SameImage(machine, machine) /\ SameJournal(mem, mem)
  BY DEF SameLife, SameJournal, SameImage
<1>u. ASSUME SameLife(mem', mem), SameImage(machine', machine), UNCHANGED handler PROVE ImageInv'
  <2>1. (At("probe")' => ~mem.deleted) /\ (MadeHeld' => Holds)
    BY <1>u DEF ImageInv, MadeHeld, Answered, At
  <2> QED BY <1>u, <2>1, SameLifeImage
<1>k. ASSUME SameLife(mem', mem), SameImage(machine', machine), ~At("probe")', ~MadeHeld'
      PROVE  ImageInv'
  BY <1>k, SameLifeImage
<1>s. ASSUME handler.pc \in RunPcs, NEW rec \in Record, SameJournal(rec, mem),
             rec.deleted = mem.deleted, rec.token = mem.token, NEW res \in Results, Settle(rec, res),
             handler.req.verb \notin {"create", "restore", "destroy"} \/ MadeHeld
      PROVE  ImageInv'
  <2>1. Pending(mem) = {handler.req} /\ Live(mem)
    BY <1>s, InHand
  <2>2. Holds
    BY <1>s, <2>1 DEF ImageInv
  <2>3. ~rec.deleted
    BY <1>s, <2>1 DEF Live
  <2> QED BY <1>s, <2>2, <2>3, SettleImage
<1>1. CASE Receive
  <2> SUFFICES ASSUME NEW r \in Requests,
                      ReceiveProbed(r) \/ ReceiveNew(r) \/ ReceiveRetry(r) \/ ReceiveReplay(r)
               PROVE  ImageInv'
    BY <1>1 DEF Receive
  <2>0. r.verb \in Verbs
    BY RequestTyped
  <2>1. CASE ReceiveProbed(r)
    <3>1. UNCHANGED <<mem, machine>> /\ handler' = Goto(ProbePc(r), r)
      BY <2>1 DEF ReceiveProbed, records, runtime
    <3>2. ~MadeHeld'
      BY <3>1 DEF MadeHeld, Answered, At, Goto, ProbePc
    <3>3. At("probe")' => ~mem.deleted
      BY <2>1, <3>1 DEF At, Goto, ProbePc, ReceiveProbed, Acceptable, AcceptableChange
    <3> QED BY <1>r, <3>1, <3>2, <3>3, SameLifeImage
  <2>2. CASE ReceiveNew(r)
    <3>1. r.verb # "create" /\ ~mem.deleted /\ Accept(r)
      BY <2>2 DEF ReceiveNew, NeedsProbe, Acceptable, AcceptableChange
    <3>2. Admissible(r, mem)
      BY <2>2, <1>h, AcceptableAdmissible DEF ReceiveNew
    <3> QED BY <3>1, <3>2, AcceptImage
  <2>3. CASE ReceiveRetry(r)
    <3>1. UNCHANGED <<mem, machine>> /\ handler' = Goto(FirstPc(r), r)
      BY <2>3 DEF ReceiveRetry, records, runtime
    <3>2. ~MadeHeld' /\ ~At("probe")'
      BY <3>1 DEF MadeHeld, Answered, At, Goto, FirstPc
    <3> QED BY <1>r, <1>k, <3>1, <3>2
  <2>4. CASE ReceiveReplay(r)
    BY <2>4, <1>r, <1>u DEF ReceiveReplay, records, runtime
  <2> QED BY <2>1, <2>2, <2>3, <2>4
<1>2. CASE Read \/ LaterFlush \/ GuestReports \/ UNCHANGED vars
  BY <1>2, <1>r, <1>u
  DEF Read, ReadStarts, ReadObserves, ReadAnswers, LaterFlush, GuestReports, records, runtime, vars
<1>3. CASE HeartbeatHandled \/ HeartbeatAges
  <2>1. SameLife(mem', mem) /\ UNCHANGED <<machine, handler>>
    BY <1>3, <1>h DEF HeartbeatHandled, HeartbeatAges, SameLife, SameJournal, Record, records, runtime
  <2> QED BY <2>1, <1>r, <1>u
<1>4. CASE GuestGoesDown \/ QuitCompletes
  <2>1. SameImage(machine', machine) /\ UNCHANGED <<mem, handler>>
    BY <1>4, <1>h
    DEF GuestGoesDown, QuitCompletes, MachineStops, GuestPowersOff, ProcessExits, SameImage, Machine,
        records
  <2> QED BY <2>1, <1>r, <1>u
<1>5. CASE CallLeaves
  <2>1. /\ UNCHANGED <<mem, machine>> /\ handler'.pc = handler.pc /\ handler.pc \in CallPcs
        /\ handler'.reply = "sent"
    BY <1>5, <1>h DEF CallLeaves, HandlerOK, records
  <2> QED BY <2>1, <1>r, <1>k DEF MadeHeld, Answered, At, CallPcs
<1>6. CASE RuntimeCarriesOut
  BY <1>6, CarriedOutImage
<1>7. CASE ProbeAnswers
  <2>1. /\ UNCHANGED <<mem, machine>> /\ handler'.pc = handler.pc /\ handler'.req = handler.req
        /\ handler.pc \in ProbePcs
    BY <1>7, <1>h DEF ProbeAnswers, HandlerOK, records, runtime
  <2>2. (MadeHeld' => Holds) /\ (At("probe")' => ~mem.deleted)
    BY <2>1 DEF ImageInv, MadeHeld, Answered, At, ProbePcs
  <2> QED BY <2>1, <2>2, <1>r, SameLifeImage
<1>8. CASE CallFails \/ ProbeRefuses \/ StartUncertain \/ SettleFails \/ SettleGivesUp \/ CallTimesOut
  <2>1. UNCHANGED <<mem, machine>> /\ handler' = Idle
    BY <1>8 DEF CallFails, ProbeRefuses, StartUncertain, SettleFails, SettleGivesUp, CallTimesOut,
                Rejects, records, runtime
  <2> QED BY <2>1, <1>r, <1>k DEF MadeHeld, Answered, At, Idle
<1>9. CASE CreateVacated \/ CreateUnheld \/ SettleAsked \/ SettlePolls \/ Settled \/ StorageRestored
  <2>1. /\ UNCHANGED <<mem, machine>>
        /\ \E pc \in {"vacated", "unheld", "settling", "remove", "reseed"} :
              handler' = Goto(pc, handler.req)
    BY <1>9 DEF CreateVacated, CreateUnheld, SettleAsked, SettlePolls, Settled, StorageRestored,
                Proceeds, records, runtime
  <2> QED BY <2>1, <1>r, <1>k DEF MadeHeld, Answered, At, Goto
<1>10. CASE CreateDone
  <2>1. UNCHANGED <<mem, machine>> /\ handler' = Goto("report", handler.req)
    BY <1>10 DEF CreateDone, Proceeds, records, runtime
  <2>2. Holds
    BY <1>10 DEF CreateDone, MadeHeld, ImageInv
  <2> QED BY <2>1, <2>2, <1>r, SameLifeImage DEF At, Goto
<1>11. CASE Started \/ StopAsked
  <2>1. UNCHANGED <<mem, machine>> /\ handler' = Goto("report", handler.req)
    BY <1>11 DEF Started, StopAsked, Proceeds, records, runtime
  <2>2. handler.req.verb # "create"
    BY <1>11, <1>h DEF Started, StopAsked, Answered, At, InPlace
  <2> QED BY <2>1, <2>2, <1>r, <1>k DEF MadeHeld, Answered, At, Goto
<1>12. CASE CreateAccepted \/ StorageAccepted
  <2>1. handler.pc \in CheckPcs /\ handler.req \in Requests /\ Accept(handler.req)
    BY <1>h, <1>12 DEF CreateAccepted, StorageAccepted, Answered, At, CheckPcs, HandlerOK
  <2>2. IF handler.req.verb = "create" THEN ~machine.exists ELSE ~mem.deleted
    BY <1>12, <1>h DEF CreateAccepted, StorageAccepted, Answered, At, InPlace, AnswerInv, ImageInv
  <2>3. Admissible(handler.req, mem)
    BY <1>h, <2>1 DEF Checked
  <2> QED BY <2>1, <2>2, <2>3, AcceptImage
<1>13. CASE Report
  <2>1. Settle(mem, Status(mem, handler.reply, {handler.req})) /\ handler.pc \in RunPcs /\ At("report")
    BY <1>13 DEF Report, At, RunPcs
  <2>2. handler.req.verb \notin {"create", "restore", "destroy"} \/ MadeHeld
    BY <2>1, <1>h DEF At, InPlace, MadeHeld
  <2> QED BY <1>h, <1>r, <1>s, <2>1, <2>2, StatusTyped
<1>14. CASE StorageDone
  <2>1. Settle(mem, "storage") /\ handler.pc \in RunPcs /\ "storage" \in Results
    BY <1>14 DEF StorageDone, Answered, At, RunPcs, CallPcs, Results
  <2>2. handler.req.verb \notin {"create", "restore", "destroy"} \/ MadeHeld
    BY <1>14, <1>h DEF StorageDone, Answered, At, InPlace, MadeHeld, StorageVerbs
  <2> QED BY <1>h, <1>r, <1>s, <2>1, <2>2
<1>15. CASE StartLimited
  <2> DEFINE rec == [mem EXCEPT !.desired = "stopped"]
  <2>1. rec \in Record /\ SameJournal(rec, mem) /\ rec.deleted = mem.deleted /\ rec.token = mem.token
    BY <1>h DEF Record, SameJournal
  <2>2. Settle(rec, "limit") /\ handler.pc \in RunPcs /\ "limit" \in Results /\ At("launch")
    BY <1>15 DEF StartLimited, Answered, At, RunPcs, CallPcs, Results
  <2>3. handler.req.verb = "start"
    BY <2>2, <1>h DEF At, InPlace
  <2> HIDE DEF rec
  <2> QED BY <2>1, <2>2, <2>3, <1>s
<1>16. CASE Destroyed
  <2> DEFINE rec == [mem EXCEPT !.deleted = TRUE, !.token = 0]
  <2>1. rec \in Record /\ SameJournal(rec, mem) /\ rec.deleted
    BY <1>h DEF Record, SameJournal
  <2>2. Settle(rec, "destroyed") /\ handler.pc \in RunPcs /\ "destroyed" \in Results
    BY <1>16 DEF Destroyed, Answered, At, RunPcs, CallPcs, Results
  <2>3. ~machine.exists
    BY <1>16 DEF Destroyed, AnswerInv
  <2> HIDE DEF rec
  <2> QED BY <2>1, <2>2, <2>3, SettleImage
<1>17. CASE StartPrepares \/ StopBegins
  <2>1. SameLife(mem', mem) /\ UNCHANGED machine
    BY <1>17, <1>h, StartWrites, StopWrites DEF runtime
  <2>2. \/ handler' = Idle
        \/ \E pc \in {"launch", "settle", "stop"} : handler' = Goto(pc, handler.req)
    BY <1>17, <1>h, StartWrites, StopWrites
  <2> QED BY <2>1, <2>2, <1>r, <1>k DEF MadeHeld, Answered, At, Goto, Idle
<1>18. CASE RuntimeFails
  <2>1. UNCHANGED mem /\ SameImage(machine', machine) /\ Reply("error")
    BY <1>18, <1>h DEF RuntimeFails, Leftovers, SameImage, Machine, records
  <2>2. \/ UNCHANGED handler
        \/ handler'.pc = handler.pc /\ handler'.req = handler.req /\ handler'.reply = "error"
    BY <2>1, <1>h DEF Reply, HandlerOK
  <2>3. (MadeHeld' => Holds) /\ (At("probe")' => ~mem.deleted)
    BY <2>2 DEF ImageInv, MadeHeld, Answered, At
  <2> QED BY <2>1, <2>3, <1>r, SameLifeImage
<1>19. CASE OrphanCarriesOut
  BY <1>19 DEF OrphanCarriesOut, NoOrphans
<1>20. CASE EngineCrashes \/ HostRestarts
  <2>1. SameLife(mem', mem) /\ SameImage(machine', machine) /\ handler' = Idle
    BY <1>20, <1>h
    DEF EngineCrashes, HostRestarts, SameLife, SameJournal, SameImage, Record, Machine
  <2> QED BY <2>1, <1>k DEF MadeHeld, Answered, At, Idle
<1> QED
  BY <1>1, <1>2, <1>3, <1>4, <1>5, <1>6, <1>7, <1>8, <1>9, <1>10, <1>11, <1>12, <1>13, <1>14,
     <1>15, <1>16, <1>17, <1>18, <1>19, <1>20
  DEF Next, CallSteps, HandlerSteps, CreateSteps, StartSteps, StopSteps, StorageSteps, FaultSteps,
      GuestSteps

\* There is no record and no machine at first.
LEMMA ImageInit == Init => ImageInv
BY DEF Init, ImageInv, NoRecord, Live, MadeHeld, Answered, At, Idle

\* What both theorems of this section use.
LEMMA ImageAlways ==
    ASSUME ~FlushFaults, ~Orphans
    PROVE  Spec => []ImageInv
<1> DEFINE Inv == CoreInv /\ NoOrphans /\ AnswerInv /\ InStep /\ ImageInv
<1>1. Inv /\ [Next]_vars => Inv'
  BY CoreInvariant, NoOrphansInvariant, AnswerInvariant, InStepInvariant, ImageInvariant DEF CoreInv
<1>2. Init => Inv
  BY CoreInit, PlaceInit, AnswerInit, InStepInit, ImageInit
<1>3. Inv => ImageInv
  OBVIOUS
<1> HIDE DEF Inv
<1> QED BY <1>1, <1>2, <1>3, PTL DEF Spec

\* A deleted record is the tombstone of a machine that is gone: no create of a
\* retired incarnation, however late, puts a disk under it.
THEOREM TombstonesAreGone ==
    ASSUME ~FlushFaults, ~Orphans
    PROVE  Spec => []TombstoneIsGone
<1>1. ImageInv => TombstoneIsGone
  BY DEF ImageInv, TombstoneIsGone
<1> QED BY <1>1, ImageAlways, PTL

\* When nothing is unresolved the machine's identity image carries the token of its
\* record, wherever a restore or a create was interrupted and retried.
THEOREM SeedsMatch ==
    ASSUME ~FlushFaults, ~Orphans
    PROVE  Spec => []SeedMatches
<1>1. ImageInv => SeedMatches
  BY DEF ImageInv, SeedMatches, Live, Holds
<1> QED BY <1>1, ImageAlways, PTL

-----------------------------------------------------------------------------
(* Fences.                                                                 *)

\* What a step does to the record in memory: nothing that matters here, the intent
\* of an admissible request, the result of the request in hand, or the record of
\* the file after a crash.
Accepts ==
    /\ UNCHANGED runtime
    /\ \E r \in Requests :
          /\ Admissible(r, mem) /\ mem' = Accepted(r)
          /\ r.verb = "start" => ~mem.fenced

Settles ==
    /\ UNCHANGED runtime
    /\ handler.pc \in RunPcs
    /\ handler.req.verb = "fence" => Answered("storage", {"ok"})
    /\ \E rec \in Record, res \in Results :
          /\ SameJournal(rec, mem) /\ rec.fenced = mem.fenced
          /\ mem.deleted => rec.deleted
          /\ mem' = [rec EXCEPT !.result[handler.req] = res]

Reloads == SameLife(mem', disk) /\ handler' = Idle /\ queue' = <<>> /\ Decays(machine, machine')

RecordMoves == SameLife(mem', mem) \/ Accepts \/ Settles \/ Reloads

\* And to the file: it is in step again, or as it was, and then nothing new is
\* about to be launched.
FileMoves ==
    \/ disk' = mem'
    \/ SameLife(disk', disk) /\ (At("launch")' => At("launch"))

LEMMA RecordsMove ==
    ASSUME TypeOK, JournalInv, PlaceInv, [Next]_vars
    PROVE  RecordMoves /\ FileMoves
<1>h. /\ HandlerOK(handler) /\ mem \in Record /\ disk \in Record /\ machine \in Machine
      /\ RecordInv(mem) /\ Checked(handler, mem) /\ Running(handler, mem) /\ InPlace(handler)
  BY DEF TypeOK, JournalInv, PlaceInv
<1>r. /\ SameLife(mem, mem) /\ SameLife(disk, disk) /\ SameJournal(mem, mem)
      /\ Decays(machine, machine) /\ Decays(machine, [machine EXCEPT !.power = "off"])
  BY <1>h DEF SameLife, SameJournal, Decays, SameImage, Machine
<1>u. ASSUME UNCHANGED records, At("launch")' => At("launch") PROVE RecordMoves /\ FileMoves
  BY <1>u, <1>r DEF records, RecordMoves, FileMoves
<1>a. ASSUME NEW r \in Requests, Admissible(r, mem), r.verb = "start" => ~mem.fenced, Accept(r)
      PROVE  RecordMoves /\ FileMoves
  <2>1. Accepts
    BY <1>a DEF Accepts, Accept, Flush, Saved, FlushThrows
  <2>2. disk' = mem' \/ (UNCHANGED disk /\ handler' = Idle)
    BY <1>a DEF Accept, Flush, Saved, FlushThrows
  <2>3. FileMoves
    BY <2>2, <1>r DEF FileMoves, At, Idle
  <2> QED BY <2>1, <2>3 DEF RecordMoves
<1>s. ASSUME handler.pc \in RunPcs, handler.req.verb = "fence" => Answered("storage", {"ok"}),
             NEW rec \in Record, SameJournal(rec, mem), rec.fenced = mem.fenced,
             mem.deleted => rec.deleted, NEW res \in Results, Settle(rec, res)
      PROVE  RecordMoves /\ FileMoves
  <2>1. mem' = [rec EXCEPT !.result[handler.req] = res] /\ UNCHANGED runtime
    BY <1>s DEF Settle, Saved, FlushThrows
  <2>2. Settles
    BY <1>s, <2>1 DEF Settles
  <2>3. disk' = mem' \/ (UNCHANGED disk /\ handler' = Idle)
    BY <1>s DEF Settle, Saved, FlushThrows
  <2>4. FileMoves
    BY <2>3, <1>r DEF FileMoves, At, Idle
  <2> QED BY <2>2, <2>4 DEF RecordMoves
<1>1. CASE Receive
  <2> SUFFICES ASSUME NEW r \in Requests,
                      ReceiveProbed(r) \/ ReceiveNew(r) \/ ReceiveRetry(r) \/ ReceiveReplay(r)
               PROVE  RecordMoves /\ FileMoves
    BY <1>1 DEF Receive
  <2>1. CASE ReceiveProbed(r) \/ ReceiveRetry(r) \/ ReceiveReplay(r)
    BY <2>1, <1>u
    DEF ReceiveProbed, ReceiveRetry, ReceiveReplay, At, Goto, ProbePc, FirstPc
  <2>2. CASE ReceiveNew(r)
    <3>1. (r.verb = "start" => ~mem.fenced) /\ Accept(r)
      BY <2>2 DEF ReceiveNew, Acceptable, AcceptableChange
    <3>2. Admissible(r, mem)
      BY <2>2, <1>h, AcceptableAdmissible DEF ReceiveNew
    <3> QED BY <3>1, <3>2, <1>a
  <2> QED BY <2>1, <2>2
<1>2. CASE Read \/ CallSteps \/ CallFails \/ QuitCompletes \/ GuestReports \/ GuestGoesDown
  <2>1. UNCHANGED records
    BY <1>2
    DEF Read, ReadStarts, ReadObserves, ReadAnswers, CallSteps, CallLeaves, RuntimeCarriesOut,
        ProbeAnswers, CallFails, Rejects, QuitCompletes, GuestReports, GuestGoesDown, MachineStops
  <2>2. handler' = Idle \/ handler'.pc = handler.pc
    BY <1>2, <1>h
    DEF Read, ReadStarts, ReadObserves, ReadAnswers, CallSteps, CallLeaves, RuntimeCarriesOut, Reply,
        ProbeAnswers, CallFails, Rejects, QuitCompletes, GuestReports, GuestGoesDown, MachineStops,
        HandlerOK
  <2> QED BY <2>1, <2>2, <1>u DEF At, Idle
<1>3. CASE CreateVacated \/ CreateUnheld \/ ProbeRefuses \/ CreateDone \/ StartUncertain \/ Started
           \/ StopAsked \/ SettleAsked \/ SettlePolls \/ SettleFails \/ Settled \/ StorageRestored
  BY <1>3, <1>u
  DEF CreateVacated, CreateUnheld, ProbeRefuses, CreateDone, StartUncertain, Started, StopAsked,
      SettleAsked, SettlePolls, SettleFails, Settled, StorageRestored, Proceeds, Rejects, At, Goto, Idle
<1>4. CASE CreateAccepted \/ StorageAccepted
  <2>1. handler.pc \in CheckPcs /\ handler.req \in Requests /\ Accept(handler.req)
    BY <1>h, <1>4 DEF CreateAccepted, StorageAccepted, Answered, At, CheckPcs, HandlerOK
  <2>2. handler.req.verb # "start"
    BY <1>h, <1>4 DEF CreateAccepted, StorageAccepted, Answered, At, InPlace
  <2> QED BY <1>h, <2>1, <2>2, <1>a DEF Checked
<1>5. CASE Report
  <2>1. Settle(mem, Status(mem, handler.reply, {handler.req})) /\ handler.pc \in RunPcs
        /\ handler.req.verb # "fence"
    BY <1>5, <1>h DEF Report, At, RunPcs, InPlace
  <2> QED BY <1>h, <1>r, <1>s, <2>1, StatusTyped
<1>6. CASE StorageDone
  <2>1. Settle(mem, "storage") /\ handler.pc \in RunPcs /\ "storage" \in Results
    BY <1>6 DEF StorageDone, Answered, At, RunPcs, CallPcs, Results
  <2>2. handler.req.verb = "fence" => Answered("storage", {"ok"})
    BY <1>6, <1>h DEF StorageDone, Answered, At, InPlace
  <2> QED BY <1>h, <1>r, <1>s, <2>1, <2>2
<1>7. CASE StartLimited
  <2> DEFINE rec == [mem EXCEPT !.desired = "stopped"]
  <2>1. rec \in Record /\ SameJournal(rec, mem) /\ rec.deleted = mem.deleted /\ rec.fenced = mem.fenced
    BY <1>h DEF Record, SameJournal
  <2>2. Settle(rec, "limit") /\ handler.pc \in RunPcs /\ "limit" \in Results
        /\ handler.req.verb # "fence"
    BY <1>7, <1>h DEF StartLimited, Answered, At, RunPcs, CallPcs, Results, InPlace
  <2> HIDE DEF rec
  <2> QED BY <2>1, <2>2, <1>s
<1>8. CASE Destroyed
  <2> DEFINE rec == [mem EXCEPT !.deleted = TRUE, !.token = 0]
  <2>1. rec \in Record /\ SameJournal(rec, mem) /\ rec.deleted /\ rec.fenced = mem.fenced
    BY <1>h DEF Record, SameJournal
  <2>2. Settle(rec, "destroyed") /\ handler.pc \in RunPcs /\ "destroyed" \in Results
        /\ handler.req.verb # "fence"
    BY <1>8, <1>h DEF Destroyed, Answered, At, RunPcs, CallPcs, Results, InPlace
  <2> HIDE DEF rec
  <2> QED BY <2>1, <2>2, <1>s
<1>9. CASE StartPrepares \/ StopBegins
  <2>1. SameLife(mem', mem) /\ (disk' = mem' \/ (UNCHANGED disk /\ handler' = Idle))
    BY <1>9, <1>h, StartWrites, StopWrites
  <2> QED BY <2>1, <1>r DEF RecordMoves, FileMoves, At, Idle
<1>10. CASE RuntimeFails \/ CallTimesOut \/ SettleGivesUp \/ OrphanCarriesOut
  <2>1. UNCHANGED records /\ (handler' = Idle \/ handler'.pc = handler.pc)
    BY <1>10, <1>h
    DEF RuntimeFails, Reply, CallTimesOut, SettleGivesUp, OrphanCarriesOut, HandlerOK
  <2> QED BY <2>1, <1>u DEF At, Idle
<1>11. CASE LaterFlush
  BY <1>11, <1>r DEF LaterFlush, RecordMoves, FileMoves
<1>12. CASE EngineCrashes \/ HostRestarts
  <2>1. SameLife(mem', disk) /\ disk' = mem' /\ handler' = Idle /\ queue' = <<>>
    BY <1>12, <1>h DEF EngineCrashes, HostRestarts, SameLife, SameJournal, Record
  <2>2. Decays(machine, machine')
    BY <1>12, <1>r DEF EngineCrashes, HostRestarts
  <2> QED BY <2>1, <2>2 DEF RecordMoves, Reloads, FileMoves
<1>13. CASE HeartbeatHandled
  <2>1. SameLife(mem', mem) /\ (disk' = mem' \/ UNCHANGED disk) /\ UNCHANGED handler
    BY <1>13, <1>h DEF HeartbeatHandled, SameLife, SameJournal, Record, records
  <2> QED BY <2>1, <1>r DEF RecordMoves, FileMoves, At
<1>14. CASE HeartbeatAges
  <2>1. SameLife(mem', mem) /\ SameLife(disk', disk) /\ UNCHANGED handler
    BY <1>14, <1>h DEF HeartbeatAges, SameLife, SameJournal, Record
  <2> QED BY <2>1 DEF RecordMoves, FileMoves, At
<1>15. CASE UNCHANGED vars
  BY <1>15, <1>u DEF vars, records, At
<1> QED
  BY <1>1, <1>2, <1>3, <1>4, <1>5, <1>6, <1>7, <1>8, <1>9, <1>10, <1>11, <1>12, <1>13, <1>14, <1>15
  DEF Next, HandlerSteps, CreateSteps, StartSteps, StopSteps, StorageSteps, FaultSteps, GuestSteps

\* What a record says of its fences.  Nothing in the journal is of a later generation;
\* the record of an incarnation that accepted a fence is fenced, and a fenced record
\* has no start to make.
Fences(rec) == {r \in rec.ops : r.verb = "fence" /\ r.gen >= rec.inc}

FenceRecord(rec) ==
    /\ \A q \in rec.ops : q.gen <= rec.gen
    /\ Fences(rec) # {} => rec.fenced
    /\ rec.fenced => \A r \in Pending(rec) : r.verb # "start"

\* A fence of this incarnation was answered.
FencedBy(rec) == \E r \in Fences(rec) : rec.result[r] # "none"

LEMMA SameLifeFence ==
    ASSUME NEW rec, NEW old, SameLife(rec, old)
    PROVE  /\ FenceRecord(old) => FenceRecord(rec)
           /\ FencedBy(rec) = FencedBy(old) /\ Live(rec) = Live(old)
<1>1. Pending(rec) = Pending(old) /\ Fences(rec) = Fences(old)
  BY DEF SameLife, SameJournal, Pending, Fences
<1> QED BY <1>1 DEF SameLife, SameJournal, FenceRecord, FencedBy, Live

\* An intent leaves such a record, and was no fence that is answered yet.
LEMMA AcceptedFence ==
    ASSUME mem \in Record, RecordInv(mem), minted \in Nat, FenceRecord(mem),
           NEW r \in Requests, Admissible(r, mem), r.verb = "start" => ~mem.fenced
    PROVE  /\ FenceRecord(Accepted(r))
           /\ Live(Accepted(r)) /\ FencedBy(Accepted(r)) => Live(mem) /\ FencedBy(mem)
<1> DEFINE new == Accepted(r)
<1>h. /\ r \notin mem.ops /\ mem.result[r] = "none" /\ r.gen \in Nat /\ mem.gen \in Nat
      /\ mem.inc \in Nat /\ mem.ops \subseteq Requests /\ mem.fenced \in BOOLEAN
      /\ r.gen >= mem.gen
  BY RequestTyped DEF Admissible, RecordInv, Record
<1>0. \A q \in mem.ops : q.gen \in Nat
  BY <1>h, RequestTyped
<1>1. Pending(new) = {r}
  BY AcceptedInv
<1>2. new.ops = mem.ops \cup {r} /\ new.result = mem.result /\ new.gen = r.gen
  BY DEF Accepted, Created, Journalled, Fenced, Rotated, Record
<1>3. \A q \in new.ops : q.gen <= new.gen
  BY <1>h, <1>0, <1>2 DEF FenceRecord
<1>4. CASE r.verb = "create"
  <2>1. new = Created(r)
    BY <1>4 DEF Accepted
  <2>2. ~new.fenced /\ new.inc = (IF mem.exists THEN r.gen ELSE 0)
    BY <2>1 DEF Created
  <2> HIDE DEF new
  <2>3. Fences(new) = {}
    <3> SUFFICES ASSUME NEW q \in Fences(new) PROVE FALSE
      OBVIOUS
    <3>1. q \in mem.ops /\ q.gen >= new.inc
      BY <1>2, <1>4 DEF Fences
    <3>2. mem.exists /\ r.gen > mem.gen
      BY <3>1, <1>4 DEF RecordInv, Admissible
    <3> QED BY <1>h, <1>0, <2>2, <3>1, <3>2 DEF FenceRecord
  <2> QED BY <1>1, <1>3, <1>4, <2>2, <2>3 DEF FenceRecord, FencedBy, new
<1>5. CASE r.verb # "create"
  <2>1. /\ new.inc = mem.inc /\ new.exists = mem.exists /\ new.deleted = mem.deleted
        /\ new.fenced = (mem.fenced \/ r.verb = "fence")
    BY <1>5, <1>h DEF Accepted, Journalled, Fenced, Rotated, Record
  <2> HIDE DEF new
  <2>2. \A q \in Fences(new) : q \in Fences(mem) \/ (q = r /\ r.verb = "fence")
    BY <1>2, <2>1 DEF Fences
  <2>3. Fences(new) # {} => new.fenced
    BY <2>1, <2>2 DEF FenceRecord
  <2>4. new.fenced => \A q \in Pending(new) : q.verb # "start"
    BY <1>1, <2>1
  <2>5. Live(new) /\ FencedBy(new) => Live(mem) /\ FencedBy(mem)
    <3> SUFFICES ASSUME Live(new), NEW q \in Fences(new), new.result[q] # "none"
                 PROVE  Live(mem) /\ FencedBy(mem)
      BY DEF FencedBy
    <3>1. q \in Fences(mem) /\ mem.result[q] # "none"
      BY <1>h, <1>2, <2>2
    <3> QED BY <2>1, <3>1 DEF Live, FencedBy
  <2> QED BY <1>3, <2>3, <2>4, <2>5 DEF FenceRecord, new
<1> QED BY <1>4, <1>5

\* So does a result, which is a fence's only if that is the request in hand.
LEMMA SettledFence ==
    ASSUME mem \in Record, NEW rec \in Record, SameJournal(rec, mem), rec.fenced = mem.fenced,
           mem.deleted => rec.deleted, NEW r \in Pending(mem), NEW res \in Results,
           FenceRecord(mem)
    PROVE  LET new == [rec EXCEPT !.result[r] = res]
           IN  /\ FenceRecord(new)
               /\ Live(new) => Live(mem)
               /\ FencedBy(new) => FencedBy(mem) \/ r.verb = "fence"
<1> DEFINE new == [rec EXCEPT !.result[r] = res]
<1>1. /\ new.ops = mem.ops /\ new.result = [mem.result EXCEPT ![r] = res]
      /\ new.fenced = mem.fenced /\ new.gen = mem.gen /\ new.inc = mem.inc
      /\ new.exists = mem.exists /\ new.deleted = rec.deleted
      /\ mem.result \in [Requests -> Results \cup {"none"}] /\ mem.ops \subseteq Requests
      /\ r \in mem.ops
  BY DEF Record, SameJournal, Pending
<1>2. res # "none"
  BY DEF Results, Statuses
<1> HIDE DEF new
<1>3. Fences(new) = Fences(mem) /\ Pending(new) \subseteq Pending(mem)
  BY <1>1, <1>2 DEF Fences, Pending
<1>4. FenceRecord(new)
  BY <1>1, <1>3 DEF FenceRecord
<1>5. Live(new) => Live(mem)
  BY <1>1 DEF Live
<1>6. ASSUME FencedBy(new) PROVE FencedBy(mem) \/ r.verb = "fence"
  <2>1. PICK q \in Fences(new) : new.result[q] # "none"
    BY <1>6 DEF FencedBy
  <2>2. CASE q = r
    BY <2>1, <2>2 DEF Fences
  <2>3. CASE q # r
    <3>1. mem.result[q] # "none"
      BY <1>1, <2>1, <2>3 DEF Fences
    <3> QED BY <1>3, <2>1, <3>1 DEF FencedBy
  <2> QED BY <2>2, <2>3
<1> QED BY <1>4, <1>5, <1>6 DEF new

\* A launch is about to be asked for, or under way.
Launching == At("launch") \/ \E i \in DOMAIN queue : queue[i].kind = "start"

\* An answered fence means that QEMU is gone, by the record in memory and by the one
\* in the file, which may lag behind: no launch of a start that the file forgot is
\* under way.
FenceInv ==
    /\ FenceRecord(mem) /\ FenceRecord(disk)
    /\ \A rec \in {mem, disk} : Live(rec) /\ FencedBy(rec) => machine.power = "off"
    /\ Live(disk) /\ FencedBy(disk) => ~Launching

\* Launching is only begun with the file in step.
LEMMA LaunchingMoves ==
    ASSUME TypeOK, PlaceInv, FileMoves, [Next]_vars, Launching'
    PROVE  Launching \/ disk' = mem'
<1>h. HandlerOK(handler) /\ queue \in Seq(CallType) /\ InPlace(handler)
  BY DEF TypeOK, PlaceInv
<1>1. CASE At("launch")'
  BY <1>1 DEF FileMoves, Launching
<1>2. CASE \E i \in DOMAIN queue' : queue'[i].kind = "start"
  <2>1. CASE CallLeaves
    <3> DEFINE c == Call(CallKind, handler.req, mem.token)
    <3>1. queue' = Append(queue, c) /\ handler.pc \in CallPcs /\ handler.req \in Requests
      BY <2>1, <1>h DEF CallLeaves, HandlerOK, CallPcs
    <3>2. handler.req.verb \in Verbs
      BY <3>1, RequestTyped
    <3>3. c.kind = "start" => At("launch")
      BY <3>1, <3>2, <1>h DEF Call, CallKind, At, InPlace, CallPcs, StorageVerbs
    <3>4. c \in CallType \/ ~(CallKind \in CallKinds)
      BY <3>1 DEF Call, CallType, TypeOK, Record
    <3>5. CallKind \in CallKinds
      BY <3>1, <3>2 DEF CallKind, CallKinds, CallPcs, At, Verbs, LifecycleVerbs, StorageVerbs
    <3> HIDE DEF c
    <3> QED BY <1>2, <1>h, <3>1, <3>3, <3>4, <3>5, AppendToQueue DEF Launching
  <2>2. CASE queue' = Tail(queue) /\ queue # <<>>
    BY <1>2, <1>h, <2>2, TailOfQueue DEF Launching
  <2>3. CASE UNCHANGED queue
    BY <1>2, <2>3 DEF Launching
  <2>4. CASE queue' = <<>>
    BY <1>2, <2>4
  <2> QED BY <2>1, <2>2, <2>3, <2>4, QueueMoves
<1> QED BY <1>1, <1>2 DEF Launching

\* Whatever is being launched belongs to a start that is unresolved in memory.
LEMMA LaunchingPending ==
    ASSUME CoreInv, Launching
    PROVE  \E r \in Pending(mem) : r.verb = "start"
<1>1. CASE At("launch")
  <2>1. handler.req \in Pending(mem) /\ handler.req.verb = "start"
    BY <1>1 DEF CoreInv, JournalInv, Running, RunPcs, CallPcs, PlaceInv, InPlace, At
  <2> QED BY <2>1
<1>2. CASE \E i \in DOMAIN queue : queue[i].kind = "start"
  <2>1. PICK i \in DOMAIN queue : queue[i].kind = "start"
    BY <1>2
  <2>2. queue[i].req \in Pending(mem) /\ Fits(queue[i])
    BY <2>1 DEF CoreInv, CallInv, PlaceInv
  <2> QED BY <2>1, <2>2, FitsVerb
<1> QED BY <1>1, <1>2 DEF Launching

\* FenceInv is inductive where a supervisor dies with its engine.
LEMMA FenceInvariant ==
    ASSUME CoreInv, CoreInv', NoOrphans, AnswerInv, FenceInv, [Next]_vars
    PROVE  FenceInv'
<1>h. /\ mem \in Record /\ disk \in Record /\ minted \in Nat /\ machine \in Machine
      /\ queue \in Seq(CallType) /\ RecordInv(mem) /\ FenceRecord(mem) /\ FenceRecord(disk)
  BY DEF CoreInv, TypeOK, JournalInv, FenceInv
<1>1. RecordMoves /\ FileMoves
  BY RecordsMove DEF CoreInv
<1>2. FenceRecord(mem)'
  <2>1. CASE SameLife(mem', mem) \/ SameLife(mem', disk)
    BY <1>h, <2>1, SameLifeFence
  <2>2. CASE Accepts
    BY <1>h, <2>2, AcceptedFence DEF Accepts
  <2>3. CASE Settles
    <3>1. handler.req \in Pending(mem)
      BY <2>3 DEF Settles, CoreInv, JournalInv, Running
    <3> QED BY <1>h, <2>3, <3>1, SettledFence DEF Settles
  <2> QED BY <1>1, <2>1, <2>2, <2>3 DEF RecordMoves, Reloads
<1>3. FenceRecord(disk)'
  BY <1>1, <1>2, <1>h, SameLifeFence DEF FileMoves
<1>4. ASSUME machine.power = "off", machine'.power # "off"
      PROVE  Launching /\ (\E r \in Pending(mem) : r.verb = "start") /\ UNCHANGED mem
  <2>1. /\ RuntimeCarriesOut /\ UNCHANGED mem /\ Head(queue).kind = "start"
        /\ Head(queue).req \in Pending(mem) /\ Head(queue).req.verb = "start"
    BY <1>4, LaunchPending
  <2>2. 1 \in DOMAIN queue /\ Head(queue) = queue[1]
    BY <1>h, <2>1, EmptySeq, LenProperties DEF RuntimeCarriesOut
  <2> QED BY <2>1, <2>2 DEF Launching
<1>5. ASSUME Live(mem'), FencedBy(mem') PROVE machine'.power = "off"
  <2>1. CASE SameLife(mem', mem)
    <3>1. Live(mem) /\ FencedBy(mem)
      BY <1>5, <2>1, SameLifeFence
    <3>2. machine.power = "off"
      BY <3>1 DEF FenceInv
    <3>3. \A r \in Pending(mem) : r.verb # "start"
      BY <1>h, <3>1 DEF FencedBy, FenceRecord
    <3> QED BY <1>4, <3>2, <3>3
  <2>2. CASE Accepts
    <3>1. PICK r \in Requests : /\ Admissible(r, mem) /\ mem' = Accepted(r)
                                /\ r.verb = "start" => ~mem.fenced
      BY <2>2 DEF Accepts
    <3>2. Live(mem) /\ FencedBy(mem)
      BY <1>5, <1>h, <3>1, AcceptedFence
    <3> QED BY <2>2, <3>2 DEF Accepts, FenceInv, runtime
  <2>3. CASE Settles
    <3>1. PICK rec \in Record, res \in Results :
               /\ SameJournal(rec, mem) /\ rec.fenced = mem.fenced /\ (mem.deleted => rec.deleted)
               /\ mem' = [rec EXCEPT !.result[handler.req] = res]
      BY <2>3 DEF Settles
    <3>2. handler.req \in Pending(mem)
      BY <2>3 DEF Settles, CoreInv, JournalInv, Running
    <3>3. Live(mem) /\ (FencedBy(mem) \/ handler.req.verb = "fence")
      BY <1>5, <1>h, <3>1, <3>2, SettledFence
    <3>4. machine.power = "off"
      BY <2>3, <3>3 DEF Settles, FenceInv, AnswerInv
    <3> QED BY <2>3, <3>4 DEF Settles, runtime
  <2>4. CASE Reloads
    <3>1. Live(disk) /\ FencedBy(disk)
      BY <1>5, <2>4, SameLifeFence DEF Reloads
    <3> QED BY <2>4, <3>1 DEF Reloads, Decays, FenceInv
  <2> QED BY <1>1, <2>1, <2>2, <2>3, <2>4 DEF RecordMoves
<1>6. ASSUME Live(disk'), FencedBy(disk') PROVE machine'.power = "off" /\ ~Launching'
  <2>1. CASE disk' = mem'
    <3>1. machine'.power = "off"
      BY <1>5, <1>6, <2>1
    <3>2. \A r \in Pending(mem') : r.verb # "start"
      BY <1>2, <1>6, <2>1 DEF FencedBy, FenceRecord
    <3>3. ~Launching'
      <4> SUFFICES ASSUME Launching' PROVE FALSE
        OBVIOUS
      <4>1. (\E r \in Pending(mem) : r.verb = "start")'
        BY LaunchingPending, PTL
      <4> QED BY <3>2, <4>1 DEF Pending
    <3> QED BY <3>1, <3>3
  <2>2. CASE disk' # mem'
    <3>1. Live(disk) /\ FencedBy(disk)
      BY <1>1, <1>6, <2>2, SameLifeFence DEF FileMoves
    <3>2. machine.power = "off" /\ ~Launching
      BY <3>1 DEF FenceInv
    <3>3. machine'.power = "off"
      BY <1>4, <3>2
    <3>4. ~Launching'
      BY <1>1, <2>2, <3>2, LaunchingMoves DEF CoreInv
    <3> QED BY <3>3, <3>4
  <2> QED BY <2>1, <2>2
<1>7. (Live(mem) /\ FencedBy(mem) => machine.power = "off")'
  BY <1>5
<1>8. (Live(disk) /\ FencedBy(disk) => machine.power = "off" /\ ~Launching)'
  BY <1>6
<1> QED BY <1>2, <1>3, <1>7, <1>8 DEF FenceInv

\* Nothing is fenced at first.
LEMMA FenceInit == Init => FenceInv
BY DEF Init, FenceInv, FenceRecord, Fences, NoRecord, Live, Pending

\* Where a supervisor dies with its engine, an answered fence is evidence that QEMU
\* is gone and stays gone until the machine is destroyed, whatever else is asked of
\* it, whatever is retried, abandoned or crashes and whatever flush throws.
THEOREM FencesHold ==
    ASSUME ~Orphans
    PROVE  Spec => []FenceIsStopEvidence
<1> DEFINE Inv == CoreInv /\ NoOrphans /\ AnswerInv /\ FenceInv
<1>1. Inv /\ [Next]_vars => Inv'
  BY CoreInvariant, NoOrphansInvariant, AnswerInvariant, FenceInvariant DEF CoreInv
<1>2. Init => Inv
  BY CoreInit, PlaceInit, AnswerInit, FenceInit
<1>3. Inv => FenceIsStopEvidence
  <2> SUFFICES ASSUME Inv, ~mem.deleted, NEW r \in mem.ops, r.verb = "fence", r.gen >= mem.inc,
                      mem.result[r] # "none"
               PROVE  machine.power = "off"
    BY DEF FenceIsStopEvidence
  <2>1. FencedBy(mem)
    BY DEF FencedBy, Fences
  <2>2. Live(mem)
    BY DEF Live, CoreInv, JournalInv, RecordInv
  <2> QED BY <2>1, <2>2 DEF FenceInv
<1> HIDE DEF Inv
<1> QED BY <1>1, <1>2, <1>3, PTL DEF Spec

\* Where a supervisor may outlive its engine, but the machine is never destroyed, the
\* runner's own flag does it: an answered fence has sealed the machine.
SealedBy(rec) == \E r \in Requests : r.verb = "fence" /\ rec.result[r] # "none"

SealInv ==
    /\ SealedBy(mem) \/ SealedBy(disk) => Sealed(machine)
    /\ Answered("storage", {"ok"}) /\ handler.req.verb = "fence" => Sealed(machine)

NeverDestroyed == \A r \in Requests : r.verb # "destroy"

\* No step breaks a seal then, not even a call of a supervisor left behind.
LEMMA SealedMoves ==
    ASSUME NeverDestroyed, TypeOK, PlaceInv, Sealed(machine), [Next]_vars
    PROVE  Sealed(machine')
<1>h. machine \in Machine /\ queue \in Seq(CallType) /\ orphans \subseteq CallType
  BY DEF TypeOK
<1>c. ASSUME NEW c \in CallType, Fits(c), NEW o \in Outcomes(c.kind, machine, c.token, c.req.flag)
      PROVE  Sealed(o.machine)
  <2>1. c.kind # "destroy"
    BY <1>c, FitsVerb DEF CallType, NeverDestroyed
  <2> QED BY <1>h, <2>1, SealedStays
<1>1. CASE RuntimeCarriesOut
  <2> DEFINE c == Head(queue)
  <2>1. PICK o \in Outcomes(c.kind, machine, c.token, c.req.flag) : machine' = o.machine
    BY <1>1 DEF RuntimeCarriesOut, CarryOut
  <2>2. 1 \in DOMAIN queue /\ c = queue[1] /\ c \in CallType
    BY <1>1, <1>h, EmptySeq, LenProperties DEF RuntimeCarriesOut
  <2>3. Fits(c)
    BY <2>2 DEF PlaceInv
  <2> HIDE DEF c
  <2> QED BY <1>c, <2>1, <2>2, <2>3
<1>2. CASE OrphanCarriesOut
  <2>1. PICK c \in orphans : \E o \in Outcomes(c.kind, machine, c.token, c.req.flag) :
                                 machine' = o.machine
    BY <1>2 DEF OrphanCarriesOut, CarryOut
  <2>2. c \in CallType /\ Fits(c)
    BY <1>h DEF PlaceInv
  <2> QED BY <1>c, <2>1, <2>2
<1>3. CASE ~RuntimeCarriesOut /\ ~OrphanCarriesOut
  BY <1>3, MachineDecays DEF Decays, SameImage, Sealed
<1> QED BY <1>1, <1>2, <1>3

\* SealInv is inductive then, whatever fails and whatever outlives its engine.
LEMMA SealInvariant ==
    ASSUME NeverDestroyed, CoreInv, SealInv, [Next]_vars
    PROVE  SealInv'
<1>h. /\ HandlerOK(handler) /\ machine \in Machine /\ mem \in Record
  BY DEF CoreInv, TypeOK
<1>0. RecordMoves /\ FileMoves
  BY RecordsMove DEF CoreInv
<1>m. Sealed(machine) => Sealed(machine')
  BY SealedMoves DEF CoreInv
<1>1. ASSUME SealedBy(mem') PROVE Sealed(machine')
  <2>1. CASE SameLife(mem', mem) \/ Reloads
    BY <1>1, <1>m, <2>1 DEF Reloads, SameLife, SameJournal, SealedBy, SealInv
  <2>2. CASE Accepts
    <3>1. mem'.result = mem.result
      BY <1>h, <2>2 DEF Accepts, Accepted, Created, Journalled, Fenced, Rotated, Record
    <3> QED BY <1>1, <1>m, <3>1 DEF SealedBy, SealInv
  <2>3. CASE Settles
    <3>1. PICK rec \in Record, res \in Results :
               SameJournal(rec, mem) /\ mem' = [rec EXCEPT !.result[handler.req] = res]
      BY <2>3 DEF Settles
    <3>2. mem'.result = [mem.result EXCEPT ![handler.req] = res]
          /\ mem.result \in [Requests -> Results \cup {"none"}]
      BY <1>h, <3>1 DEF Record, SameJournal
    <3>3. SealedBy(mem) \/ handler.req.verb = "fence"
      BY <1>1, <3>2 DEF SealedBy
    <3> QED BY <1>m, <2>3, <3>3 DEF Settles, SealInv
  <2> QED BY <1>0, <2>1, <2>2, <2>3 DEF RecordMoves
<1>2. ASSUME SealedBy(disk') PROVE Sealed(machine')
  BY <1>0, <1>1, <1>2, <1>m DEF FileMoves, SameLife, SameJournal, SealedBy, SealInv
<1>3. ASSUME Answered("storage", {"ok"})', handler'.req.verb = "fence" PROVE Sealed(machine')
  <2>1. CASE UNCHANGED handler
    BY <1>3, <1>m, <2>1 DEF Answered, At, SealInv
  <2>2. CASE RuntimeCarriesOut /\ handler' # handler
    <3>1. /\ handler'.pc = handler.pc /\ handler'.req = handler.req
          /\ \E o \in Outcomes(CallKind, machine, mem.token, handler.req.flag) :
                machine' = o.machine /\ handler'.reply = o.reply
      BY <2>2, LastAnswer DEF CoreInv
    <3>2. CallKind = "fence"
      BY <1>3, <3>1 DEF CallKind, Answered, At
    <3> QED BY <1>3, <1>h, <3>1, <3>2, FenceOutcome DEF Answered, Sealed
  <2>3. CASE RuntimeFails
    BY <1>3, <1>h, <1>m, <2>3 DEF RuntimeFails, Reply, Answered, At, SealInv, HandlerOK
  <2>4. CASE ProbeAnswers
    BY <1>3, <1>h, <2>4 DEF ProbeAnswers, Answered, At, ProbePcs, HandlerOK
  <2>5. CASE handler'.reply \in {"none", "sent"}
    BY <1>3, <2>5 DEF Answered
  <2> QED BY <2>1, <2>2, <2>3, <2>4, <2>5, HandlerMoves DEF CoreInv
<1>4. (SealedBy(mem) \/ SealedBy(disk) => Sealed(machine))'
  BY <1>1, <1>2
<1>5. (Answered("storage", {"ok"}) /\ handler.req.verb = "fence" => Sealed(machine))'
  BY <1>3
<1> QED BY <1>4, <1>5 DEF SealInv

\* Nothing was answered at first.
LEMMA SealInit == Init => SealInv
BY DEF Init, SealInv, SealedBy, NoRecord, Answered, At, Idle

\* Where supervisors may outlive their engine, an answered fence still is stop
\* evidence for a machine that is never destroyed: a launch that was left behind meets
\* the runner's flag.
THEOREM FencesOutliveEngines ==
    ASSUME NeverDestroyed
    PROVE  Spec => []FenceIsStopEvidence
<1> DEFINE Inv == CoreInv /\ SealInv
<1>1. Inv /\ [Next]_vars => Inv'
  BY CoreInvariant, SealInvariant
<1>2. Init => Inv
  BY CoreInit, SealInit
<1>3. Inv => FenceIsStopEvidence
  BY DEF CoreInv, TypeOK, Record, SealInv, SealedBy, Sealed, FenceIsStopEvidence
<1> HIDE DEF Inv
<1> QED BY <1>1, <1>2, <1>3, PTL DEF Spec

-----------------------------------------------------------------------------
(* Ready (HostApiReady): no boot that the record has disowned makes the    *)
(* machine ready.                                                          *)

\* A report that the engine would accept.
Ours(b) == mem.token # 0 /\ b.cred = mem.token

\* A boot id is one of those the record lists, or of a launch since.
Current(n) == n \in mem.previous \/ (disowned < n /\ n <= machine.boot)

RecordCurrent == mem.boot_id = 0 \/ Current(mem.boot_id)

\* Tokens are counted from 1, and nothing carries one that was not minted.
MintInv ==
    /\ mem.token <= minted /\ machine.seed <= minted /\ machine.cred <= minted
    /\ \A b \in beats : b.cred <= minted
    /\ disowned \in Nat /\ disowned <= machine.boot

\* What the record holds of a guest, and what a report on its way would make of it, is
\* of a launch since or listed.  A machine that is off has been heard: what is listed
\* when a boot is prepared are the boot ids of every report that is still on its way.
HeardInv ==
    /\ RecordCurrent
    /\ mem.token # 0 /\ machine.cred = mem.token /\ machine.power # "off" => disowned < machine.boot
    /\ \A b \in beats : Ours(b) => Current(b.boot)
    /\ machine.power = "off" => \A b \in beats : Ours(b) => Heard(b)
    /\ \A b, c \in beats : b = c

\* A start that was told "stopped" prepares its boot while the machine is off.
PrepareInv == Answered("prepare", {"stopped"}) => machine.power = "off" /\ queue = <<>>

GuestInv == MintInv /\ HeardInv

\* A change of the record that tells nothing new of the guest.
SameGuest(rec, old) ==
    /\ rec.boot_id = old.boot_id /\ rec.previous = old.previous /\ rec.prepared = old.prepared
    /\ rec.token \in {old.token, 0}

\* Such a change, with a machine that is not launched, disowns nothing.
LEMMA SameGuestInv ==
    ASSUME CoreInv, GuestInv, Disowns, SameGuest(mem', mem), UNCHANGED minted,
           SameBoot(machine', machine), machine'.seed \in {machine.seed, mem.token, 0},
           beats' \subseteq beats,
           machine.power = "off" => machine'.power = "off",
           machine'.power = "off" => machine.power = "off" \/ \A b \in beats' : Heard(b)
    PROVE  GuestInv'
<1>h. mem.token \in Nat /\ minted \in Nat /\ machine.boot \in Nat
  BY DEF CoreInv, TypeOK, Record, Machine
<1>1. disowned' = disowned
  BY DEF Disowns, StartsAnew, SameGuest
<1>2. MintInv'
  BY <1>h, <1>1 DEF GuestInv, MintInv, SameGuest, SameBoot
<1>3. /\ \A b : Ours(b)' => Ours(b)
      /\ \A b : Heard(b)' = Heard(b)
      /\ \A n : Current(n)' = Current(n)
  BY <1>1 DEF SameGuest, SameBoot, Ours, Heard, Current
<1>4. RecordCurrent'
  BY <1>1 DEF GuestInv, HeardInv, RecordCurrent, Current, SameGuest, SameBoot
<1>5. /\ mem'.token # 0 /\ machine'.cred = mem'.token /\ machine'.power # "off"
         => disowned' < machine'.boot
      /\ \A b \in beats' : Ours(b)' => Current(b.boot)'
      /\ machine'.power = "off" => \A b \in beats' : Ours(b)' => Heard(b)'
      /\ \A b, c \in beats' : b = c
  BY <1>1, <1>3 DEF GuestInv, HeardInv, SameGuest, SameBoot
<1>6. HeardInv'
  BY <1>4, <1>5 DEF HeardInv
<1> QED BY <1>2, <1>6 DEF GuestInv

\* So does a step that leaves machine and reports alone.
LEMMA QuietGuestInv ==
    ASSUME CoreInv, GuestInv, Disowns, SameGuest(mem', mem), UNCHANGED <<machine, beats, minted>>
    PROVE  GuestInv'
BY SameGuestInv DEF SameBoot

-----------------------------------------------------------------------------
(* The steps that matter.                                                  *)

\* An accepted create or restore disowns every report; any other request tells
\* nothing new.
LEMMA AcceptGuest ==
    ASSUME CoreInv, GuestInv, Disowns, NEW r \in Requests, Accept(r)
    PROVE  GuestInv'
<1>h. /\ mem \in Record /\ minted \in Nat /\ mem.token \in Nat /\ \A b \in beats : b.cred \in Nat
      /\ machine.seed \in Nat /\ machine.cred \in Nat /\ machine.boot \in Nat
  BY DEF CoreInv, TypeOK, Record, Machine
<1>1. mem' = Accepted(r) /\ UNCHANGED <<machine, beats>>
      /\ minted' = (IF Mints(r) THEN minted + 1 ELSE minted)
  BY DEF Accept, Flush, Saved, FlushThrows, runtime
<1>2. CASE Mints(r)
  <2>1. mem'.token = minted + 1 /\ mem'.boot_id = 0 /\ minted' = minted + 1
    BY <1>1, <1>2, <1>h DEF Mints, Accepted, Created, Journalled, Rotated, Record
  <2>2. disowned' = machine.boot
    BY <1>h, <2>1 DEF Disowns, StartsAnew
  <2>3. MintInv'
    BY <1>1, <1>h, <2>1, <2>2 DEF GuestInv, MintInv
  <2>4. (\A b \in beats : ~Ours(b)') /\ machine.cred # mem'.token
    BY <1>h, <2>1 DEF GuestInv, MintInv, Ours
  <2>5. HeardInv'
    BY <1>1, <2>1, <2>4 DEF GuestInv, HeardInv, RecordCurrent
  <2> QED BY <2>3, <2>5 DEF GuestInv
<1>3. CASE ~Mints(r)
  <2>1. SameGuest(mem', mem) /\ minted' = minted
    BY <1>1, <1>3, <1>h DEF Mints, Accepted, Journalled, Fenced, Record, SameGuest
  <2> QED BY <1>1, <2>1, QuietGuestInv
<1> QED BY <1>2, <1>3

\* A start prepares its boot once, when it has seen the machine stopped: the reports
\* still on their way have been heard, and are listed now.
LEMMA PrepareGuest ==
    ASSUME CoreInv, GuestInv, PrepareInv, Disowns, StartPrepares
    PROVE  GuestInv'
<1> DEFINE r == handler.req
<1>h. mem \in Record /\ machine.boot \in Nat /\ beats \subseteq [boot: Nat, cred: Nat] /\ r \in Requests
  BY DEF CoreInv, TypeOK, Machine, HandlerOK, StartPrepares, Answered, At
<1>1. UNCHANGED <<machine, beats, minted>>
  BY DEF StartPrepares, runtime, history
<1>2. CASE r \in mem.prepared \/ handler.reply # "stopped"
  <2>1. mem' = [mem EXCEPT !.desired = "running"]
    BY <1>2 DEF StartPrepares, Flush, Saved, FlushThrows
  <2>2. SameGuest(mem', mem)
    BY <1>h, <2>1 DEF SameGuest, Record
  <2> QED BY <1>1, <2>2, QuietGuestInv
<1>3. CASE r \notin mem.prepared /\ handler.reply = "stopped"
  <2>1. machine.power = "off"
    BY <1>3 DEF PrepareInv, StartPrepares, Answered
  <2>2. mem' = [BootRequested(mem, r) EXCEPT !.desired = "running"]
    BY <1>3 DEF StartPrepares, Flush, Saved, FlushThrows
  <2>3. /\ mem'.previous = mem.previous \cup ({mem.boot_id} \ {0}) /\ mem'.boot_id = 0
        /\ mem'.prepared = mem.prepared \cup {r} /\ mem'.token = mem.token
    BY <1>h, <2>2 DEF BootRequested, Record
  <2>4. disowned' = machine.boot
    BY <1>3, <2>3 DEF Disowns, StartsAnew
  <2>5. MintInv'
    BY <1>1, <1>h, <2>3, <2>4 DEF GuestInv, MintInv
  <2>6. ASSUME NEW b \in beats, Ours(b) PROVE b.boot \in mem'.previous
    <3>1. Heard(b) /\ Current(b.boot) /\ disowned \in Nat /\ b.boot \in Nat
      BY <1>h, <2>1, <2>6 DEF GuestInv, MintInv, HeardInv
    <3>2. b.boot # 0 \/ b.boot \in mem.previous
      BY <3>1 DEF Current
    <3> QED BY <2>3, <3>1, <3>2 DEF Heard
  <2>7. \A b : Ours(b)' = Ours(b)
    BY <2>3 DEF Ours
  <2>8. \A b \in beats' : Ours(b)' => Current(b.boot)' /\ Heard(b)'
    BY <1>1, <2>6, <2>7 DEF Current, Heard
  <2>9. HeardInv'
    BY <1>1, <2>1, <2>3, <2>8 DEF GuestInv, HeardInv, RecordCurrent
  <2> QED BY <2>5, <2>9 DEF GuestInv
<1> QED BY <1>2, <1>3

\* A machine is launched with a number that was never disowned.
LEMMA CarryGuest ==
    ASSUME CoreInv, GuestInv, Disowns, RuntimeCarriesOut
    PROVE  GuestInv'
<1>h. /\ machine \in Machine /\ machine.boot \in Nat /\ machine.cred \in Nat /\ mem \in Record
      /\ minted \in Nat
  BY DEF CoreInv, TypeOK, Machine
<1> DEFINE c == Head(queue)
<1>1. PICK o \in Outcomes(c.kind, machine, c.token, c.req.flag) :
            machine' = o.machine /\ beats' = Surviving(o.machine)
  BY DEF RuntimeCarriesOut, CarryOut
<1>2. c.kind \in CallKinds /\ c.token \in Nat /\ c.token = mem.token
  BY HeadPending DEF CallType, RuntimeCarriesOut
<1>3. UNCHANGED <<mem, minted>>
  BY DEF RuntimeCarriesOut, records, history
<1> HIDE DEF c
<1>4. beats' \subseteq beats /\ (machine'.power = "off" => \A b \in beats' : Heard(b))
  BY <1>1 DEF Surviving
<1>5. disowned' = disowned /\ (\A b : Ours(b)' = Ours(b)) /\ (\A b : Heard(b)' = Heard(b))
  BY <1>3 DEF Disowns, StartsAnew, Ours, Heard
<1>6. CASE machine' = machine
  BY <1>3, <1>4, <1>6, SameGuestInv DEF SameGuest, SameBoot
<1>7. CASE c.kind = "start" /\ machine' # machine
  <2>1. machine.power = "off" /\ machine' = Launch(machine)
    BY <1>h, <1>1, <1>7, StartOutcome
  <2>2. machine'.power = "on" /\ machine'.boot = machine.boot + 1 /\ machine'.cred = machine.seed
        /\ machine'.seed = machine.seed
    BY <1>h, <2>1 DEF Launch, Machine
  <2>3. MintInv'
    BY <1>h, <1>3, <1>4, <1>5, <2>2 DEF GuestInv, MintInv
  <2>4. mem.boot_id \in Nat /\ \A b \in beats : b.boot \in Nat
    BY DEF CoreInv, TypeOK, Record
  <2>5. \A n \in Nat : Current(n) => Current(n)'
    BY <1>h, <1>3, <1>5, <2>2 DEF Current
  <2>6. disowned' < machine'.boot
    BY <1>h, <1>5, <2>2 DEF GuestInv, MintInv
  <2>7. RecordCurrent'
    BY <1>3, <2>4, <2>5 DEF GuestInv, HeardInv, RecordCurrent
  <2>8. \A b \in beats' : Ours(b)' => Current(b.boot)'
    BY <1>4, <1>5, <2>4, <2>5 DEF GuestInv, HeardInv
  <2>9. HeardInv'
    BY <1>4, <2>2, <2>6, <2>7, <2>8 DEF GuestInv, HeardInv
  <2> QED BY <2>3, <2>9 DEF GuestInv
<1>8. CASE c.kind # "start"
  <2>1. SameBoot(machine', machine) /\ machine'.seed \in {machine.seed, mem.token, 0}
    BY <1>1, <1>2, <1>8, <1>h, NoLaunch
  <2>2. machine.power = "off" => machine'.power = "off"
    BY <1>1, <1>8, <1>h, OffStaysOff
  <2> QED BY <1>3, <1>4, <2>1, <2>2, SameGuestInv DEF SameGuest
<1> QED BY <1>6, <1>7, <1>8

\* Guests and machines.
LEMMA GuestStep ==
    ASSUME CoreInv, GuestInv, Disowns,
           GuestReports \/ HeartbeatHandled \/ HeartbeatAges \/ GuestGoesDown \/ QuitCompletes
    PROVE  GuestInv'
<1>h. /\ mem \in Record /\ machine \in Machine /\ machine.boot \in Nat
      /\ beats \subseteq [boot: Nat, cred: Nat]
  BY DEF CoreInv, TypeOK, Machine
<1>1. CASE GuestReports
  <2>0. PICK n : n = [boot |-> machine.boot, cred |-> machine.cred]
    OBVIOUS
  <2>1. /\ UNCHANGED <<mem, machine, minted>> /\ machine.power = "on"
        /\ beats' = {n} /\ n.boot = machine.boot /\ n.cred = machine.cred
    BY <1>1, <2>0 DEF GuestReports, records, runtime, history
  <2>2. disowned' = disowned
    BY <2>1 DEF Disowns, StartsAnew
  <2>3. MintInv'
    BY <2>1, <2>2 DEF GuestInv, MintInv
  <2>4. Ours(n)' => Current(n.boot)'
    BY <1>h, <2>1, <2>2 DEF GuestInv, MintInv, HeardInv, Ours, Current
  <2>5. HeardInv'
    BY <2>1, <2>2, <2>4 DEF GuestInv, HeardInv, RecordCurrent, Current
  <2> QED BY <2>3, <2>5 DEF GuestInv
<1>2. CASE HeartbeatHandled
  <2>1. PICK b \in beats :
           /\ beats' = beats \ {b}
           /\ IF mem.exists /\ mem.token # 0 /\ b.cred = mem.token
              THEN mem' = [mem EXCEPT !.boot_id = b.boot, !.fresh = TRUE]
              ELSE UNCHANGED mem
    BY <1>2 DEF HeartbeatHandled, records
  <2>2. beats' = {} /\ UNCHANGED <<machine, minted>>
    BY <1>2, <2>1 DEF GuestInv, HeardInv, HeartbeatHandled, runtime, history
  <2>3. CASE UNCHANGED mem
    BY <2>2, <2>3, SameGuestInv DEF SameGuest, SameBoot
  <2>4. CASE Ours(b) /\ mem' = [mem EXCEPT !.boot_id = b.boot, !.fresh = TRUE]
    <3>1. /\ mem'.boot_id = b.boot /\ mem'.previous = mem.previous /\ mem'.token = mem.token
          /\ mem'.prepared = mem.prepared
      BY <1>h, <2>4 DEF Record
    <3>2. disowned' = disowned
      BY <2>2, <3>1 DEF Disowns, StartsAnew
    <3>3. Current(b.boot)
      BY <2>4 DEF GuestInv, HeardInv
    <3>4. MintInv'
      BY <2>2, <3>1, <3>2 DEF GuestInv, MintInv
    <3>5. HeardInv'
      BY <2>2, <3>1, <3>2, <3>3 DEF GuestInv, HeardInv, RecordCurrent, Current
    <3> QED BY <3>4, <3>5 DEF GuestInv
  <2> QED BY <2>1, <2>3, <2>4 DEF Ours
<1>3. CASE HeartbeatAges
  <2>1. SameGuest(mem', mem) /\ UNCHANGED <<machine, beats, minted>>
    BY <1>3, <1>h DEF HeartbeatAges, SameGuest, Record, runtime, history
  <2> QED BY <2>1, QuietGuestInv
<1>4. CASE GuestGoesDown \/ QuitCompletes
  <2>1. /\ machine' = [machine EXCEPT !.power = "off"] /\ beats' = Surviving(machine')
        /\ UNCHANGED <<mem, minted>>
    BY <1>4 DEF GuestGoesDown, QuitCompletes, MachineStops, GuestPowersOff, ProcessExits, records, history
  <2>2. machine'.power = "off" /\ SameBoot(machine', machine) /\ machine'.seed = machine.seed
    BY <1>h, <2>1 DEF Machine, SameBoot
  <2>3. beats' = {b \in beats : Heard(b)}
    BY <2>1, <2>2 DEF Surviving
  <2> QED BY <2>1, <2>2, <2>3, SameGuestInv DEF SameGuest
<1> QED BY <1>1, <1>2, <1>3, <1>4

\* A crash forgets the reports on their way.
LEMMA CrashGuest ==
    ASSUME CoreInv, GuestInv, InStep, Disowns, EngineCrashes \/ HostRestarts
    PROVE  GuestInv'
<1>h. mem \in Record /\ machine \in Machine /\ disk = mem
  BY DEF CoreInv, TypeOK, InStep
<1>1. beats' = {} /\ UNCHANGED minted /\ SameGuest(mem', mem)
  BY <1>h DEF EngineCrashes, HostRestarts, history, SameGuest, Record
<1>2. /\ SameBoot(machine', machine) /\ machine'.seed = machine.seed
      /\ machine.power = "off" => machine'.power = "off"
  BY <1>h DEF EngineCrashes, HostRestarts, SameBoot, Machine
<1> QED BY <1>1, <1>2, SameGuestInv

\* GuestInv is inductive together with PrepareInv.
LEMMA GuestInvariant ==
    ASSUME CoreInv, InStep, NoOrphans, GuestInv, PrepareInv, Disowns, [Next]_vars
    PROVE  GuestInv'
<1>h. mem \in Record /\ HandlerOK(handler) /\ machine \in Machine
  BY DEF CoreInv, TypeOK
<1>u. ASSUME UNCHANGED <<mem, machine, beats, minted>> PROVE GuestInv'
  BY <1>u, QuietGuestInv DEF SameGuest
<1>s. ASSUME NEW rec \in Record, SameGuest(rec, mem), NEW res, Settle(rec, res) PROVE GuestInv'
  <2>1. SameGuest(mem', mem) /\ UNCHANGED <<machine, beats, minted>>
    BY <1>s DEF Settle, Saved, FlushThrows, runtime, SameGuest, Record
  <2> QED BY <2>1, QuietGuestInv
<1>1. CASE Receive
  <2> SUFFICES ASSUME NEW r \in Requests,
                      ReceiveProbed(r) \/ ReceiveNew(r) \/ ReceiveRetry(r) \/ ReceiveReplay(r)
               PROVE  GuestInv'
    BY <1>1 DEF Receive
  <2>1. CASE ReceiveProbed(r) \/ ReceiveRetry(r) \/ ReceiveReplay(r)
    BY <2>1, <1>u DEF ReceiveProbed, ReceiveRetry, ReceiveReplay, records, runtime, history
  <2>2. CASE ReceiveNew(r)
    BY <2>2, AcceptGuest DEF ReceiveNew
  <2> QED BY <2>1, <2>2
<1>2. CASE Read \/ CallLeaves \/ ProbeAnswers \/ CallFails
  BY <1>2, <1>u
  DEF Read, ReadStarts, ReadObserves, ReadAnswers, CallLeaves, ProbeAnswers, CallFails, Rejects,
      records, runtime, history
<1>3. CASE CreateVacated \/ CreateUnheld \/ ProbeRefuses \/ CreateDone \/ StartUncertain \/ Started
           \/ StopAsked \/ SettleAsked \/ SettlePolls \/ SettleFails \/ Settled \/ StorageRestored
  BY <1>3, <1>u
  DEF CreateVacated, CreateUnheld, ProbeRefuses, CreateDone, StartUncertain, Started, StopAsked,
      SettleAsked, SettlePolls, SettleFails, Settled, StorageRestored, Proceeds, Rejects,
      records, runtime, history
<1>4. CASE CreateAccepted \/ StorageAccepted
  <2>1. handler.req \in Requests /\ Accept(handler.req)
    BY <1>h, <1>4 DEF CreateAccepted, StorageAccepted, Answered, At, HandlerOK
  <2> QED BY <2>1, AcceptGuest
<1>5. CASE Report \/ StorageDone
  <2>1. SameGuest(mem, mem)
    BY DEF SameGuest
  <2> QED BY <1>5, <1>h, <1>s, <2>1 DEF Report, StorageDone
<1>6. CASE StartLimited
  <2> DEFINE rec == [mem EXCEPT !.desired = "stopped"]
  <2>1. rec \in Record /\ SameGuest(rec, mem)
    BY <1>h DEF Record, SameGuest
  <2>2. Settle(rec, "limit")
    BY <1>6 DEF StartLimited
  <2> HIDE DEF rec
  <2> QED BY <2>1, <2>2, <1>s
<1>7. CASE Destroyed
  <2> DEFINE rec == [mem EXCEPT !.deleted = TRUE, !.token = 0]
  <2>1. rec \in Record /\ SameGuest(rec, mem)
    BY <1>h DEF Record, SameGuest
  <2>2. Settle(rec, "destroyed")
    BY <1>7 DEF Destroyed
  <2> HIDE DEF rec
  <2> QED BY <2>1, <2>2, <1>s
<1>8. CASE StartPrepares
  BY <1>8, PrepareGuest
<1>9. CASE StopBegins
  <2>1. SameGuest(mem', mem) /\ UNCHANGED <<machine, beats, minted>>
    BY <1>9, <1>h DEF StopBegins, Flush, Saved, FlushThrows, runtime, history, SameGuest, Record
  <2> QED BY <2>1, QuietGuestInv
<1>10. CASE RuntimeCarriesOut
  BY <1>10, CarryGuest
<1>11. CASE RuntimeFails
  <2>1. /\ UNCHANGED <<mem, beats, minted>> /\ SameBoot(machine', machine)
        /\ machine'.seed = machine.seed /\ machine'.power = machine.power
    BY <1>11, <1>h DEF RuntimeFails, Leftovers, Machine, SameBoot, records, history
  <2> QED BY <2>1, SameGuestInv DEF SameGuest
<1>12. CASE CallTimesOut \/ SettleGivesUp \/ OrphanCarriesOut \/ LaterFlush
  BY <1>12, <1>u
  DEF CallTimesOut, SettleGivesUp, OrphanCarriesOut, NoOrphans, LaterFlush, records, runtime, history
<1>13. CASE EngineCrashes \/ HostRestarts
  BY <1>13, CrashGuest
<1>14. CASE GuestSteps \/ QuitCompletes
  BY <1>14, GuestStep DEF GuestSteps
<1>15. CASE UNCHANGED vars
  BY <1>15, <1>u DEF vars
<1> QED
  BY <1>1, <1>2, <1>3, <1>4, <1>5, <1>6, <1>7, <1>8, <1>9, <1>10, <1>11, <1>12, <1>13, <1>14, <1>15
  DEF Next, CallSteps, HandlerSteps, CreateSteps, StartSteps, StopSteps, StorageSteps, FaultSteps

\* PrepareInv is inductive: "stopped" is only answered when nothing is under way, and
\* nothing leaves while a start still prepares.
LEMMA PrepareInvariant ==
    ASSUME CoreInv, NoOrphans, PrepareInv, [Next]_vars
    PROVE  PrepareInv'
<1>h. HandlerOK(handler) /\ machine \in Machine /\ TypeOK
  BY DEF CoreInv, TypeOK
<1> SUFFICES ASSUME Answered("prepare", {"stopped"})' PROVE (machine.power = "off" /\ queue = <<>>)'
  BY DEF PrepareInv
<1>1. CASE UNCHANGED handler
  <2>1. machine.power = "off" /\ queue = <<>> /\ At("prepare")
    BY <1>1 DEF PrepareInv, Answered, At
  <2>2. ~RuntimeCarriesOut /\ ~CallLeaves
    BY <2>1 DEF RuntimeCarriesOut, CallLeaves, CallPcs, At
  <2>3. machine'.power = "off"
    BY <1>h, <2>1, <2>2, MachineMoves DEF Decays
  <2>4. queue' = <<>>
    BY <2>1, <2>2, QueueMoves
  <2> QED BY <2>3, <2>4
<1>2. CASE handler'.reply \in {"none", "sent"}
  BY <1>2 DEF Answered
<1>3. CASE RuntimeCarriesOut /\ handler' # handler
  BY <1>3, LastAnswer DEF Answered, At, CallPcs, CoreInv
<1>4. CASE RuntimeFails /\ handler' # handler
  BY <1>4, <1>h DEF RuntimeFails, Reply, Answered, HandlerOK
<1>5. CASE ProbeAnswers
  <2>1. PICK s \in Observed(machine, queue # <<>>) \cup Evasive(machine) :
              handler' = [handler EXCEPT !.reply = s]
    BY <1>5 DEF ProbeAnswers
  <2>2. s = "stopped" /\ UNCHANGED <<machine, queue>>
    BY <1>5, <1>h, <2>1 DEF ProbeAnswers, Answered, HandlerOK, runtime
  <2>3. machine.power = "off" /\ queue = <<>>
    BY <1>h, <2>1, <2>2 DEF Observed, Evasive, Machine, Power
  <2> QED BY <2>2, <2>3
<1> QED BY <1>1, <1>2, <1>3, <1>4, <1>5, HandlerMoves DEF CoreInv

\* There is no guest at first.
LEMMA ReadyInit == Init /\ disowned = 0 => GuestInv /\ PrepareInv
BY DEF Init, GuestInv, MintInv, HeardInv, RecordCurrent, PrepareInv, NoRecord, NoMachine, Idle, At, Answered

\* Unless a flush throws or a supervisor outlives its engine, an answer that is ready
\* rests on a report of a launch later than any the record has disowned: no heartbeat,
\* however late, of a boot from before the last prepared start, restore or creation
\* makes the machine ready, whatever callers ask for and whatever guests do.
THEOREM ReadyMeansNotDisowned ==
    ASSUME ~FlushFaults, ~Orphans
    PROVE  ReadySpec => []ReadyIsNotDisowned
<1> DEFINE Inv == CoreInv /\ InStep /\ NoOrphans /\ GuestInv /\ PrepareInv
<1>1. Inv /\ [Next /\ Disowns]_<<vars, disowned>> => Inv'
  <2> SUFFICES ASSUME Inv, [Next /\ Disowns]_<<vars, disowned>> PROVE Inv'
    OBVIOUS
  <2>1. [Next]_vars
    OBVIOUS
  <2>2. Disowns
    <3>1. UNCHANGED <<vars, disowned>> => Disowns
      BY DEF vars, Disowns, StartsAnew
    <3> QED BY <3>1
  <2> QED BY <2>1, <2>2, CoreInvariant, InStepInvariant, NoOrphansInvariant, GuestInvariant, PrepareInvariant
<1>2. Init /\ disowned = 0 => Inv
  BY CoreInit, InStepInit, PlaceInit, ReadyInit
<1>3. Inv => ReadyIsNotDisowned
  BY DEF GuestInv, HeardInv, RecordCurrent, Current, ReadyIsNotDisowned, Ready
<1> HIDE DEF Inv
<1> QED BY <1>1, <1>2, <1>3, PTL DEF ReadySpec

===============================================================================
