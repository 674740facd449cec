---------------------------- MODULE LocalApiProofs ----------------------------
(***************************************************************************)
(* Theorems about LocalApi, for any number of ids and of requests served   *)
(* at the same time, and all bounds.                                       *)
(***************************************************************************)
EXTENDS LocalApi, HostRuntimeProofs, SequenceTheorems, FiniteSetTheorems

-----------------------------------------------------------------------------
(* Calls and outcomes *)

Entry == [by: Workers \cup {"nobody"}, kind: LocalKinds]

\* A call that takes its place in the line moves those behind it one back.
LEMMA InsertAtProperties ==
    ASSUME NEW S, NEW q \in Seq(S), NEW k \in 1..(Len(q) + 1), NEW e \in S
    PROVE  /\ InsertAt(q, k, e) \in Seq(S)
           /\ DOMAIN InsertAt(q, k, e) = 1..(Len(q) + 1)
           /\ \A j \in 1..(Len(q) + 1) :
                 InsertAt(q, k, e)[j] = IF j < k THEN q[j] ELSE IF j = k THEN e ELSE q[j - 1]
<1> DEFINE front == SubSeq(q, 1, k - 1)
           back  == SubSeq(q, k, Len(q))
           one   == <<e>>
           most  == front \o one
<1>0. Len(q) \in Nat /\ k \in Int /\ \A j \in 1..Len(q) : q[j] \in S
  BY LenProperties, ElementOfSeq
<1>1. /\ front \in Seq(S) /\ Len(front) = k - 1
      /\ \A j \in 1..(k - 1) : front[j] = q[j]
  <2>1. \A j \in 1..(k - 1) : q[j] \in S
    BY <1>0
  <2>2. /\ front \in Seq(S) /\ Len(front) = (IF 1 <= k - 1 THEN (k - 1) - 1 + 1 ELSE 0)
        /\ \A j \in 1..((k - 1) - 1 + 1) : front[j] = q[1 + j - 1]
    BY <1>0, <2>1, SubSeqProperties
  <2> HIDE DEF front
  <2> QED BY <1>0, <2>2
<1>2. /\ back \in Seq(S) /\ Len(back) = Len(q) - k + 1
      /\ \A j \in 1..(Len(q) - k + 1) : back[j] = q[k + j - 1]
  <2>1. \A j \in k..Len(q) : q[j] \in S
    BY <1>0
  <2>2. /\ back \in Seq(S) /\ Len(back) = (IF k <= Len(q) THEN Len(q) - k + 1 ELSE 0)
        /\ \A j \in 1..(Len(q) - k + 1) : back[j] = q[k + j - 1]
    BY <1>0, <2>1, SubSeqProperties
  <2> HIDE DEF back
  <2> QED BY <1>0, <2>2
<1>3. one \in Seq(S) /\ Len(one) = 1 /\ one[1] = e
  OBVIOUS
<1> HIDE DEF front, back, one
<1>4. /\ most \in Seq(S) /\ Len(most) = k
      /\ \A j \in 1..k : most[j] = IF j <= k - 1 THEN front[j] ELSE one[j - (k - 1)]
  <2>1. /\ most \in Seq(S) /\ Len(most) = Len(front) + Len(one)
        /\ \A j \in 1..Len(front) + Len(one) :
              most[j] = IF j <= Len(front) THEN front[j] ELSE one[j - Len(front)]
    BY <1>1, <1>3, ConcatProperties
  <2> HIDE DEF most
  <2>2. Len(front) + Len(one) = k
    BY <1>0, <1>1, <1>3
  <2> QED BY <1>1, <2>1, <2>2
<1> HIDE DEF most
<1>5. /\ most \o back \in Seq(S) /\ Len(most \o back) = Len(q) + 1
      /\ \A j \in 1..(Len(q) + 1) : (most \o back)[j] = IF j <= k THEN most[j] ELSE back[j - k]
  <2>1. /\ most \o back \in Seq(S) /\ Len(most \o back) = Len(most) + Len(back)
        /\ \A j \in 1..Len(most) + Len(back) :
              (most \o back)[j] = IF j <= Len(most) THEN most[j] ELSE back[j - Len(most)]
    BY <1>2, <1>4, ConcatProperties
  <2>2. Len(most) + Len(back) = Len(q) + 1
    BY <1>0, <1>2, <1>4
  <2> QED BY <1>4, <2>1, <2>2
<1>6. InsertAt(q, k, e) = most \o back
  BY DEF InsertAt, most, front, one, back
<1> DEFINE r == most \o back
<1>7. DOMAIN r = 1..(Len(q) + 1)
  BY <1>5, LenProperties
<1> HIDE DEF r
<1>8. ASSUME NEW j \in 1..(Len(q) + 1)
      PROVE  r[j] = IF j < k THEN q[j] ELSE IF j = k THEN e ELSE q[j - 1]
  <2>0. j <= k => j \in 1..k /\ r[j] = most[j]
    BY <1>0, <1>5 DEF r
  <2>1. CASE j < k
    <3>1. j \in 1..(k - 1) /\ j <= k - 1
      BY <1>0, <2>1
    <3>2. most[j] = front[j]
      BY <1>0, <1>4, <2>0, <3>1
    <3>3. front[j] = q[j]
      BY <1>1, <3>1
    <3> QED BY <1>0, <2>0, <2>1, <3>2, <3>3
  <2>2. CASE j = k
    <3>1. most[k] = one[1]
      <4>1. k \in 1..k /\ ~(k <= k - 1) /\ k - (k - 1) = 1
        BY <1>0
      <4> QED BY <1>4, <4>1
    <3> QED BY <1>0, <1>3, <2>0, <2>2, <3>1
  <2>3. CASE j > k
    <3>1. r[j] = back[j - k] /\ j - k \in 1..(Len(q) - k + 1) /\ k + (j - k) - 1 = j - 1
      BY <1>0, <1>5, <2>3 DEF r
    <3>2. back[j - k] = q[k + (j - k) - 1]
      BY <1>2, <3>1
    <3> QED BY <2>3, <3>1, <3>2, <1>0
  <2> QED BY <1>0, <2>1, <2>2, <2>3
<1> QED BY <1>5, <1>6, <1>7, <1>8 DEF r

\* The rest of a line.
LEMMA TailOfLine ==
    ASSUME NEW S, NEW q \in Seq(S), q # <<>>
    PROVE  /\ Tail(q) \in Seq(S) /\ Head(q) = q[1] /\ 1 \in DOMAIN q
           /\ \A j \in DOMAIN Tail(q) : j \in Nat \ {0} /\ j + 1 \in DOMAIN q /\ Tail(q)[j] = q[j + 1]
<1>1. /\ Tail(q) \in Seq(S) /\ Len(Tail(q)) = Len(q) - 1 /\ Len(q) \in Nat \ {0} /\ Head(q) = q[1]
      /\ \A j \in 1 .. Len(Tail(q)) : Tail(q)[j] = q[j + 1]
  BY HeadTailProperties, EmptySeq
<1>2. DOMAIN q = 1 .. Len(q) /\ DOMAIN Tail(q) = 1 .. Len(Tail(q))
  BY <1>1, LenProperties
<1> QED BY <1>1, <1>2

\* What the five make of a machine: only a create makes one, and a destroy that
\* succeeds leaves none.
LEMMA LocalOutcome ==
    ASSUME NEW m \in Machine, NEW kind \in LocalKinds, NEW o \in Outcomes(kind, m, 1, TRUE)
    PROVE  /\ o.machine \in Machine /\ o.reply \in CallReplies
           /\ o.machine.exists => m.exists \/ kind = "create"
           /\ kind = "destroy" /\ o.reply = "ok" => ~o.machine.exists
<1>1. kind \in CallKinds
  BY DEF LocalKinds, CallKinds
<1>2. o.machine \in Machine /\ o.reply \in CallReplies
  BY <1>1, OutcomesTyped
<1>3. CASE kind \in {"start", "shutdown", "force-stop"}
  <2>1. kind \in CallKinds \ {"create", "destroy", "reseed"}
    BY <1>1, <1>3
  <2>2. SameImage(o.machine, m)
    BY <2>1, ImageKept
  <2> QED BY <1>2, <1>3, <2>2 DEF SameImage
<1>4. CASE kind = "destroy"
  <2>1. o \in Outcomes("destroy", m, 1, TRUE)
    BY <1>4
  <2>2. IF o.reply = "ok" THEN ~o.machine.exists ELSE o.machine = m
    BY <2>1, DestroyOutcome
  <2> QED BY <1>2, <1>4, <2>2
<1>5. CASE kind = "create"
  BY <1>2, <1>5
<1> QED BY <1>3, <1>4, <1>5 DEF LocalKinds

-----------------------------------------------------------------------------
(* Types *)

WorkerType == [pc: Pcs, op: Ops, id: Ids \cup {"none"},
               reply: CallReplies \cup {"none", "running", "starting", "stopped", "unknown"},
               status: {"none", "ready", "booting", "starting", "stopped", "unknown"}]

TypeInv == LocalTypeOK /\ calls \in [Ids -> Seq(Entry)]

\* Wherever a worker goes it remains a worker.
LEMMA WorkerTyped ==
    ASSUME TypeInv, NEW w \in Workers
    PROVE  /\ worker \in [Workers -> WorkerType]
           /\ \A pc \in Pcs : Goto(w, pc) => worker' \in [Workers -> WorkerType]
           /\ \A i \in Ids \cup {"none"} : Describe(w, i) => worker' \in [Workers -> WorkerType]
           /\ Done(w) => worker' \in [Workers -> WorkerType]
           /\ \A by \in Workers \cup {"nobody"}, reply \in CallReplies :
                 worker' = Heard(by, reply) => worker' \in [Workers -> WorkerType]
           /\ \A op \in Ops, i \in Ids, pc \in Pcs :
                 Serve(w, op, i, pc) => worker' \in [Workers -> WorkerType]
<1>1. worker \in [Workers -> WorkerType]
  BY DEF TypeInv, LocalTypeOK, WorkerType
<1>2. Idle \in WorkerType
  BY DEF Idle, WorkerType, Pcs, Ops
<1>3. ASSUME NEW pc \in Pcs, Goto(w, pc) PROVE worker' \in [Workers -> WorkerType]
  <2> DEFINE x == [worker[w] EXCEPT !.pc = pc, !.reply = "none"]
  <2>1. x \in WorkerType
    BY <1>1 DEF WorkerType
  <2>2. worker' = [worker EXCEPT ![w] = x]
    BY <1>3, <1>1 DEF Goto
  <2> HIDE DEF x
  <2> QED BY <1>1, <2>1, <2>2
<1>4. ASSUME NEW i \in Ids \cup {"none"}, Describe(w, i) PROVE worker' \in [Workers -> WorkerType]
  <2> DEFINE x == [Idle EXCEPT !.pc = "describing", !.id = i]
  <2>1. x \in WorkerType
    BY DEF WorkerType, Idle, Pcs, Ops
  <2>2. worker' = [worker EXCEPT ![w] = x]
    BY <1>4 DEF Describe
  <2> HIDE DEF x
  <2> QED BY <1>1, <2>1, <2>2
<1>5. ASSUME Done(w) PROVE worker' \in [Workers -> WorkerType]
  BY <1>1, <1>2, <1>5 DEF Done
<1>6. ASSUME NEW by \in Workers \cup {"nobody"}, NEW reply \in CallReplies, worker' = Heard(by, reply)
      PROVE  worker' \in [Workers -> WorkerType]
  <2>1. CASE by = "nobody"
    BY <1>1, <1>6, <2>1 DEF Heard
  <2>2. CASE by # "nobody"
    <3> DEFINE x == [worker[by] EXCEPT !.reply = reply]
    <3>1. x \in WorkerType
      BY <1>1, <2>2 DEF WorkerType
    <3>2. worker' = [worker EXCEPT ![by] = x]
      BY <1>6, <1>1, <2>2 DEF Heard
    <3> HIDE DEF x
    <3> QED BY <1>1, <2>2, <3>1, <3>2
  <2> QED BY <2>1, <2>2
<1>7. ASSUME NEW op \in Ops, NEW i \in Ids, NEW pc \in Pcs, Serve(w, op, i, pc)
      PROVE  worker' \in [Workers -> WorkerType]
  <2> DEFINE x == [Idle EXCEPT !.op = op, !.id = i, !.pc = pc]
  <2>1. x \in WorkerType
    BY DEF WorkerType, Idle
  <2>2. worker' = [worker EXCEPT ![w] = x]
    BY <1>7 DEF Serve
  <2> HIDE DEF x
  <2> QED BY <1>1, <2>1, <2>2
<1> QED BY <1>1, <1>3, <1>4, <1>5, <1>6, <1>7

-----------------------------------------------------------------------------
(* What becomes of the calls at a machine: one joins them, or some leave    *)
(* and some are abandoned.                                                  *)

Joins(w, i, kind) ==
    /\ \A j \in Ids \ {i} : calls'[j] = calls[j]
    /\ \E k \in 1..(Len(calls[i]) + 1) :
          /\ k = 1 => calls[i] = <<>>
          /\ DOMAIN calls'[i] = 1..(Len(calls[i]) + 1)
          /\ \A j \in 1..(Len(calls[i]) + 1) :
                calls'[i][j] = IF j < k THEN calls[i][j]
                               ELSE IF j = k THEN [by |-> w, kind |-> kind] ELSE calls[i][j - 1]

\* The k-th was the (k + d)-th.
Shrinks(i) ==
    \E d \in {0, 1} : \A k \in DOMAIN calls'[i] :
        /\ k \in Nat \ {0} /\ k + d \in DOMAIN calls[i]
        /\ calls'[i][k].kind = calls[i][k + d].kind
        /\ calls'[i][k].by \in {calls[i][k + d].by, "nobody"}

\* A request makes its call.
LEMMA CallJoins ==
    ASSUME TypeInv, NEW w \in Workers, NEW i \in Ids, NEW kind \in LocalKinds, Call(w, i, kind)
    PROVE  calls' \in [Ids -> Seq(Entry)] /\ Joins(w, i, kind)
<1> DEFINE e == [by |-> w, kind |-> kind]
<1>1. e \in Entry /\ calls[i] \in Seq(Entry) /\ calls \in [Ids -> Seq(Entry)]
  BY DEF Entry, TypeInv
<1> HIDE DEF e
<1>2. PICK k \in 1..(Len(calls[i]) + 1) :
          (k = 1 => calls[i] = <<>>) /\ calls' = [calls EXCEPT ![i] = InsertAt(calls[i], k, e)]
  BY <1>1 DEF Call, e
<1> DEFINE r == InsertAt(calls[i], k, e)
<1>3. /\ r \in Seq(Entry) /\ DOMAIN r = 1..(Len(calls[i]) + 1)
      /\ \A j \in 1..(Len(calls[i]) + 1) :
            r[j] = IF j < k THEN calls[i][j] ELSE IF j = k THEN e ELSE calls[i][j - 1]
  BY <1>1, InsertAtProperties
<1> HIDE DEF r
<1>4. calls' = [calls EXCEPT ![i] = r]
  BY <1>2 DEF r
<1>5. calls' \in [Ids -> Seq(Entry)] /\ calls'[i] = r /\ \A j \in Ids \ {i} : calls'[j] = calls[j]
  BY <1>1, <1>3, <1>4
<1> QED BY <1>2, <1>3, <1>5 DEF Joins, e

\* The runtime has answered the first.
LEMMA HeadLeaves ==
    ASSUME TypeInv, NEW i \in Ids, calls[i] # <<>>, Next1(i)
    PROVE  /\ calls' \in [Ids -> Seq(Entry)] /\ \A j \in Ids : Shrinks(j)
           /\ Head(calls[i]) = calls[i][1] /\ 1 \in DOMAIN calls[i] /\ Head(calls[i]) \in Entry
           /\ \A j \in Ids \ {i} : calls'[j] = calls[j]
           /\ \A k \in DOMAIN calls'[i] :
                 k \in Nat \ {0} /\ k + 1 \in DOMAIN calls[i] /\ calls'[i][k] = calls[i][k + 1]
<1>1. calls[i] \in Seq(Entry) /\ calls \in [Ids -> Seq(Entry)]
  BY DEF TypeInv
<1> DEFINE t == Tail(calls[i])
<1>2. /\ t \in Seq(Entry) /\ Head(calls[i]) = calls[i][1] /\ 1 \in DOMAIN calls[i]
      /\ \A k \in DOMAIN t : k \in Nat \ {0} /\ k + 1 \in DOMAIN calls[i] /\ t[k] = calls[i][k + 1]
  BY <1>1, TailOfLine
<1>3. Head(calls[i]) \in Entry
  BY <1>1, HeadTailProperties
<1>4. calls' = [calls EXCEPT ![i] = t]
  BY DEF Next1
<1> HIDE DEF t
<1>5. calls' \in [Ids -> Seq(Entry)] /\ calls'[i] = t /\ \A j \in Ids \ {i} : calls'[j] = calls[j]
  BY <1>1, <1>2, <1>4
<1>6. Shrinks(i)
  BY <1>2, <1>5 DEF Shrinks
<1>7. ASSUME NEW j \in Ids \ {i} PROVE Shrinks(j)
  <2>1. calls[j] \in Seq(Entry)
    BY <1>1
  <2>2. \A k \in DOMAIN calls[j] : k \in Nat \ {0} /\ k + 0 = k
    BY <2>1, LenProperties
  <2> QED BY <1>5, <2>2 DEF Shrinks
<1> QED BY <1>2, <1>3, <1>5, <1>6, <1>7

\* Nothing happens to the calls.
LEMMA CallsStay ==
    ASSUME TypeInv, UNCHANGED calls
    PROVE  calls' \in [Ids -> Seq(Entry)] /\ \A j \in Ids : Shrinks(j)
<1>1. calls \in [Ids -> Seq(Entry)]
  BY DEF TypeInv
<1>2. ASSUME NEW j \in Ids PROVE Shrinks(j)
  <2>1. calls[j] \in Seq(Entry)
    BY <1>1
  <2>2. \A k \in DOMAIN calls[j] : k \in Nat \ {0} /\ k + 0 = k
    BY <2>1, LenProperties
  <2> QED BY <2>2 DEF Shrinks
<1> QED BY <1>1, <1>2

\* 120 s are over, and nobody waits for the k-th any more.
LEMMA CallAbandoned ==
    ASSUME TypeInv, NEW i \in Ids, NEW k \in DOMAIN calls[i], calls' = [calls EXCEPT ![i][k].by = "nobody"]
    PROVE  /\ calls' \in [Ids -> Seq(Entry)] /\ \A j \in Ids : Shrinks(j)
           /\ \A j \in Ids \ {i} : calls'[j] = calls[j]
           /\ DOMAIN calls'[i] = DOMAIN calls[i] /\ calls'[i][k].by = "nobody"
           /\ \A l \in DOMAIN calls[i] \ {k} : calls'[i][l] = calls[i][l]
<1> DEFINE q == calls[i]
           e == [q[k] EXCEPT !.by = "nobody"]
           r == [q EXCEPT ![k] = e]
<1>1. calls \in [Ids -> Seq(Entry)] /\ q \in Seq(Entry)
  BY DEF TypeInv
<1>2. DOMAIN q = 1..Len(q) /\ Len(q) \in Nat /\ k \in 1..Len(q)
  BY <1>1, LenProperties
<1>3. q[k] \in Entry
  BY <1>1, <1>2, ElementOfSeq
<1>4. e \in Entry /\ e.by = "nobody" /\ e.kind = q[k].kind
  BY <1>3 DEF Entry
<1>5. calls' = [calls EXCEPT ![i] = r]
  BY <1>1, <1>2
<1> HIDE DEF e, q
<1>6. r \in Seq(Entry) /\ Len(r) = Len(q) /\ \A j \in 1..Len(q) : r[j] = IF j = k THEN e ELSE q[j]
  BY <1>1, <1>2, <1>4, ExceptSeq
<1> HIDE DEF r
<1>7. DOMAIN r = 1..Len(q)
  BY <1>6, LenProperties
<1>8. calls' \in [Ids -> Seq(Entry)] /\ calls'[i] = r /\ \A j \in Ids \ {i} : calls'[j] = calls[j]
  BY <1>1, <1>5, <1>6
<1>9. Shrinks(i)
  <2>1. \A j \in 1..Len(q) : j \in Nat \ {0} /\ j + 0 = j
    BY <1>2
  <2>2. \A j \in 1..Len(q) : r[j].kind = q[j].kind /\ r[j].by \in {q[j].by, "nobody"}
    BY <1>4, <1>6
  <2> QED BY <1>2, <1>7, <1>8, <2>1, <2>2 DEF Shrinks, q
<1>10. ASSUME NEW j \in Ids \ {i} PROVE Shrinks(j)
  <2>1. calls[j] \in Seq(Entry)
    BY <1>1
  <2>2. \A l \in DOMAIN calls[j] : l \in Nat \ {0} /\ l + 0 = l
    BY <2>1, LenProperties
  <2> QED BY <1>8, <2>2 DEF Shrinks
<1> QED BY <1>2, <1>4, <1>6, <1>7, <1>8, <1>9, <1>10 DEF q

\* The engine's death leaves no call at its supervisor that anybody waits for.
LEMMA CallsEnd ==
    ASSUME TypeInv, EngineCrashes
    PROVE  /\ calls' \in [Ids -> Seq(Entry)] /\ \A j \in Ids : Shrinks(j)
           /\ \A j \in Ids : calls'[j] = <<>> /\ DOMAIN calls'[j] = {}
<1>1. calls' = [i \in Ids |-> <<>>]
  BY DEF EngineCrashes
<1>2. \A j \in Ids : calls'[j] = <<>> /\ DOMAIN calls'[j] = {}
  BY <1>1
<1>3. calls' \in [Ids -> Seq(Entry)]
  BY <1>1, EmptySeq
<1> QED BY <1>2, <1>3 DEF Shrinks

\* How many calls of a kind there are at a machine is a number, and none if none is
\* of that kind.
LEMMA HeldCounts ==
    ASSUME TypeInv, NEW i \in Ids, NEW kind \in LocalKinds
    PROVE  /\ Held(i, kind) \in Nat
           /\ (\A k \in DOMAIN calls[i] : calls[i][k].kind # kind) => Held(i, kind) = 0
           /\ (\A k \in DOMAIN calls[i] : calls[i][k].kind = kind => k = 1) => Held(i, kind) <= 1
<1> DEFINE all == DOMAIN calls[i]
           those == {k \in all : calls[i][k].kind = kind}
<1>1. IsFiniteSet(all)
  <2>1. calls[i] \in Seq(Entry)
    BY DEF TypeInv
  <2>2. all = 1..Len(calls[i]) /\ Len(calls[i]) \in Int
    BY <2>1, LenProperties
  <2> QED BY <2>2, FS_Interval
<1>2. IsFiniteSet(those) /\ Cardinality(those) \in Nat
  BY <1>1, FS_Subset, FS_CardinalityType
<1>3. (\A k \in all : calls[i][k].kind # kind) => those = {}
  OBVIOUS
<1>4. (\A k \in all : calls[i][k].kind = kind => k = 1) => those \subseteq {1}
  OBVIOUS
<1> HIDE DEF those
<1>5. those \subseteq {1} => Cardinality(those) <= 1
  <2>1. IsFiniteSet({1}) /\ Cardinality({1}) = 1
    BY FS_Singleton
  <2> QED BY <2>1, FS_Subset
<1> QED BY <1>2, <1>3, <1>4, <1>5, FS_EmptySet DEF Held, those

-----------------------------------------------------------------------------
(* What becomes of the registry *)

LEMMA RecordsTyped ==
    ASSUME TypeInv, NEW i \in Ids
    PROVE  /\ records \in [Ids -> Record] /\ NoRecord \in Record
           /\ Removed(i) \in [Ids -> Record]
           /\ [records EXCEPT ![i] = [NoRecord EXCEPT !.kind = "local"]] \in [Ids -> Record]
           /\ Updated(i, [records[i] EXCEPT !.cleanup = TRUE]) \in [Ids -> Record]
           /\ \A d \in {"running", "stopped"} :
                 Updated(i, [records[i] EXCEPT !.desired = d]) \in [Ids -> Record]
<1>1. records \in [Ids -> Record] /\ records[i] \in Record
  BY DEF TypeInv, LocalTypeOK
<1>2. NoRecord \in Record /\ [NoRecord EXCEPT !.kind = "local"] \in Record
  BY DEF NoRecord, Record, Kinds
<1>3. /\ [records[i] EXCEPT !.cleanup = TRUE] \in Record
      /\ \A d \in {"running", "stopped"} : [records[i] EXCEPT !.desired = d] \in Record
  BY <1>1 DEF Record
<1>4. \A rec \in Record : Updated(i, rec) \in [Ids -> Record]
  BY <1>1 DEF Updated
<1> QED BY <1>1, <1>2, <1>3, <1>4 DEF Removed

\* And to the machines.
LEMMA MachineTyped ==
    ASSUME TypeInv, NEW i \in Ids
    PROVE  /\ machine \in [Ids -> Machine]
           /\ RuntimeCarriesOut(i) => machine' \in [Ids -> Machine]
           /\ OrphanCarriesOut(i) => machine' \in [Ids -> Machine]
           /\ MachineStops(i) => machine' \in [Ids -> Machine]
<1>1. machine \in [Ids -> Machine] /\ machine[i] \in Machine
  BY DEF TypeInv, LocalTypeOK
<1>2. ASSUME RuntimeCarriesOut(i) PROVE machine' \in [Ids -> Machine]
  <2>1. calls[i] # <<>> /\ Head(calls[i]) \in Entry
    BY <1>2, HeadLeaves DEF RuntimeCarriesOut
  <2>2. Head(calls[i]).kind \in LocalKinds
    BY <2>1 DEF Entry
  <2>3. PICK o \in Outcomes(Head(calls[i]).kind, machine[i], 1, TRUE) :
            machine' = [machine EXCEPT ![i] = o.machine]
    BY <1>2 DEF RuntimeCarriesOut
  <2>4. o.machine \in Machine
    BY <1>1, <2>2, LocalOutcome
  <2> QED BY <1>1, <2>3, <2>4
<1>3. ASSUME MachineStops(i) PROVE machine' \in [Ids -> Machine]
  <2>1. \A m \in Machine : ProcessExits(m) \in Machine /\ GuestPowersOff(m) \in Machine
    BY DEF Machine, Power, ProcessExits, GuestPowersOff
  <2>2. \/ machine' = [machine EXCEPT ![i] = ProcessExits(machine[i])]
        \/ machine' = [machine EXCEPT ![i] = GuestPowersOff(machine[i])]
    BY <1>3, <1>1 DEF MachineStops
  <2> QED BY <1>1, <2>1, <2>2
<1>4. ASSUME OrphanCarriesOut(i) PROVE machine' \in [Ids -> Machine]
  <2>0. PICK kind \in LocalKinds :
             \E m \in {o.machine : o \in Outcomes(kind, machine[i], 1, TRUE)} \cup {machine[i]} :
                machine' = [machine EXCEPT ![i] = m]
    BY <1>4 DEF OrphanCarriesOut
  <2>1. PICK m \in {o.machine : o \in Outcomes(kind, machine[i], 1, TRUE)} \cup {machine[i]} :
                machine' = [machine EXCEPT ![i] = m]
    BY <2>0
  <2>2. m \in Machine
    BY <1>1, LocalOutcome
  <2> QED BY <1>1, <2>1, <2>2
<1> QED BY <1>1, <1>2, <1>3, <1>4

\* The end of a delete or of a rollback writes a record and an answer.
LEMMA TornDownTyped ==
    ASSUME TypeInv, NEW w \in Workers, worker[w].id \in Ids, NEW gone, TornDown(w, gone)
    PROVE  /\ records' \in [Ids -> Record] /\ worker' \in [Workers -> WorkerType]
           /\ past' \in [Ids -> {"fresh", "known", "failed", "deleted"}] /\ strays' \subseteq strays
<1> DEFINE i == worker[w].id
<1>1. records' \in [Ids -> Record]
  BY RecordsTyped DEF TornDown
<1>2. worker' \in [Workers -> WorkerType]
  BY WorkerTyped DEF TornDown
<1>3. past' \in [Ids -> {"fresh", "known", "failed", "deleted"}]
  <2>1. past \in [Ids -> {"fresh", "known", "failed", "deleted"}]
    BY DEF TypeInv, LocalTypeOK
  <2> QED BY <2>1 DEF TornDown
<1> QED BY <1>1, <1>2, <1>3 DEF TornDown

-----------------------------------------------------------------------------
(* The inductive invariant *)

\* The call that a worker waits for where it is.
Awaits(pc) ==
    CASE pc = "creating"   -> {"create"}
      [] pc = "starting"   -> {"start"}
      [] pc = "settling"   -> {"force-stop"}
      [] pc = "removing"   -> {"destroy"}
      [] pc = "commanding" -> {"start", "shutdown", "force-stop"}
      [] OTHER             -> {}

\* A worker that writes the record it is about when it is done.
ActivePcs == {"creating", "starting", "settling", "polling", "removing", "commanding"}

\* A worker that makes a machine or removes one.
MakerPcs == {"creating", "starting", "settling", "polling", "removing"}

\* There is no machine, and no call of this engine that will make one.
Quiet(i) == ~machine[i].exists /\ \A k \in DOMAIN calls[i] : calls[i][k].kind # "create"

\* Nor one of an earlier engine.
Absent(i) == Quiet(i) /\ orphans[i]["create"] = 0

\* A create has outlived its engine, and has been carried out or may yet be.
Lost(i) == orphans[i]["create"] # 0 \/ i \in strays

\* If there is a machine, that is how it came.
Over(i) == Quiet(i) \/ i \in strays

\* Nobody waits for two calls, and a create is the first at its machine, which
\* has a record.
LineInv ==
    \A i \in Ids : \A k \in DOMAIN calls[i] :
        /\ calls[i][k].by # "nobody" =>
              /\ worker[calls[i][k].by].id = i /\ worker[calls[i][k].by].reply = "none"
              /\ calls[i][k].kind \in Awaits(worker[calls[i][k].by].pc)
        /\ calls[i][k].kind = "create" => k = 1 /\ Has(i)
        /\ \A l \in DOMAIN calls[i] :
              calls[i][l].by = calls[i][k].by => calls[i][k].by = "nobody" \/ k = l

\* An id is created once: a create that has outlived its engine was the only one.
OrphanInv ==
    \A i \in Ids :
        /\ orphans[i]["create"] <= 1
        /\ i \in strays => orphans[i]["create"] = 0
        /\ Lost(i) => past[i] # "fresh" /\ \A k \in DOMAIN calls[i] : calls[i][k].kind # "create"
        /\ i \in Managed => i \notin strays /\ \A kind \in LocalKinds : orphans[i][kind] = 0

\* A destroy that succeeded leaves nothing behind but what an orphan made, and
\* while a create is served its record is there unless the machine is gone for good.
WorkInv ==
    \A w \in Workers : worker[w].pc \in ActivePcs =>
        /\ worker[w].id \in Ids \ Managed /\ past[worker[w].id] # "fresh"
        /\ At(w, "removing", {"ok"}) => Over(worker[w].id)
        /\ worker[w].op = "create" => ~Lost(worker[w].id) /\ (Has(worker[w].id) \/ Absent(worker[w].id))
        /\ worker[w].pc \in MakerPcs => worker[w].op \in {"create", "delete"}

\* What an id's history says of its record and its machine.
ToldInv ==
    \A i \in Ids :
        /\ i \in Managed => Has(i) /\ ~Local(i) /\ calls[i] = <<>> /\ past[i] # "fresh"
        /\ past[i] = "fresh" => ~Has(i) /\ ~machine[i].exists /\ calls[i] = <<>>
        /\ past[i] = "failed" => (Has(i) /\ records[i].cleanup) \/ Absent(i)
        /\ past[i] = "deleted" => (~Has(i) /\ Quiet(i)) \/ i \in strays
        /\ engine = "up" /\ machine[i].exists => Has(i) \/ i \in strays

LocalInv == TypeInv /\ LineInv /\ OrphanInv /\ WorkInv /\ ToldInv

\* A worker that is doing something is about a machine.
LEMMA WorkerHasId ==
    ASSUME LocalInv, NEW w \in Workers, worker[w].pc \in ActivePcs
    PROVE  worker[w].id \in Ids \ Managed /\ worker[w].id \in Ids
BY DEF LocalInv, WorkInv

LEMMA TypeInvariant == LocalInv /\ [Next]_vars => TypeInv'
<1> SUFFICES ASSUME LocalInv, [Next]_vars
             PROVE  TypeInv'
  OBVIOUS
<1> DEFINE Registry == records \in [Ids -> Record]
           Servers  == worker \in [Workers -> WorkerType]
           Runtime  == machine \in [Ids -> Machine]
           Lines    == calls \in [Ids -> Seq(Entry)]
           Former   == orphans \in [Ids -> [LocalKinds -> Nat]] /\ strays \subseteq Ids
           Rest     == /\ engine \in {"down", "up", "blind"}
                       /\ past \in [Ids -> {"fresh", "known", "failed", "deleted"}]
                       /\ faults \in 0..MaxFaults
<1>0. Registry /\ Servers /\ Runtime /\ Lines /\ Former /\ Rest /\ TypeInv
  BY DEF LocalInv, TypeInv, LocalTypeOK, WorkerType
<1>1. SUFFICES Registry' /\ Servers' /\ Runtime' /\ Lines' /\ Former' /\ Rest'
  BY DEF TypeInv, LocalTypeOK, WorkerType, Entry
<1>f. Fault => faults' \in 0..MaxFaults
  BY <1>0, LocalConstants DEF Fault
<1>d. ASSUME NEW i, NEW s, Describes(i, s) PROVE faults' \in 0..MaxFaults
  BY <1>0, <1>f, <1>d DEF Describes
<1>t. ASSUME NEW i, TooSlow(i) PROVE faults' \in 0..MaxFaults
  BY <1>0, <1>f, <1>t DEF TooSlow
<1>p. ActivePcs \subseteq Pcs /\ {"idle", "describing", "answered"} \subseteq Pcs
  BY DEF ActivePcs, Pcs
<1> USE DEF ActivePcs
<1>u. UNCHANGED records => Registry'
  BY <1>0
<1>v. UNCHANGED worker => Servers'
  BY <1>0
<1>w. UNCHANGED machine => Runtime'
  BY <1>0
<1>x. UNCHANGED calls => Lines'
  BY <1>0
<1>o. UNCHANGED former => Former'
  BY <1>0 DEF former
<1>y. UNCHANGED <<engine, past, faults>> => Rest'
  BY <1>0
<1>z. UNCHANGED <<engine, past>> /\ faults' \in 0..MaxFaults => Rest'
  BY <1>0
<1>2. CASE EngineStarts
  <2>1. Registry'
    <3> DEFINE new == [NoRecord EXCEPT !.kind = "adopted"]
    <3>1. new \in Record
      BY DEF NoRecord, Record, Kinds
    <3> HIDE DEF new
    <3>2. \/ records' = [i \in Ids |-> IF machine[i].exists /\ i \notin KnownIds THEN new ELSE records[i]]
          \/ records' = records
      BY <1>2 DEF EngineStarts, new
    <3> QED BY <1>0, <3>1, <3>2
  <2> QED BY <1>0, <1>2, <1>f, <1>o, <1>v, <1>w, <1>x, <2>1 DEF EngineStarts
<1>3. CASE EngineCrashes
  <2>1. Servers'
    <3>1. Idle \in WorkerType
      BY DEF Idle, WorkerType, Pcs, Ops
    <3> QED BY <1>3, <3>1 DEF EngineCrashes
  <2>2. Former'
    <3> DEFINE more == [i \in Ids |-> [kind \in LocalKinds |-> orphans[i][kind] + Held(i, kind)]]
    <3>1. more \in [Ids -> [LocalKinds -> Nat]]
      BY <1>0, HeldCounts
    <3> HIDE DEF more
    <3>2. orphans' \in {orphans, more} /\ strays' = strays
      BY <1>3 DEF EngineCrashes, more
    <3> QED BY <1>0, <3>1, <3>2
  <2> QED BY <1>0, <1>3, <1>f, <1>u, <1>w, <2>1, <2>2, CallsEnd DEF EngineCrashes
<1>4. ASSUME NEW w \in Workers, Request(w) PROVE Registry' /\ Servers' /\ Runtime' /\ Lines' /\ Former' /\ Rest'
  <2>1. PICK i \in Ids : \/ CreateBegins(w, i) \/ DeleteBegins(w, i) \/ StartBegins(w, i) \/ GetBegins(w, i)
                         \/ \E kind \in {"shutdown", "force-stop"} : StopBegins(w, i, kind)
    BY <1>4 DEF Request
  <2> USE DEF Ops, LocalKinds
  <2>2. CASE CreateBegins(w, i)
    <3>1. Registry' /\ Servers' /\ Lines'
      BY <1>0, <1>p, <2>2, RecordsTyped, WorkerTyped, CallJoins DEF CreateBegins
    <3>2. past' \in [Ids -> {"fresh", "known", "failed", "deleted"}]
      BY <1>0, <2>2 DEF CreateBegins
    <3> QED BY <1>0, <1>o, <1>w, <2>2, <3>1, <3>2 DEF CreateBegins
  <2>3. CASE DeleteBegins(w, i)
    BY <1>0, <1>p, <1>u, <1>o, <1>w, <1>y, <2>3, WorkerTyped, CallJoins DEF DeleteBegins
  <2>4. CASE StartBegins(w, i)
    BY <1>0, <1>p, <1>u, <1>o, <1>w, <1>y, <2>4, WorkerTyped, CallJoins DEF StartBegins
  <2>5. CASE GetBegins(w, i)
    BY <1>0, <1>u, <1>o, <1>w, <1>x, <1>y, <2>5, WorkerTyped DEF GetBegins
  <2>6. CASE \E kind \in {"shutdown", "force-stop"} : StopBegins(w, i, kind)
    <3>1. PICK kind \in {"shutdown", "force-stop"} : StopBegins(w, i, kind)
      BY <2>6
    <3>2. Registry'
      BY <1>0, <3>1, RecordsTyped DEF StopBegins
    <3>3. Servers' /\ Lines'
      BY <1>0, <1>p, <3>1, WorkerTyped, CallJoins DEF StopBegins
    <3> QED BY <1>o, <1>w, <1>y, <3>1, <3>2, <3>3 DEF StopBegins
  <2> QED BY <2>1, <2>2, <2>3, <2>4, <2>5, <2>6
<1>5. ASSUME NEW w \in Workers, Progress(w) \/ SettleGivesUp(w)
      PROVE  Registry' /\ Servers' /\ Runtime' /\ Lines' /\ Former' /\ Rest'
  <2> USE DEF At, LocalKinds
  <2>1. CASE Created(w)
    BY <1>0, <1>p, <1>u, <1>o, <1>w, <1>y, <2>1, WorkerTyped, CallJoins, WorkerHasId DEF Created
  <2>2. CASE RollsBack(w)
    BY <1>0, <1>p, <1>u, <1>o, <1>w, <1>y, <2>2, WorkerTyped, CallJoins, WorkerHasId DEF RollsBack
  <2>3. CASE PollSettles(w)
    BY <1>0, <1>p, <1>u, <1>o, <1>w, <1>z, <1>d, <2>3, WorkerTyped, CallJoins, WorkerHasId DEF PollSettles
  <2>4. CASE Settles(w)
    BY <1>0, <1>p, <1>u, <1>o, <1>w, <1>x, <1>y, <2>4, WorkerTyped DEF Settles
  <2>5. CASE SettleGivesUp(w)
    <3>1. worker[w].id \in Ids
      BY <2>5, WorkerHasId DEF SettleGivesUp
    <3> QED BY <1>0, <1>w, <1>x, <1>t, <2>5, <3>1, TornDownTyped DEF SettleGivesUp
  <2>6. CASE Destroyed(w)
    <3>1. worker[w].id \in Ids
      BY <2>6, WorkerHasId DEF Destroyed
    <3> QED BY <1>0, <1>w, <1>x, <2>6, <3>1, TornDownTyped DEF Destroyed
  <2>7. CASE Commanded(w)
    <3>1. worker[w].id \in Ids
      BY <2>7, WorkerHasId DEF Commanded
    <3>2. Registry'
      BY <1>0, <2>7, <3>1, RecordsTyped DEF Commanded
    <3>3. Servers'
      BY <1>0, <2>7, <3>1, WorkerTyped DEF Commanded
    <3> QED BY <1>o, <1>w, <1>x, <1>y, <2>7, <3>2, <3>3 DEF Commanded
  <2>8. CASE CommandFails(w)
    BY <1>0, <1>u, <1>o, <1>w, <1>x, <1>y, <2>8, WorkerTyped DEF CommandFails
  <2>9. CASE CreateAnswers(w)
    BY <1>0, <1>u, <1>o, <1>w, <1>x, <1>y, <2>9, WorkerTyped, WorkerHasId DEF CreateAnswers
  <2>10. CASE Presents(w)
    <3>1. PICK s \in {"running", "starting", "stopped", "unknown", "gone", "error"} :
             /\ Describes(worker[w].id, s)
             /\ \E status \in PresentStatus(s) :
                   worker' = [worker EXCEPT ![w] = [Idle EXCEPT !.pc = "answered", !.reply = s,
                                                                !.status = status]]
      BY <2>10 DEF Presents
    <3>2. PICK status \in PresentStatus(s) :
             worker' = [worker EXCEPT ![w] = [Idle EXCEPT !.pc = "answered", !.reply = s, !.status = status]]
      BY <3>1
    <3>3. status \in {"ready", "booting", "starting", "stopped", "unknown"}
      BY <3>2 DEF PresentStatus
    <3>4. [Idle EXCEPT !.pc = "answered", !.reply = s, !.status = status] \in WorkerType
      BY <3>3 DEF Idle, WorkerType, Pcs, Ops, CallReplies
    <3> QED BY <1>0, <1>u, <1>o, <1>w, <1>x, <1>z, <1>d, <2>10, <3>1, <3>2, <3>4 DEF Presents
  <2>11. CASE Answers(w)
    BY <1>0, <1>u, <1>o, <1>w, <1>x, <1>y, <2>11, WorkerTyped DEF Answers
  <2> QED BY <1>5, <2>1, <2>2, <2>3, <2>4, <2>5, <2>6, <2>7, <2>8, <2>9, <2>10, <2>11 DEF Progress
<1>6. ASSUME NEW i \in Ids, RuntimeCarriesOut(i) \/ RuntimeFails(i) \/ CallTimesOut(i) \/ MachineStops(i)
                            \/ OrphanCarriesOut(i)
      PROVE  Registry' /\ Servers' /\ Runtime' /\ Lines' /\ Former' /\ Rest'
  <2>h. ASSUME calls[i] # <<>>, Next1(i)
        PROVE  Lines' /\ Head(calls[i]).by \in Workers \cup {"nobody"} /\ Head(calls[i]).kind \in LocalKinds
    BY <1>0, <2>h, HeadLeaves DEF Entry
  <2>s. ASSUME NEW by \in Workers \cup {"nobody"}, NEW reply \in CallReplies, worker' = Heard(by, reply)
        PROVE  Servers'
    <3>1. CASE by = "nobody"
      BY <1>v, <2>s, <3>1 DEF Heard
    <3>2. CASE by # "nobody"
      BY <1>0, <2>s, <3>2, WorkerTyped
    <3> QED BY <3>1, <3>2
  <2>1. CASE RuntimeCarriesOut(i)
    <3>1. Runtime'
      BY <1>0, <2>1, MachineTyped
    <3>2. PICK o \in Outcomes(Head(calls[i]).kind, machine[i], 1, TRUE) :
             worker' = Heard(Head(calls[i]).by, o.reply)
      BY <2>1 DEF RuntimeCarriesOut
    <3>3. o.reply \in CallReplies /\ Head(calls[i]).by \in Workers \cup {"nobody"}
      BY <1>0, <2>1, <2>h, <3>2, LocalOutcome DEF RuntimeCarriesOut
    <3>4. Servers'
      BY <3>2, <3>3, <2>s
    <3> QED BY <1>o, <1>u, <1>y, <2>1, <2>h, <3>1, <3>4 DEF RuntimeCarriesOut
  <2>2. CASE RuntimeFails(i)
    BY <1>f, <1>u, <1>o, <1>w, <1>z, <2>2, <2>h, <2>s DEF RuntimeFails, CallReplies
  <2>3. CASE CallTimesOut(i)
    <3>1. PICK k \in DOMAIN calls[i] :
             /\ calls[i][k].by # "nobody" /\ worker' = Heard(calls[i][k].by, "error")
             /\ calls' = [calls EXCEPT ![i][k].by = "nobody"]
      BY <2>3 DEF CallTimesOut
    <3>2. calls[i][k] \in Entry
      BY <1>0, <3>1, LenProperties, ElementOfSeq
    <3>3. Lines'
      BY <1>0, <3>1, CallAbandoned
    <3>4. Servers'
      BY <2>s, <3>1, <3>2 DEF Entry, CallReplies
    <3> QED BY <1>f, <1>u, <1>o, <1>w, <1>z, <2>3, <3>3, <3>4 DEF CallTimesOut
  <2>4. CASE MachineStops(i)
    BY <1>0, <1>o, <1>u, <1>v, <1>x, <1>y, <2>4, MachineTyped DEF MachineStops
  <2>5. CASE OrphanCarriesOut(i)
    <3>1. Runtime'
      BY <1>0, <2>5, MachineTyped
    <3>2. PICK kind \in LocalKinds : orphans[i][kind] > 0 /\ orphans' = [orphans EXCEPT ![i][kind] = @ - 1]
      BY <2>5 DEF OrphanCarriesOut
    <3>3. orphans[i][kind] - 1 \in Nat
      BY <1>0, <3>2
    <3>4. Former'
      BY <1>0, <2>5, <3>2, <3>3 DEF OrphanCarriesOut
    <3> QED BY <1>u, <1>v, <1>x, <1>y, <2>5, <3>1, <3>4 DEF OrphanCarriesOut
  <2> QED BY <1>6, <2>1, <2>2, <2>3, <2>4, <2>5
<1>7. CASE UNCHANGED vars
  BY <1>u, <1>v, <1>o, <1>w, <1>x, <1>y, <1>7 DEF vars, former
<1> QED BY <1>2, <1>3, <1>4, <1>5, <1>6, <1>7 DEF Next

-----------------------------------------------------------------------------
(* What a step may do to an id *)

\* The runtime carries out a call, or a process ends.
LEMMA RuntimeMoves ==
    ASSUME LocalInv, [Next]_vars
    PROVE  \/ \A i \in Ids : machine'[i].exists = machine[i].exists
           \/ \E j \in Ids : RuntimeCarriesOut(j) \/ OrphanCarriesOut(j)
<1>0. machine \in [Ids -> Machine]
  BY DEF LocalInv, TypeInv, LocalTypeOK
<1>1. ASSUME NEW j \in Ids, MachineStops(j) PROVE \A i \in Ids : machine'[i].exists = machine[i].exists
  <2>1. \A m \in Machine : ProcessExits(m).exists = m.exists /\ GuestPowersOff(m).exists = m.exists
    BY DEF Machine, ProcessExits, GuestPowersOff
  <2>2. machine[j] \in Machine
    BY <1>0
  <2>3. \/ machine' = [machine EXCEPT ![j] = ProcessExits(machine[j])]
        \/ machine' = [machine EXCEPT ![j] = GuestPowersOff(machine[j])]
    BY <1>0, <1>1 DEF MachineStops
  <2> QED BY <1>0, <2>1, <2>2, <2>3
<1>2. \/ UNCHANGED machine
      \/ \E j \in Ids : RuntimeCarriesOut(j) \/ OrphanCarriesOut(j)
      \/ \E j \in Ids : MachineStops(j)
  BY DEF Next, vars, EngineStarts, EngineCrashes, Request, CreateBegins, DeleteBegins, StartBegins,
     StopBegins, GetBegins, Progress, Created, RollsBack, Settles, PollSettles, Destroyed, Commanded,
     CommandFails, CreateAnswers, Presents, Answers, SettleGivesUp, RuntimeFails, CallTimesOut
<1> QED BY <1>1, <1>2

\* Only a create that is carried out makes a machine.
LEMMA MachinesMove ==
    ASSUME LocalInv, [Next]_vars, NEW i \in Ids, machine'[i].exists, ~machine[i].exists
    PROVE  \/ 1 \in DOMAIN calls[i] /\ calls[i][1].kind = "create"
           \/ orphans[i]["create"] # 0 /\ i \in strays'
<1>0. machine \in [Ids -> Machine] /\ machine[i] \in Machine /\ TypeInv
  BY DEF LocalInv, TypeInv, LocalTypeOK
<1>1. ASSUME NEW j \in Ids, RuntimeCarriesOut(j)
      PROVE  1 \in DOMAIN calls[i] /\ calls[i][1].kind = "create"
  <2>2. PICK o \in Outcomes(Head(calls[j]).kind, machine[j], 1, TRUE) :
            machine' = [machine EXCEPT ![j] = o.machine]
    BY <1>1 DEF RuntimeCarriesOut
  <2>3. j = i /\ o.machine.exists
    BY <1>0, <2>2
  <2>4. /\ Head(calls[i]) = calls[i][1] /\ 1 \in DOMAIN calls[i]
        /\ Head(calls[i]).kind \in LocalKinds
    BY <1>0, <1>1, <2>3, HeadLeaves DEF RuntimeCarriesOut, Entry
  <2>5. machine[i].exists \/ Head(calls[i]).kind = "create"
    BY <1>0, <2>2, <2>3, <2>4, LocalOutcome, ZenonT(40)
  <2> QED BY <2>4, <2>5
<1>2. ASSUME NEW j \in Ids, OrphanCarriesOut(j) PROVE orphans[i]["create"] # 0 /\ i \in strays'
  <2>1. PICK kind \in LocalKinds :
           /\ orphans[j][kind] > 0
           /\ \E m \in {o.machine : o \in Outcomes(kind, machine[j], 1, TRUE)} \cup {machine[j]} :
                 /\ machine' = [machine EXCEPT ![j] = m]
                 /\ strays' = IF m.exists /\ ~machine[j].exists THEN strays \cup {j} ELSE strays
    BY <1>2 DEF OrphanCarriesOut
  <2>2. PICK m \in {o.machine : o \in Outcomes(kind, machine[j], 1, TRUE)} \cup {machine[j]} :
           /\ machine' = [machine EXCEPT ![j] = m]
           /\ strays' = IF m.exists /\ ~machine[j].exists THEN strays \cup {j} ELSE strays
    BY <2>1
  <2>3. j = i /\ m.exists /\ i \in strays'
    BY <1>0, <2>2
  <2>4. kind = "create"
    <3>1. PICK o \in Outcomes(kind, machine[i], 1, TRUE) : m = o.machine
      BY <2>2, <2>3
    <3> QED BY <1>0, <2>3, <3>1, LocalOutcome
  <2>5. orphans[i]["create"] # 0
    BY <2>1, <2>3, <2>4
  <2> QED BY <2>3, <2>5
<1> QED BY <1>0, <1>1, <1>2, RuntimeMoves

\* A call is made for an id that is not managed, and a create for one that is new.
LEMMA LinesMove ==
    ASSUME LocalInv, [Next]_vars
    PROVE  \/ \A i \in Ids : Shrinks(i)
           \/ \E w \in Workers, i \in Ids \ Managed, kind \in LocalKinds :
                 Joins(w, i, kind) /\ (kind = "create" => past[i] = "fresh") /\ past'[i] # "fresh"
<1> DEFINE Goal == \/ \A i \in Ids : Shrinks(i)
                   \/ \E w \in Workers, i \in Ids \ Managed, kind \in LocalKinds :
                         Joins(w, i, kind) /\ (kind = "create" => past[i] = "fresh") /\ past'[i] # "fresh"
<1>0. TypeInv /\ past \in [Ids -> {"fresh", "known", "failed", "deleted"}]
  BY DEF LocalInv, TypeInv, LocalTypeOK
<1>l. ASSUME NEW i \in Ids, Local(i) PROVE i \notin Managed /\ past[i] # "fresh"
  BY <1>l DEF LocalInv, ToldInv, Local, Has
<1>1. CASE UNCHANGED calls
  BY <1>0, <1>1, CallsStay
<1>2. CASE EngineCrashes
  BY <1>0, <1>2, CallsEnd
<1>3. ASSUME NEW i \in Ids, RuntimeCarriesOut(i) \/ RuntimeFails(i) PROVE Goal
  BY <1>0, <1>3, HeadLeaves DEF RuntimeCarriesOut, RuntimeFails
<1>4. ASSUME NEW i \in Ids, CallTimesOut(i) PROVE Goal
  <2>1. PICK k \in DOMAIN calls[i] : calls' = [calls EXCEPT ![i][k].by = "nobody"]
    BY <1>4 DEF CallTimesOut
  <2> QED BY <1>0, <2>1, CallAbandoned
<1> USE DEF LocalKinds
<1>5. ASSUME NEW w \in Workers, NEW i \in Ids, CreateBegins(w, i) PROVE Goal
  <2>1. Joins(w, i, "create") /\ past[i] = "fresh" /\ past'[i] # "fresh"
    BY <1>0, <1>5, CallJoins DEF CreateBegins
  <2>2. i \notin Managed
    BY <2>1 DEF LocalInv, ToldInv
  <2> QED BY <2>1, <2>2
<1>6. ASSUME NEW w \in Workers, NEW i \in Ids,
             \/ DeleteBegins(w, i) \/ StartBegins(w, i)
             \/ \E kind \in {"shutdown", "force-stop"} : StopBegins(w, i, kind)
      PROVE  Goal
  <2>1. \E kind \in {"start", "shutdown", "force-stop"} :
           Local(i) /\ Joins(w, i, kind) /\ UNCHANGED past
    BY <1>0, <1>6, CallJoins DEF DeleteBegins, StartBegins, StopBegins
  <2> QED BY <1>l, <2>1
<1>7. ASSUME NEW w \in Workers, Created(w) \/ RollsBack(w) \/ PollSettles(w) PROVE Goal
  <2>1. worker[w].pc \in ActivePcs
    BY <1>7 DEF Created, RollsBack, PollSettles, At, ActivePcs
  <2>2. worker[w].id \in Ids \ Managed /\ past[worker[w].id] # "fresh"
    BY <2>1 DEF LocalInv, WorkInv
  <2>3. \E kind \in {"start", "destroy", "force-stop"} : Joins(w, worker[w].id, kind) /\ UNCHANGED past
    BY <1>0, <1>7, <2>2, CallJoins DEF Created, RollsBack, PollSettles
  <2> QED BY <2>2, <2>3
<1>8. \/ UNCHANGED calls \/ EngineCrashes
      \/ \E i \in Ids : RuntimeCarriesOut(i) \/ RuntimeFails(i) \/ CallTimesOut(i)
      \/ \E w \in Workers, i \in Ids :
            \/ CreateBegins(w, i) \/ DeleteBegins(w, i) \/ StartBegins(w, i)
            \/ \E kind \in {"shutdown", "force-stop"} : StopBegins(w, i, kind)
      \/ \E w \in Workers : Created(w) \/ RollsBack(w) \/ PollSettles(w)
  BY DEF Next, vars, EngineStarts, Request, GetBegins, Progress, Settles, Destroyed, Commanded,
     CommandFails, CreateAnswers, Presents, Answers, SettleGivesUp, MachineStops, OrphanCarriesOut
<1> QED BY <1>1, <1>2, <1>3, <1>4, <1>5, <1>6, <1>7, <1>8

\* No create comes for an old id by this engine.
LEMMA CreatesAreNew ==
    ASSUME LocalInv, [Next]_vars, NEW i \in Ids, past[i] # "fresh",
           \A k \in DOMAIN calls[i] : calls[i][k].kind # "create"
    PROVE  \A k \in DOMAIN calls'[i] : calls'[i][k].kind # "create"
<1> SUFFICES ASSUME NEW k \in DOMAIN calls'[i], calls'[i][k].kind = "create" PROVE FALSE
  OBVIOUS
<1>1. CASE Shrinks(i)
  BY <1>1 DEF Shrinks, Quiet
<1>2. ASSUME NEW w \in Workers, NEW j \in Ids, NEW kind \in LocalKinds, Joins(w, j, kind),
             kind = "create" => past[j] = "fresh"
      PROVE  FALSE
  <2>1. CASE j # i
    BY <1>2, <2>1 DEF Joins, Quiet
  <2>2. CASE j = i
    <3>1. kind # "create" /\ calls[i] \in Seq(Entry)
      BY <1>2, <2>2 DEF LocalInv, TypeInv
    <3>2. Len(calls[i]) \in Nat /\ DOMAIN calls[i] = 1..Len(calls[i])
      BY <3>1, LenProperties
    <3>3. PICK l \in 1..(Len(calls[i]) + 1) :
             /\ DOMAIN calls'[i] = 1..(Len(calls[i]) + 1)
             /\ calls'[i][k] = IF k < l THEN calls[i][k]
                               ELSE IF k = l THEN [by |-> w, kind |-> kind] ELSE calls[i][k - 1]
      BY <1>2, <2>2 DEF Joins
    <3>4. CASE k < l
      <4>1. k \in DOMAIN calls[i] /\ calls'[i][k] = calls[i][k]
        BY <3>2, <3>3, <3>4
      <4> QED BY <4>1 DEF Quiet
    <3>5. CASE k = l
      BY <3>1, <3>3, <3>5
    <3>6. CASE k > l
      <4>1. k - 1 \in DOMAIN calls[i] /\ calls'[i][k] = calls[i][k - 1]
        BY <3>2, <3>3, <3>6
      <4> QED BY <4>1 DEF Quiet
    <3> QED BY <3>2, <3>3, <3>4, <3>5, <3>6
  <2> QED BY <2>1, <2>2
<1> QED BY <1>1, <1>2, LinesMove

\* So where nothing is, something can only come by a create of an earlier one.
LEMMA QuietStays ==
    ASSUME LocalInv, [Next]_vars, NEW i \in Ids, past[i] # "fresh", Quiet(i)
    PROVE  Quiet(i)' \/ (orphans[i]["create"] # 0 /\ i \in strays')
<1>1. ~machine'[i].exists \/ (orphans[i]["create"] # 0 /\ i \in strays')
  BY MachinesMove DEF Quiet
<1>2. \A k \in DOMAIN calls'[i] : calls'[i][k].kind # "create"
  BY CreatesAreNew DEF Quiet
<1> QED BY <1>1, <1>2 DEF Quiet

\* A record that is there is removed only with its machine, and one that needs to
\* be cleaned up says so until then.
Keeps(i) ==
    /\ i \in Managed => records'[i] = records[i]
    /\ Has(i) /\ ~Has(i)' => Over(i) /\ past[i] # "fresh" /\ (Absent(i) \/ past'[i] = "deleted")
    /\ ~Has(i) /\ Has(i)' => machine[i].exists \/ (past[i] = "fresh" /\ past'[i] # "fresh")
    /\ Has(i) /\ records[i].cleanup /\ Has(i)' => records'[i].cleanup

\* What a caller is told, and in which case.
Tells(i) ==
    /\ past[i] # "fresh" => past'[i] # "fresh"
    /\ past'[i] = "failed" => past[i] = "failed" \/ (Has(i)' /\ records'[i].cleanup) \/ Absent(i)
    /\ past'[i] = "failed" => past[i] # "fresh"
    /\ past'[i] = "deleted" => past[i] # "fresh" /\ (past[i] = "deleted" \/ (Over(i) /\ ~Has(i)'))

LEMMA KeepsAll ==
    ASSUME LocalInv, UNCHANGED records, NEW i \in Ids
    PROVE  Keeps(i)
BY DEF Keeps, Has

LEMMA TellsAll ==
    ASSUME LocalInv, UNCHANGED past, NEW i \in Ids
    PROVE  Tells(i)
<1>1. past[i] = "deleted" => past[i] # "fresh"
  OBVIOUS
<1> QED BY DEF Tells

LEMMA TornDownMoves ==
    ASSUME LocalInv, NEW w \in Workers, worker[w].pc \in {"polling", "removing"}, NEW gone \in BOOLEAN,
           TornDown(w, gone), gone => Over(worker[w].id), NEW j \in Ids
    PROVE  Keeps(j) /\ Tells(j)
<1> DEFINE i == worker[w].id
<1>0. /\ records \in [Ids -> Record] /\ NoRecord.kind = "none"
      /\ past \in [Ids -> {"fresh", "known", "failed", "deleted"}]
  BY DEF LocalInv, TypeInv, LocalTypeOK, NoRecord
<1>1. /\ i \in Ids /\ i \notin Managed /\ past[i] # "fresh"
      /\ worker[w].op = "create" => ~Lost(i) /\ (Has(i) \/ Absent(i))
      /\ worker[w].op \in {"create", "delete"}
  BY DEF LocalInv, WorkInv, ActivePcs, MakerPcs
<1>g. gone => Over(i) /\ (worker[w].op = "create" => Absent(i))
  BY <1>1 DEF Over, Lost, Absent
<1>2. /\ records' = IF gone THEN Removed(i) ELSE Updated(i, [records[i] EXCEPT !.cleanup = TRUE])
      /\ past' = [past EXCEPT ![i] = IF gone /\ worker[w].op = "delete" THEN "deleted"
                                     ELSE IF worker[w].op = "create" /\ @ # "deleted" THEN "failed" ELSE @]
  BY DEF TornDown
<1>r. /\ gone => records'[i] = NoRecord
      /\ ~gone /\ Has(i) => records'[i].kind = records[i].kind /\ records'[i].cleanup
      /\ ~gone /\ ~Has(i) => records' = records
      /\ j # i => records'[j] = records[j]
  <2>1. records[i] \in Record
    BY <1>0, <1>1
  <2>2. LET x == [records[i] EXCEPT !.cleanup = TRUE] IN x.kind = records[i].kind /\ x.cleanup
    BY <2>1 DEF Record
  <2> QED BY <1>0, <1>1, <1>2, <2>2 DEF Removed, Updated
<1>p. /\ past'[i] = IF gone /\ worker[w].op = "delete" THEN "deleted"
                    ELSE IF worker[w].op = "create" /\ past[i] # "deleted" THEN "failed" ELSE past[i]
      /\ j # i => past'[j] = past[j]
  BY <1>0, <1>1, <1>2
<1> HIDE DEF i
<1>3. CASE j # i
  BY <1>3, <1>r, <1>p DEF Keeps, Tells, Has
<1>4. CASE j = i
  <2>2. Keeps(j)
    <3>1. Has(j) /\ ~Has(j)' => Over(j) /\ (Absent(j) \/ past'[j] = "deleted")
      BY <1>1, <1>r, <1>p, <1>g, <1>4 DEF Has
    <3> QED BY <1>0, <1>1, <1>r, <1>4, <3>1 DEF Keeps, Has
  <2>3. Tells(j)
    BY <1>0, <1>1, <1>r, <1>p, <1>g, <1>4 DEF Tells, Has
  <2> QED BY <2>2, <2>3
<1> QED BY <1>3, <1>4

LEMMA UpdateMoves ==
    ASSUME LocalInv, NEW i \in Ids \ Managed, NEW d \in {"running", "stopped"}, NEW j \in Ids,
           records' = Updated(i, [records[i] EXCEPT !.desired = d])
    PROVE  Keeps(j)
<1>0. records \in [Ids -> Record] /\ records[i] \in Record
  BY DEF LocalInv, TypeInv, LocalTypeOK
<1> DEFINE x == [records[i] EXCEPT !.desired = d]
<1>1. x.kind = records[i].kind /\ x.cleanup = records[i].cleanup
  BY <1>0 DEF Record
<1>2. records' = [records EXCEPT ![i] = x] \/ records' = records
  BY DEF Updated
<1> HIDE DEF x
<1>3. /\ records'[j].kind = records[j].kind /\ records'[j].cleanup = records[j].cleanup
      /\ j # i => records'[j] = records[j]
  BY <1>0, <1>1, <1>2
<1> QED BY <1>3 DEF Keeps, Has

LEMMA IdsMove ==
    ASSUME LocalInv, [Next]_vars, NEW j \in Ids
    PROVE  Keeps(j) /\ Tells(j)
<1>0. /\ records \in [Ids -> Record] /\ TypeInv
      /\ past \in [Ids -> {"fresh", "known", "failed", "deleted"}]
  BY DEF LocalInv, TypeInv, LocalTypeOK
<1>l. ASSUME NEW i \in Ids, Local(i) PROVE i \notin Managed /\ past[i] # "fresh"
  BY <1>l DEF LocalInv, ToldInv, Local, Has
<1>1. CASE UNCHANGED <<records, past>>
  BY <1>1, KeepsAll, TellsAll
<1>2. CASE EngineStarts
  <2>1. UNCHANGED past
    BY <1>2 DEF EngineStarts
  <2>2. CASE records' = records
    BY <2>1, <2>2, KeepsAll, TellsAll
  <2>3. CASE records' # records
    <3> DEFINE new == [NoRecord EXCEPT !.kind = "adopted"]
    <3>1. records' = [i \in Ids |-> IF machine[i].exists /\ i \notin KnownIds THEN new ELSE records[i]]
      BY <1>2, <2>3 DEF EngineStarts, new
    <3>2. j \in KnownIds <=> Has(j)
      BY DEF KnownIds
    <3> HIDE DEF new
    <3>3. records'[j] = IF machine[j].exists /\ ~Has(j) THEN new ELSE records[j]
      BY <3>1, <3>2
    <3>4. j \in Managed => Has(j)
      BY DEF LocalInv, ToldInv
    <3>5. new.kind = "adopted"
      BY DEF new, NoRecord
    <3> QED BY <2>1, <3>3, <3>4, <3>5, TellsAll DEF Keeps, Has
  <2> QED BY <2>2, <2>3
<1>3. ASSUME NEW w \in Workers, NEW i \in Ids, CreateBegins(w, i) PROVE Keeps(j) /\ Tells(j)
  <2> DEFINE new == [NoRecord EXCEPT !.kind = "local"]
  <2>1. new.kind = "local"
    BY DEF NoRecord
  <2>2. records' = [records EXCEPT ![i] = new] /\ past' = [past EXCEPT ![i] = "known"] /\ past[i] = "fresh"
    BY <1>3 DEF CreateBegins
  <2> HIDE DEF new
  <2>3. i \notin Managed /\ ~Has(i)
    BY <2>2 DEF LocalInv, ToldInv
  <2>4. CASE j = i
    <3>1. records'[i] = new /\ past'[i] = "known"
      BY <1>0, <2>2
    <3> QED BY <2>1, <2>2, <2>3, <2>4, <3>1 DEF Keeps, Tells, Has
  <2>5. CASE j # i
    <3>1. records'[j] = records[j] /\ past'[j] = past[j]
      BY <1>0, <2>2, <2>5
    <3> QED BY <3>1 DEF Keeps, Tells, Has
  <2> QED BY <2>4, <2>5
<1>4. ASSUME NEW w \in Workers, NEW i \in Ids, NEW kind \in {"shutdown", "force-stop"}, StopBegins(w, i, kind)
      PROVE  Keeps(j) /\ Tells(j)
  <2>1. i \in Ids \ Managed /\ UNCHANGED past
    BY <1>4, <1>l DEF StopBegins
  <2>2. Keeps(j)
    BY <1>4, <2>1, UpdateMoves DEF StopBegins
  <2> QED BY <2>1, <2>2, TellsAll
<1>5. ASSUME NEW w \in Workers, Commanded(w) PROVE Keeps(j) /\ Tells(j)
  <2>1. worker[w].id \in Ids \ Managed
    BY <1>5, WorkerHasId DEF Commanded, At, ActivePcs
  <2>2. UNCHANGED past
    BY <1>5 DEF Commanded
  <2>3. CASE worker[w].op = "start"
    <3>1. Keeps(j)
      BY <1>5, <2>1, <2>3, UpdateMoves DEF Commanded
    <3> QED BY <2>2, <3>1, TellsAll
  <2>4. CASE worker[w].op # "start"
    BY <1>5, <2>2, <2>4, KeepsAll, TellsAll DEF Commanded
  <2> QED BY <2>3, <2>4
<1>6. ASSUME NEW w \in Workers, Destroyed(w) PROVE Keeps(j) /\ Tells(j)
  <2>1. worker[w].pc = "removing" /\ (worker[w].reply = "ok" => At(w, "removing", {"ok"}))
    BY <1>6 DEF Destroyed, At
  <2>2. worker[w].reply = "ok" => Over(worker[w].id)
    BY <2>1 DEF LocalInv, WorkInv, ActivePcs
  <2>3. TornDown(w, worker[w].reply = "ok")
    BY <1>6 DEF Destroyed
  <2> QED BY <2>1, <2>2, <2>3, TornDownMoves
<1>7. ASSUME NEW w \in Workers, SettleGivesUp(w) PROVE Keeps(j) /\ Tells(j)
  BY <1>7, TornDownMoves DEF SettleGivesUp, At
<1>8. \/ UNCHANGED <<records, past>> \/ EngineStarts
      \/ \E w \in Workers, i \in Ids :
            \/ CreateBegins(w, i) \/ \E kind \in {"shutdown", "force-stop"} : StopBegins(w, i, kind)
      \/ \E w \in Workers : Commanded(w) \/ Destroyed(w) \/ SettleGivesUp(w)
  BY DEF Next, vars, EngineCrashes, Request, DeleteBegins, StartBegins, GetBegins, Progress, Created,
     RollsBack, Settles, PollSettles, CommandFails, CreateAnswers, Presents, Answers,
     RuntimeCarriesOut, RuntimeFails, CallTimesOut, MachineStops, OrphanCarriesOut
<1> QED BY <1>1, <1>2, <1>3, <1>4, <1>5, <1>6, <1>7, <1>8

\* What earlier engines left changes by a crash, when an orphan is carried out, and at
\* the end of a delete that has found nothing.
LEMMA FormerMoves ==
    ASSUME LocalInv, [Next]_vars, ~EngineCrashes, \A j \in Ids : ~OrphanCarriesOut(j)
    PROVE  /\ orphans' = orphans /\ strays' \subseteq strays
           /\ \A i \in strays \ strays' : ~machine[i].exists /\ ~Has(i)' /\ UNCHANGED <<machine, calls>>
<1> DEFINE Goal == /\ orphans' = orphans /\ strays' \subseteq strays
                   /\ \A i \in strays \ strays' : ~machine[i].exists /\ ~Has(i)' /\ UNCHANGED <<machine, calls>>
<1>1. CASE UNCHANGED former
  BY <1>1 DEF former
<1>2. ASSUME NEW w \in Workers, Destroyed(w) \/ SettleGivesUp(w) PROVE Goal
  <2>1. /\ UNCHANGED <<machine, calls, orphans>>
        /\ \E gone \in BOOLEAN : TornDown(w, gone)
    BY <1>2 DEF Destroyed, SettleGivesUp
  <2>2. PICK gone \in BOOLEAN : TornDown(w, gone)
    BY <2>1
  <2> DEFINE i == worker[w].id
  <2>3. /\ strays' = IF gone /\ ~machine[i].exists THEN strays \ {i} ELSE strays
        /\ gone => records' = Removed(i)
    BY <2>2 DEF TornDown
  <2>4. \A j \in strays \ strays' : j = i /\ gone /\ ~machine[i].exists
    BY <2>3
  <2>5. \A j \in Ids : j = i /\ gone => ~Has(j)'
    <3>1. records \in [Ids -> Record] /\ NoRecord.kind = "none"
      BY DEF LocalInv, TypeInv, LocalTypeOK, NoRecord
    <3>2. ASSUME NEW j \in Ids, j = i, gone PROVE records'[j] = NoRecord
      BY <2>3, <3>1, <3>2 DEF Removed
    <3> QED BY <3>1, <3>2 DEF Has
  <2>6. strays \subseteq Ids /\ strays' \subseteq strays
    BY <2>3 DEF LocalInv, TypeInv, LocalTypeOK
  <2> QED BY <2>1, <2>4, <2>5, <2>6
<1>3. UNCHANGED former \/ \E w \in Workers : Destroyed(w) \/ SettleGivesUp(w)
  BY DEF Next, vars, former, EngineStarts, Request, CreateBegins, DeleteBegins, StartBegins, StopBegins,
     GetBegins, Progress, Created, RollsBack, Settles, PollSettles, Commanded, CommandFails, CreateAnswers,
     Presents, Answers, RuntimeCarriesOut, RuntimeFails, CallTimesOut, MachineStops
<1> QED BY <1>1, <1>2, <1>3

\* By a crash there are more orphans.
LEMMA CrashMoves ==
    ASSUME LocalInv, EngineCrashes, NEW i \in Ids
    PROVE  /\ strays' = strays /\ UNCHANGED <<machine, past, records>>
           /\ \A kind \in LocalKinds :
                 orphans'[i][kind] \in {orphans[i][kind], orphans[i][kind] + Held(i, kind)}
BY DEF EngineCrashes

\* By one that is carried out fewer, and only a create makes a stray.
LEMMA OrphanMoves ==
    ASSUME LocalInv, NEW j \in Ids, OrphanCarriesOut(j), NEW i \in Ids
    PROVE  /\ UNCHANGED <<calls, past, records, worker, engine>> /\ strays \subseteq strays'
           /\ i \in strays' => i \in strays \/
                 (orphans[i]["create"] # 0 /\ orphans'[i]["create"] = orphans[i]["create"] - 1)
           /\ \A kind \in LocalKinds :
                 \/ orphans'[i][kind] = orphans[i][kind]
                 \/ orphans[i][kind] # 0 /\ orphans'[i][kind] = orphans[i][kind] - 1
<1>0. orphans \in [Ids -> [LocalKinds -> Nat]] /\ machine \in [Ids -> Machine]
  BY DEF LocalInv, TypeInv, LocalTypeOK
<1>1. PICK kind \in LocalKinds :
         /\ orphans[j][kind] > 0
         /\ orphans' = [orphans EXCEPT ![j][kind] = @ - 1]
         /\ \E m \in {o.machine : o \in Outcomes(kind, machine[j], 1, TRUE)} \cup {machine[j]} :
               strays' = IF m.exists /\ ~machine[j].exists THEN strays \cup {j} ELSE strays
  BY DEF OrphanCarriesOut
<1>2. PICK m \in {o.machine : o \in Outcomes(kind, machine[j], 1, TRUE)} \cup {machine[j]} :
         strays' = IF m.exists /\ ~machine[j].exists THEN strays \cup {j} ELSE strays
  BY <1>1
<1>3. ASSUME m.exists, ~machine[j].exists PROVE kind = "create"
  <2>1. PICK o \in Outcomes(kind, machine[j], 1, TRUE) : m = o.machine
    BY <1>2, <1>3
  <2> QED BY <1>0, <1>3, <2>1, LocalOutcome
<1>4. /\ strays \subseteq strays'
      /\ i \in strays' => i \in strays \/ (i = j /\ kind = "create")
  BY <1>2, <1>3
<1>5. orphans[j][kind] # 0 /\ orphans'[j][kind] = orphans[j][kind] - 1
  BY <1>0, <1>1
<1>6. \A l \in LocalKinds : i # j \/ l # kind => orphans'[i][l] = orphans[i][l]
  BY <1>0, <1>1
<1>7. UNCHANGED <<calls, past, records, worker, engine>>
  BY DEF OrphanCarriesOut
<1> QED BY <1>4, <1>5, <1>6, <1>7

\* How what is absent, over or lost moves.
LEMMA FormerStays ==
    ASSUME LocalInv, TypeInv', [Next]_vars, NEW i \in Ids, past[i] # "fresh"
    PROVE  /\ Absent(i) => Absent(i)'
           /\ Over(i) => Over(i)'
           /\ i \in strays => i \in strays' \/ (~Has(i)' /\ Quiet(i)')
           /\ ~EngineCrashes /\ ~Lost(i) => ~Lost(i)'
<1>0. /\ strays \subseteq Ids /\ TypeInv /\ "create" \in LocalKinds
      /\ Lost(i) => \A k \in DOMAIN calls[i] : calls[i][k].kind # "create"
      /\ i \in strays => orphans[i]["create"] = 0
  BY DEF LocalInv, OrphanInv, TypeInv, LocalTypeOK, LocalKinds
<1>1. i \in strays => i \in strays' \/ (~Has(i)' /\ Quiet(i)')
  <2>1. CASE EngineCrashes
    BY <2>1, CrashMoves
  <2>2. ASSUME NEW j \in Ids, OrphanCarriesOut(j) PROVE strays \subseteq strays'
    BY <2>2, OrphanMoves
  <2>3. CASE ~EngineCrashes /\ \A j \in Ids : ~OrphanCarriesOut(j)
    BY <1>0, <2>3, FormerMoves DEF Quiet, Lost
  <2> QED BY <2>1, <2>2, <2>3
<1>2. Quiet(i) => Quiet(i)' \/ (orphans[i]["create"] # 0 /\ i \in strays')
  BY QuietStays
<1>3. Over(i) => Over(i)'
  BY <1>1, <1>2 DEF Over
<1>4. ASSUME orphans[i]["create"] = 0
      PROVE  /\ EngineCrashes /\ Quiet(i) => orphans'[i]["create"] = 0
             /\ ~EngineCrashes => orphans'[i]["create"] = 0 /\ (i \in strays' => i \in strays)
  <2>1. CASE EngineCrashes
    <3>1. Quiet(i) => Held(i, "create") = 0
      BY <1>0, HeldCounts DEF Quiet
    <3> QED BY <1>0, <1>4, <2>1, <3>1, CrashMoves
  <2>2. ASSUME NEW j \in Ids, OrphanCarriesOut(j)
        PROVE  orphans'[i]["create"] = 0 /\ (i \in strays' => i \in strays)
    BY <1>0, <1>4, <2>2, OrphanMoves
  <2>3. CASE ~EngineCrashes /\ \A j \in Ids : ~OrphanCarriesOut(j)
    BY <1>4, <2>3, FormerMoves
  <2> QED BY <2>1, <2>2, <2>3
<1>5. Absent(i) => Absent(i)'
  BY <1>2, <1>4 DEF Absent
<1>6. ~EngineCrashes /\ ~Lost(i) => ~Lost(i)'
  BY <1>4 DEF Lost
<1> QED BY <1>1, <1>3, <1>5, <1>6

-----------------------------------------------------------------------------
(* The steps of the invariant *)

\* Where no call is under way none appears unless one joins.
LEMMA EmptyStays ==
    ASSUME NEW i \in Ids, calls[i] = <<>>, Shrinks(i), calls'[i] \in Seq(Entry)
    PROVE  calls'[i] = <<>>
<1>1. DOMAIN calls'[i] = {}
  BY DEF Shrinks
<1> DEFINE q == calls'[i]
<1>2. q \in Seq(Entry) /\ DOMAIN q = {}
  BY <1>1
<1> HIDE DEF q
<1>3. Len(q) \in Nat /\ 1..Len(q) = {}
  BY <1>2, LenProperties
<1>4. Len(q) \notin Nat \ {0}
  <2>1. Len(q) \in Nat \ {0} => 1 \in 1..Len(q)
    OBVIOUS
  <2> QED BY <1>3, <2>1
<1>5. q = <<>>
  BY <1>2, <1>4, EmptySeq
<1> QED BY <1>5 DEF q

LEMMA ToldInvariant == LocalInv /\ TypeInv' /\ [Next]_vars => ToldInv'
<1> SUFFICES ASSUME LocalInv, TypeInv', [Next]_vars, NEW i \in Ids
             PROVE  /\ i \in Managed => Has(i)' /\ ~Local(i)' /\ calls'[i] = <<>> /\ past'[i] # "fresh"
                    /\ past'[i] = "fresh" => ~Has(i)' /\ ~machine'[i].exists /\ calls'[i] = <<>>
                    /\ past'[i] = "failed" => (Has(i)' /\ records'[i].cleanup) \/ Absent(i)'
                    /\ past'[i] = "deleted" => (~Has(i)' /\ Quiet(i)') \/ i \in strays'
                    /\ engine' = "up" /\ machine'[i].exists => Has(i)' \/ i \in strays'
  BY DEF ToldInv
<1>1. Keeps(i) /\ Tells(i)
  BY IdsMove
<1>2. /\ i \in Managed => Has(i) /\ ~Local(i) /\ calls[i] = <<>> /\ past[i] # "fresh"
      /\ past[i] = "fresh" => ~Has(i) /\ ~machine[i].exists /\ calls[i] = <<>>
      /\ past[i] = "failed" => (Has(i) /\ records[i].cleanup) \/ Absent(i)
      /\ past[i] = "deleted" => (~Has(i) /\ Quiet(i)) \/ i \in strays
      /\ engine = "up" /\ machine[i].exists => Has(i) \/ i \in strays
      /\ Lost(i) => past[i] # "fresh"
  BY DEF LocalInv, ToldInv, OrphanInv
<1>3. past[i] # "fresh" => /\ Absent(i) => Absent(i)'
                           /\ Over(i) => Over(i)'
                           /\ i \in strays => i \in strays' \/ (~Has(i)' /\ Quiet(i)')
  BY FormerStays
<1>4. machine'[i].exists /\ ~machine[i].exists =>
         \/ 1 \in DOMAIN calls[i] /\ calls[i][1].kind = "create"
         \/ Lost(i) /\ i \in strays'
  BY MachinesMove DEF Lost
<1>e. calls'[i] \in Seq(Entry)
  BY DEF TypeInv
<1>5. ASSUME i \in Managed PROVE Has(i)' /\ ~Local(i)' /\ calls'[i] = <<>> /\ past'[i] # "fresh"
  <2>1. Shrinks(i)
    <3>1. ASSUME NEW w \in Workers, NEW j \in Ids \ Managed, NEW kind \in LocalKinds, Joins(w, j, kind)
          PROVE  Shrinks(i)
      <4>1. calls'[i] = calls[i]
        BY <1>5, <3>1 DEF Joins
      <4>2. DOMAIN calls[i] = {}
        BY <1>2, <1>5
      <4> QED BY <4>1, <4>2 DEF Shrinks
    <3> QED BY <3>1, LinesMove
  <2>2. calls'[i] = <<>>
    BY <1>2, <1>5, <1>e, <2>1, EmptyStays
  <2> QED BY <1>1, <1>2, <1>5, <2>2 DEF Keeps, Tells, Has, Local
<1>6. ASSUME past'[i] = "fresh" PROVE ~Has(i)' /\ ~machine'[i].exists /\ calls'[i] = <<>>
  <2>1. past[i] = "fresh"
    BY <1>1, <1>6 DEF Tells
  <2>2. DOMAIN calls[i] = {}
    BY <1>2, <2>1
  <2>3. ~machine'[i].exists
    BY <1>2, <1>4, <2>1, <2>2
  <2>4. ~Has(i)'
    BY <1>1, <1>2, <1>6, <2>1 DEF Keeps
  <2>5. Shrinks(i)
    <3>1. ASSUME NEW w \in Workers, NEW j \in Ids \ Managed, NEW kind \in LocalKinds, Joins(w, j, kind),
                 past'[j] # "fresh"
          PROVE  Shrinks(i)
      <4>1. calls'[i] = calls[i]
        BY <1>6, <3>1 DEF Joins
      <4> QED BY <2>2, <4>1 DEF Shrinks
    <3> QED BY <3>1, LinesMove
  <2>6. calls'[i] = <<>>
    BY <1>2, <1>e, <2>1, <2>5, EmptyStays
  <2> QED BY <2>3, <2>4, <2>6
<1>7. past'[i] = "failed" => (Has(i)' /\ records'[i].cleanup) \/ Absent(i)'
  <2>1. CASE past[i] = "failed" /\ Has(i) /\ records[i].cleanup
    BY <1>1, <1>3, <2>1 DEF Keeps
  <2>2. CASE past[i] = "failed" /\ Absent(i)
    BY <1>3, <2>2
  <2> QED BY <1>1, <1>2, <1>3, <2>1, <2>2 DEF Tells
<1>8. past'[i] = "deleted" => (~Has(i)' /\ Quiet(i)') \/ i \in strays'
  <2>1. CASE past[i] = "deleted" /\ i \in strays
    BY <1>3, <2>1
  <2>2. CASE past[i] = "deleted" /\ ~Has(i) /\ Quiet(i)
    <3>1. ~Has(i)'
      BY <1>1, <2>2 DEF Keeps, Quiet
    <3>2. Over(i)'
      BY <1>3, <2>2 DEF Over
    <3> QED BY <3>1, <3>2 DEF Over
  <2>3. ASSUME past'[i] = "deleted", Over(i), ~Has(i)', past[i] # "fresh" PROVE (~Has(i)' /\ Quiet(i)') \/ i \in strays'
    BY <1>3, <2>3 DEF Over
  <2> QED BY <1>1, <1>2, <2>1, <2>2, <2>3 DEF Tells
<1>9. ASSUME engine' = "up", machine'[i].exists PROVE Has(i)' \/ i \in strays'
  <2>1. CASE engine = "up"
    <3>1. ~Quiet(i)'
      BY <1>9 DEF Quiet
    <3>2. CASE i \in strays
      BY <1>3, <3>1, <3>2, <1>2 DEF Lost
    <3>3. CASE i \notin strays /\ i \notin strays'
      <4>1. Has(i)
        BY <1>2, <1>4, <1>9, <2>1, <3>3 DEF LocalInv, LineInv
      <4>2. ~Over(i)
        BY <1>4, <1>9, <3>3 DEF Over, Quiet
      <4> QED BY <1>1, <4>1, <4>2 DEF Keeps
    <3> QED BY <3>2, <3>3
  <2>2. CASE engine # "up"
    <3>1. EngineStarts
      BY <1>9, <2>2 DEF Next, vars, EngineCrashes, Request, CreateBegins, DeleteBegins, StartBegins,
         StopBegins, GetBegins, Progress, Created, RollsBack, Settles, PollSettles, Destroyed, Commanded,
         CommandFails, CreateAnswers, Presents, Answers, SettleGivesUp, RuntimeCarriesOut, RuntimeFails,
         CallTimesOut, MachineStops, OrphanCarriesOut
    <3> DEFINE new == [NoRecord EXCEPT !.kind = "adopted"]
    <3>2. /\ machine'[i].exists = machine[i].exists
          /\ records' = [j \in Ids |-> IF machine[j].exists /\ j \notin KnownIds THEN new ELSE records[j]]
      BY <1>9, <3>1 DEF EngineStarts, new
    <3>3. new.kind = "adopted"
      BY DEF NoRecord
    <3>4. i \in KnownIds <=> Has(i)
      BY DEF KnownIds
    <3> HIDE DEF new
    <3>5. records'[i] = IF ~Has(i) THEN new ELSE records[i]
      BY <1>9, <3>2, <3>4
    <3> QED BY <3>3, <3>5 DEF Has
  <2> QED BY <2>1, <2>2
<1> QED BY <1>5, <1>6, <1>7, <1>8, <1>9

LEMMA OrphanInvariant == LocalInv /\ TypeInv' /\ [Next]_vars => OrphanInv'
<1> SUFFICES ASSUME LocalInv, TypeInv', [Next]_vars, NEW i \in Ids
             PROVE  /\ orphans'[i]["create"] <= 1
                    /\ i \in strays' => orphans'[i]["create"] = 0
                    /\ Lost(i)' => past'[i] # "fresh" /\ \A k \in DOMAIN calls'[i] : calls'[i][k].kind # "create"
                    /\ i \in Managed => i \notin strays' /\ \A kind \in LocalKinds : orphans'[i][kind] = 0
  BY DEF OrphanInv
<1>0. /\ orphans[i]["create"] <= 1
      /\ i \in strays => orphans[i]["create"] = 0
      /\ Lost(i) => past[i] # "fresh" /\ \A k \in DOMAIN calls[i] : calls[i][k].kind # "create"
      /\ i \in Managed => i \notin strays /\ \A kind \in LocalKinds : orphans[i][kind] = 0
      /\ i \in Managed => calls[i] = <<>>
      /\ past[i] = "fresh" => calls[i] = <<>>
      /\ TypeInv /\ "create" \in LocalKinds /\ strays \subseteq Ids
      /\ orphans \in [Ids -> [LocalKinds -> Nat]]
  BY DEF LocalInv, OrphanInv, ToldInv, TypeInv, LocalTypeOK, LocalKinds
<1>t. Tells(i)
  BY IdsMove
<1>1. CASE EngineCrashes
  <2>1. calls'[i] = <<>> /\ DOMAIN calls'[i] = {}
    BY <1>0, <1>1, CallsEnd
  <2>2. /\ strays' = strays /\ past' = past
        /\ \A kind \in LocalKinds :
              orphans'[i][kind] \in {orphans[i][kind], orphans[i][kind] + Held(i, kind)}
    BY <1>1, CrashMoves
  <2>3. /\ Held(i, "create") \in Nat /\ Held(i, "create") <= 1
        /\ (\A k \in DOMAIN calls[i] : calls[i][k].kind # "create") => Held(i, "create") = 0
    BY <1>0, HeldCounts DEF LocalInv, LineInv
  <2>4. calls[i] = <<>> => \A kind \in LocalKinds : Held(i, kind) = 0
    <3>1. calls[i] = <<>> => DOMAIN calls[i] = {}
      OBVIOUS
    <3> QED BY <1>0, <3>1, HeldCounts
  <2>5. orphans[i]["create"] \in Nat
    BY <1>0
  <2>6. CASE Lost(i)
    <3>1. orphans'[i]["create"] = orphans[i]["create"]
      BY <1>0, <2>2, <2>3, <2>5, <2>6
    <3> QED BY <1>0, <2>1, <2>2, <2>4, <2>6, <3>1
  <2>7. CASE ~Lost(i)
    <3>1. orphans'[i]["create"] <= 1 /\ i \notin strays'
      BY <1>0, <2>2, <2>3, <2>7 DEF Lost
    <3>2. past'[i] = "fresh" => ~Lost(i)'
      BY <1>0, <2>2, <2>4, <2>7 DEF Lost
    <3>3. i \in Managed => \A kind \in LocalKinds : orphans'[i][kind] = 0
      BY <1>0, <2>2, <2>4
    <3> QED BY <2>1, <3>1, <3>2, <3>3
  <2> QED BY <2>6, <2>7
<1>2. ASSUME NEW j \in Ids, OrphanCarriesOut(j)
      PROVE  /\ orphans'[i]["create"] <= 1
             /\ i \in strays' => orphans'[i]["create"] = 0
             /\ Lost(i)' => Lost(i) /\ UNCHANGED <<past, calls>>
             /\ i \in Managed => i \notin strays' /\ \A kind \in LocalKinds : orphans'[i][kind] = 0
  <2>1. /\ UNCHANGED <<calls, past>> /\ strays \subseteq strays'
        /\ i \in strays' => i \in strays \/
              (orphans[i]["create"] # 0 /\ orphans'[i]["create"] = orphans[i]["create"] - 1)
        /\ \A kind \in LocalKinds :
              \/ orphans'[i][kind] = orphans[i][kind]
              \/ orphans[i][kind] # 0 /\ orphans'[i][kind] = orphans[i][kind] - 1
    BY <1>2, OrphanMoves
  <2>2. orphans[i]["create"] \in Nat
    BY <1>0
  <2>3. orphans'[i]["create"] <= 1 /\ (orphans[i]["create"] = 0 => orphans'[i]["create"] = 0)
    BY <1>0, <2>1, <2>2
  <2>4. i \in strays' => orphans'[i]["create"] = 0
    BY <1>0, <2>1, <2>2, <2>3
  <2>5. Lost(i)' => Lost(i)
    BY <2>1, <2>3 DEF Lost
  <2>6. i \in Managed => i \notin strays' /\ \A kind \in LocalKinds : orphans'[i][kind] = 0
    BY <1>0, <2>1
  <2> QED BY <2>1, <2>3, <2>4, <2>5, <2>6
<1>3. CASE ~EngineCrashes /\ \A j \in Ids : ~OrphanCarriesOut(j)
  <2>1. orphans' = orphans /\ strays' \subseteq strays
    BY <1>3, FormerMoves
  <2>2. Lost(i)' => Lost(i)
    BY <2>1 DEF Lost
  <2>3. ASSUME Lost(i) PROVE \A k \in DOMAIN calls'[i] : calls'[i][k].kind # "create"
    BY <1>0, <2>3, CreatesAreNew
  <2> QED BY <1>0, <1>t, <2>1, <2>2, <2>3 DEF Tells
<1> QED BY <1>0, <1>1, <1>2, <1>3

\* Who has an answer, or waits for none, has no call.
LEMMA NotInLine ==
    ASSUME LocalInv, NEW w, worker[w].reply # "none" \/ worker[w].pc \in {"idle", "polling", "describing", "answered"},
           NEW i \in Ids, NEW k \in DOMAIN calls[i]
    PROVE  calls[i][k].by # "nobody" => calls[i][k].by # w
<1>1. \A pc \in {"idle", "polling", "describing", "answered"} : Awaits(pc) = {}
  BY DEF Awaits
<1> QED BY <1>1 DEF LocalInv, LineInv

\* The invariant of the calls where no call joins and nobody moves who waits for
\* one that stays.
LEMMA LineKept ==
    ASSUME LocalInv, [Next]_vars, \A i \in Ids : Shrinks(i),
           \A i \in Ids : \A k \in DOMAIN calls'[i] :
              calls'[i][k].by # "nobody" => worker'[calls'[i][k].by] = worker[calls'[i][k].by]
    PROVE  LineInv'
<1> SUFFICES ASSUME NEW i \in Ids, NEW k \in DOMAIN calls'[i]
             PROVE  /\ calls'[i][k].by # "nobody" =>
                          /\ worker'[calls'[i][k].by].id = i /\ worker'[calls'[i][k].by].reply = "none"
                          /\ calls'[i][k].kind \in Awaits(worker'[calls'[i][k].by].pc)
                    /\ calls'[i][k].kind = "create" => k = 1 /\ Has(i)'
                    /\ \A l \in DOMAIN calls'[i] :
                          calls'[i][l].by = calls'[i][k].by => calls'[i][k].by = "nobody" \/ k = l
  BY DEF LineInv, Awaits
<1>1. PICK d \in {0, 1} : \A l \in DOMAIN calls'[i] :
          /\ l \in Nat \ {0} /\ l + d \in DOMAIN calls[i]
          /\ calls'[i][l].kind = calls[i][l + d].kind
          /\ calls'[i][l].by \in {calls[i][l + d].by, "nobody"}
  BY DEF Shrinks
<1> DEFINE c == calls[i][k + d]
<1>2. /\ k \in Nat \ {0} /\ k + d \in DOMAIN calls[i]
      /\ calls'[i][k].kind = c.kind /\ calls'[i][k].by \in {c.by, "nobody"}
  BY <1>1
<1>3. /\ c.by # "nobody" =>
            worker[c.by].id = i /\ worker[c.by].reply = "none" /\ c.kind \in Awaits(worker[c.by].pc)
      /\ c.kind = "create" => k + d = 1 /\ Has(i)
      /\ \A l \in DOMAIN calls[i] : calls[i][l].by = c.by => c.by = "nobody" \/ k + d = l
  BY <1>2 DEF LocalInv, LineInv
<1>4. Keeps(i)
  BY IdsMove
<1> HIDE DEF c
<1>5. ASSUME calls'[i][k].by # "nobody"
      PROVE  /\ worker'[calls'[i][k].by].id = i /\ worker'[calls'[i][k].by].reply = "none"
             /\ calls'[i][k].kind \in Awaits(worker'[calls'[i][k].by].pc)
  BY <1>2, <1>3, <1>5
<1>6. ASSUME calls'[i][k].kind = "create" PROVE k = 1 /\ Has(i)'
  <2>1. k = 1 /\ Has(i)
    BY <1>2, <1>3, <1>6
  <2>2. ~Over(i)
    BY <1>2, <1>6 DEF Over, Quiet, Lost, LocalInv, OrphanInv, c
  <2> QED BY <1>4, <2>1, <2>2 DEF Keeps
<1>7. ASSUME NEW l \in DOMAIN calls'[i], calls'[i][l].by = calls'[i][k].by, calls'[i][k].by # "nobody"
      PROVE  k = l
  <2>1. /\ l \in Nat /\ l + d \in DOMAIN calls[i]
        /\ calls'[i][l].by \in {calls[i][l + d].by, "nobody"}
    BY <1>1
  <2>2. calls[i][l + d].by = c.by /\ c.by # "nobody"
    BY <1>2, <1>7, <2>1
  <2>3. k + d = l + d
    BY <1>3, <2>1, <2>2
  <2> QED BY <1>2, <2>1, <2>3
<1> QED BY <1>5, <1>6, <1>7

\* And where one joins.
LEMMA LineJoined ==
    ASSUME LocalInv, [Next]_vars, NEW w \in Workers, NEW i \in Ids, NEW kind \in LocalKinds,
           Joins(w, i, kind), NEW x, worker' = [worker EXCEPT ![w] = x],
           worker[w].reply # "none" \/ worker[w].pc \in {"idle", "polling", "describing", "answered"},
           x.id = i, x.reply = "none", kind \in Awaits(x.pc), kind = "create" => calls[i] = <<>> /\ Has(i)'
    PROVE  LineInv'
<1>0. worker \in [Workers -> WorkerType] /\ calls \in [Ids -> Seq(Entry)]
  BY DEF LocalInv, TypeInv, LocalTypeOK, WorkerType
<1>w. worker'[w] = x /\ \A v : v # w => worker'[v] = worker[v]
  BY <1>0
<1> SUFFICES ASSUME NEW j \in Ids, NEW k \in DOMAIN calls'[j]
             PROVE  /\ calls'[j][k].by # "nobody" =>
                          /\ worker'[calls'[j][k].by].id = j /\ worker'[calls'[j][k].by].reply = "none"
                          /\ calls'[j][k].kind \in Awaits(worker'[calls'[j][k].by].pc)
                    /\ calls'[j][k].kind = "create" => k = 1 /\ Has(j)'
                    /\ \A l \in DOMAIN calls'[j] :
                          calls'[j][l].by = calls'[j][k].by => calls'[j][k].by = "nobody" \/ k = l
  BY DEF LineInv, Awaits
<1>k. Keeps(j)
  BY IdsMove
<1>1. ASSUME NEW l \in DOMAIN calls[j]
      PROVE  LET c == calls[j][l] IN
             /\ c.by # "nobody" => /\ worker'[c.by] = worker[c.by] /\ c.by # w
                                   /\ worker'[c.by].id = j /\ worker'[c.by].reply = "none"
                                   /\ c.kind \in Awaits(worker'[c.by].pc)
             /\ c.kind = "create" => l = 1 /\ Has(j)'
             /\ \A m \in DOMAIN calls[j] : calls[j][m].by = c.by => c.by = "nobody" \/ l = m
  <2> DEFINE c == calls[j][l]
  <2>1. /\ c.by # "nobody" =>
            worker[c.by].id = j /\ worker[c.by].reply = "none" /\ c.kind \in Awaits(worker[c.by].pc)
        /\ c.kind = "create" => l = 1 /\ Has(j)
        /\ \A m \in DOMAIN calls[j] : calls[j][m].by = c.by => c.by = "nobody" \/ l = m
    BY DEF LocalInv, LineInv
  <2>2. c.by # "nobody" => c.by # w
    BY NotInLine
  <2>3. c.kind = "create" => ~Over(j)
    BY DEF Over, Quiet, Lost, LocalInv, OrphanInv
  <2> HIDE DEF c
  <2>4. c.by # "nobody" => worker'[c.by] = worker[c.by]
    BY <1>w, <2>2
  <2>5. c.kind = "create" => Has(j)'
    BY <1>k, <2>1, <2>3 DEF Keeps
  <2>6. /\ c.by # "nobody" => /\ worker'[c.by] = worker[c.by] /\ c.by # w
                              /\ worker'[c.by].id = j /\ worker'[c.by].reply = "none"
                              /\ c.kind \in Awaits(worker'[c.by].pc)
        /\ c.kind = "create" => l = 1 /\ Has(j)'
        /\ \A m \in DOMAIN calls[j] : calls[j][m].by = c.by => c.by = "nobody" \/ l = m
    BY <2>1, <2>2, <2>4, <2>5
  <2> QED BY <2>6 DEF c
<1>2. CASE j # i
  <2>1. calls'[j] = calls[j]
    BY <1>2 DEF Joins
  <2> QED BY <1>1, <2>1
<1>3. CASE j = i
  <2> DEFINE q == calls[i]
             r == calls'[i]
             e == [by |-> w, kind |-> kind]
  <2>1. DOMAIN q = 1..Len(q) /\ Len(q) \in Nat
    BY <1>0, LenProperties
  <2>2. PICK p \in 1..(Len(q) + 1) :
           /\ p = 1 => q = <<>>
           /\ DOMAIN r = 1..(Len(q) + 1)
           /\ \A l \in 1..(Len(q) + 1) : r[l] = IF l < p THEN q[l] ELSE IF l = p THEN e ELSE q[l - 1]
    BY DEF Joins
  <2>3. e.by = w /\ e.kind = kind
    OBVIOUS
  <2>4. q = <<>> => Len(q) = 0
    OBVIOUS
  <2> HIDE DEF q, r, e
  <2> DEFINE Old(l) == IF l < p THEN l ELSE l - 1
  <2>5. ASSUME NEW l \in 1..(Len(q) + 1), l # p
        PROVE  Old(l) \in DOMAIN q /\ r[l] = q[Old(l)] /\ l \in Nat /\ (Old(l) = 1 => l = 1)
    <3>1. CASE l < p
      BY <2>1, <2>2, <2>5, <3>1
    <3>2. CASE l > p
      <4>1. l - 1 \in DOMAIN q /\ r[l] = q[l - 1]
        BY <2>1, <2>2, <2>5, <3>2
      <4>2. p # 1
        BY <2>1, <2>2, <2>4, <3>2
      <4> QED BY <2>1, <2>2, <3>2, <4>1, <4>2
    <3> QED BY <2>1, <2>2, <2>5, <3>1, <3>2
  <2>6. k \in 1..(Len(q) + 1)
    BY <1>3, <2>2 DEF r
  <2>7. \A l, m \in 1..(Len(q) + 1) : l # p /\ m # p /\ Old(l) = Old(m) => l = m
    BY <2>1, <2>2
  <2> HIDE DEF Old
  <2>8. CASE k = p
    <3>1. r[k] = e
      BY <2>2, <2>6, <2>8
    <3>2. \A l \in 1..(Len(q) + 1) : l # p => r[l].by # w \/ r[l].by = "nobody"
      BY <1>1, <1>3, <2>5 DEF q
    <3>3. kind = "create" => k = 1 /\ Has(i)'
      BY <2>1, <2>2, <2>4, <2>8 DEF q
    <3> QED BY <1>3, <1>w, <2>2, <2>3, <2>8, <3>1, <3>2, <3>3 DEF r
  <2>9. CASE k # p
    <3>1. Old(k) \in DOMAIN q /\ r[k] = q[Old(k)] /\ (Old(k) = 1 => k = 1)
      BY <2>5, <2>6, <2>9
    <3>2. /\ r[k].by # "nobody" =>
                /\ worker'[r[k].by].id = i /\ worker'[r[k].by].reply = "none"
                /\ r[k].kind \in Awaits(worker'[r[k].by].pc) /\ r[k].by # w
          /\ r[k].kind = "create" => k = 1 /\ Has(i)'
      BY <1>1, <1>3, <3>1 DEF q
    <3>3. ASSUME NEW l \in DOMAIN r, r[l].by = r[k].by, r[k].by # "nobody" PROVE k = l
      <4>1. l # p
        BY <2>2, <2>3, <3>2, <3>3
      <4>2. Old(l) \in DOMAIN q /\ r[l] = q[Old(l)]
        BY <2>2, <2>5, <3>3, <4>1
      <4>3. Old(k) = Old(l)
        BY <1>1, <1>3, <3>1, <3>3, <4>2 DEF q
      <4> QED BY <2>2, <2>6, <2>7, <2>9, <3>3, <4>1, <4>3
    <3> QED BY <1>3, <3>2, <3>3 DEF r
  <2> QED BY <2>8, <2>9
<1> QED BY <1>2, <1>3

LEMMA LineInvariant == LocalInv /\ TypeInv' /\ [Next]_vars => LineInv'
<1> SUFFICES ASSUME LocalInv, TypeInv', [Next]_vars
             PROVE  LineInv'
  OBVIOUS
<1>0. /\ TypeInv /\ worker \in [Workers -> WorkerType] /\ calls \in [Ids -> Seq(Entry)]
      /\ records \in [Ids -> Record]
  BY DEF LocalInv, TypeInv, LocalTypeOK, WorkerType
<1> DEFINE Free(w) == worker[w].reply # "none" \/ worker[w].pc \in {"idle", "polling", "describing", "answered"}
\* Somebody who has no call moves on.
<1>1. ASSUME NEW w \in Workers, Free(w), UNCHANGED calls,
             NEW x, worker' = [worker EXCEPT ![w] = x]
      PROVE  LineInv'
  <2>1. \A v : v # w => worker'[v] = worker[v]
    BY <1>0, <1>1
  <2>2. \A i \in Ids : \A k \in DOMAIN calls[i] : calls[i][k].by # "nobody" => calls[i][k].by # w
    BY <1>1, NotInLine
  <2>3. \A i \in Ids : Shrinks(i)
    BY <1>0, <1>1, CallsStay
  <2> QED BY <1>1, <2>1, <2>2, <2>3, LineKept
\* One is answered.
<1>2. ASSUME NEW i \in Ids, calls[i] # <<>>, Next1(i), NEW reply, worker' = Heard(Head(calls[i]).by, reply)
      PROVE  LineInv'
  <2>1. /\ \A j \in Ids : Shrinks(j)
        /\ Head(calls[i]) = calls[i][1] /\ 1 \in DOMAIN calls[i]
        /\ \A j \in Ids \ {i} : calls'[j] = calls[j]
        /\ \A k \in DOMAIN calls'[i] : k \in Nat \ {0} /\ k + 1 \in DOMAIN calls[i] /\ calls'[i][k] = calls[i][k + 1]
    BY <1>0, <1>2, HeadLeaves
  <2> DEFINE h == calls[i][1].by
  <2>2. \A v : v # h => worker'[v] = worker[v]
    BY <1>0, <1>2, <2>1 DEF Heard
  <2>3. h # "nobody" => worker[h].id = i
    BY <2>1 DEF LocalInv, LineInv
  <2>4. ASSUME NEW j \in Ids, NEW k \in DOMAIN calls'[j], calls'[j][k].by # "nobody"
        PROVE  calls'[j][k].by # h
    <3>1. CASE j # i
      <4>1. calls'[j] = calls[j] /\ worker[calls[j][k].by].id = j
        BY <2>1, <2>4, <3>1 DEF LocalInv, LineInv
      <4> QED BY <2>3, <2>4, <3>1, <4>1
    <3>2. CASE j = i
      <4>1. k \in Nat \ {0} /\ k + 1 \in DOMAIN calls[i] /\ calls'[i][k] = calls[i][k + 1]
        BY <2>1, <2>4, <3>2
      <4>2. calls[i][k + 1].by = h => h = "nobody" \/ k + 1 = 1
        BY <2>1, <4>1 DEF LocalInv, LineInv
      <4> QED BY <2>4, <3>2, <4>1, <4>2
    <3> QED BY <3>1, <3>2
  <2> QED BY <2>1, <2>2, <2>4, LineKept
<1>3. ASSUME NEW i \in Ids, CallTimesOut(i) PROVE LineInv'
  <2>1. PICK k \in DOMAIN calls[i] :
           /\ calls[i][k].by # "nobody" /\ worker' = Heard(calls[i][k].by, "error")
           /\ calls' = [calls EXCEPT ![i][k].by = "nobody"]
    BY <1>3 DEF CallTimesOut
  <2>2. /\ \A j \in Ids : Shrinks(j)
        /\ \A j \in Ids \ {i} : calls'[j] = calls[j]
        /\ DOMAIN calls'[i] = DOMAIN calls[i] /\ calls'[i][k].by = "nobody"
        /\ \A l \in DOMAIN calls[i] \ {k} : calls'[i][l] = calls[i][l]
    BY <1>0, <2>1, CallAbandoned
  <2> DEFINE h == calls[i][k].by
  <2>3. \A v : v # h => worker'[v] = worker[v]
    BY <1>0, <2>1 DEF Heard
  <2>4. worker[h].id = i
    BY <2>1 DEF LocalInv, LineInv
  <2>5. ASSUME NEW j \in Ids, NEW l \in DOMAIN calls'[j], calls'[j][l].by # "nobody"
        PROVE  calls'[j][l].by # h
    <3>1. CASE j # i
      <4>1. calls'[j] = calls[j] /\ worker[calls[j][l].by].id = j
        BY <2>2, <2>5, <3>1 DEF LocalInv, LineInv
      <4> QED BY <2>4, <2>5, <3>1, <4>1
    <3>2. CASE j = i
      <4>1. l # k /\ l \in DOMAIN calls[i] /\ calls'[i][l] = calls[i][l]
        BY <2>2, <2>5, <3>2
      <4>2. calls[i][l].by = h => h = "nobody" \/ l = k
        BY <2>1, <4>1 DEF LocalInv, LineInv
      <4> QED BY <2>1, <2>5, <3>2, <4>1, <4>2
    <3> QED BY <3>1, <3>2
  <2> QED BY <2>2, <2>3, <2>5, LineKept
<1>4. CASE EngineCrashes
  BY <1>0, <1>4, CallsEnd, LineKept
<1>5. CASE UNCHANGED <<worker, calls>>
  <2>1. \A i \in Ids : Shrinks(i)
    BY <1>0, <1>5, CallsStay
  <2> QED BY <1>5, <2>1, LineKept
\* One joins.
<1>6. ASSUME NEW w \in Workers, NEW i \in Ids, NEW kind \in LocalKinds, Call(w, i, kind), Free(w),
             NEW x, worker' = [worker EXCEPT ![w] = x],
             x.id = i, x.reply = "none", kind \in Awaits(x.pc), kind = "create" => calls[i] = <<>> /\ Has(i)'
      PROVE  LineInv'
  <2>1. Joins(w, i, kind)
    BY <1>0, <1>6, CallJoins
  <2> QED BY <1>6, <2>1, LineJoined
<1> HIDE DEF Free
<1>7. ASSUME NEW w \in Workers, Request(w) PROVE LineInv'
  <2>1. PICK i \in Ids : \/ CreateBegins(w, i) \/ DeleteBegins(w, i) \/ StartBegins(w, i) \/ GetBegins(w, i)
                         \/ \E kind \in {"shutdown", "force-stop"} : StopBegins(w, i, kind)
    BY <1>7 DEF Request
  <2>s. ASSUME NEW op, NEW pc, Serve(w, op, i, pc)
        PROVE  Free(w) /\ \E x : worker' = [worker EXCEPT ![w] = x] /\ x.id = i /\ x.reply = "none" /\ x.pc = pc
    <3>1. LET x == [Idle EXCEPT !.op = op, !.id = i, !.pc = pc] IN x.id = i /\ x.reply = "none" /\ x.pc = pc
      BY DEF Idle
    <3> QED BY <2>s, <3>1 DEF Serve, Free
  <2>2. CASE CreateBegins(w, i)
    <3>1. PICK x : worker' = [worker EXCEPT ![w] = x] /\ x.id = i /\ x.reply = "none" /\ x.pc = "creating"
      BY <2>2, <2>s DEF CreateBegins
    <3>2. calls[i] = <<>>
      BY <2>2 DEF CreateBegins, LocalInv, ToldInv
    <3>3. Has(i)'
      <4> DEFINE new == [NoRecord EXCEPT !.kind = "local"]
      <4>1. new.kind = "local" /\ records' = [records EXCEPT ![i] = new]
        BY <2>2 DEF NoRecord, CreateBegins
      <4> HIDE DEF new
      <4> QED BY <1>0, <4>1 DEF Has
    <3> QED BY <1>6, <2>2, <2>s, <3>1, <3>2, <3>3 DEF CreateBegins, LocalKinds, Awaits
  <2>3. CASE DeleteBegins(w, i)
    <3>1. PICK x : worker' = [worker EXCEPT ![w] = x] /\ x.id = i /\ x.reply = "none" /\ x.pc = "settling"
      BY <2>3, <2>s DEF DeleteBegins
    <3> QED BY <1>6, <2>3, <2>s, <3>1 DEF DeleteBegins, LocalKinds, Awaits
  <2>4. CASE StartBegins(w, i)
    <3>1. PICK x : worker' = [worker EXCEPT ![w] = x] /\ x.id = i /\ x.reply = "none" /\ x.pc = "commanding"
      BY <2>4, <2>s DEF StartBegins
    <3> QED BY <1>6, <2>4, <2>s, <3>1 DEF StartBegins, LocalKinds, Awaits
  <2>5. CASE GetBegins(w, i)
    BY <1>1, <2>5 DEF GetBegins, Describe, Free
  <2>6. ASSUME NEW kind \in {"shutdown", "force-stop"}, StopBegins(w, i, kind) PROVE LineInv'
    <3>1. PICK x : worker' = [worker EXCEPT ![w] = x] /\ x.id = i /\ x.reply = "none" /\ x.pc = "commanding"
      BY <2>6, <2>s DEF StopBegins
    <3>2. Call(w, i, kind) /\ Free(w)
      BY <2>6, <2>s DEF StopBegins
    <3>3. kind \in LocalKinds /\ kind \in Awaits("commanding") /\ kind # "create"
      BY DEF LocalKinds, Awaits
    <3> QED BY <1>6, <3>1, <3>2, <3>3
  <2> QED BY <2>1, <2>2, <2>3, <2>4, <2>5, <2>6
<1>8. ASSUME NEW w \in Workers, Progress(w) \/ SettleGivesUp(w) PROVE LineInv'
  <2>g. ASSUME NEW pc, Goto(w, pc)
        PROVE  \E x : worker' = [worker EXCEPT ![w] = x] /\ x.id = worker[w].id /\ x.reply = "none" /\ x.pc = pc
    <3> DEFINE x == [worker[w] EXCEPT !.pc = pc, !.reply = "none"]
    <3>1. x.id = worker[w].id /\ x.reply = "none" /\ x.pc = pc
      BY <1>0 DEF WorkerType
    <3>2. worker' = [worker EXCEPT ![w] = x]
      BY <1>0, <2>g DEF Goto
    <3> QED BY <3>1, <3>2
  <2>f. ASSUME NEW pc, NEW replies, At(w, pc, replies), "none" \notin replies \/ pc \in {"polling", "describing"}
        PROVE  Free(w)
    BY <2>f DEF At, Free
  <2>n. "none" \notin CallReplies /\ "none" # "ok"
    BY DEF CallReplies
  <2>1. CASE Created(w)
    <3>1. PICK x : worker' = [worker EXCEPT ![w] = x] /\ x.id = worker[w].id /\ x.reply = "none" /\ x.pc = "starting"
      BY <2>1, <2>g DEF Created
    <3>2. Free(w) /\ worker[w].id \in Ids
      BY <2>1, <2>f, <2>n, WorkerHasId DEF Created, At, ActivePcs
    <3> QED BY <1>6, <2>1, <3>1, <3>2 DEF Created, LocalKinds, Awaits
  <2>2. CASE RollsBack(w)
    <3>1. PICK x : worker' = [worker EXCEPT ![w] = x] /\ x.id = worker[w].id /\ x.reply = "none" /\ x.pc = "settling"
      BY <2>2, <2>g DEF RollsBack
    <3>2. Free(w) /\ worker[w].id \in Ids
      BY <2>2, <2>f, <2>n, WorkerHasId DEF RollsBack, At, ActivePcs
    <3> QED BY <1>6, <2>2, <3>1, <3>2 DEF RollsBack, LocalKinds, Awaits
  <2>3. CASE PollSettles(w)
    <3>1. PICK x : worker' = [worker EXCEPT ![w] = x] /\ x.id = worker[w].id /\ x.reply = "none" /\ x.pc = "removing"
      BY <2>3, <2>g DEF PollSettles
    <3>2. Free(w) /\ worker[w].id \in Ids
      BY <2>3, <2>f, WorkerHasId DEF PollSettles, At, ActivePcs
    <3> QED BY <1>6, <2>3, <3>1, <3>2 DEF PollSettles, LocalKinds, Awaits
  <2>4. CASE Settles(w)
    <3>1. PICK x : worker' = [worker EXCEPT ![w] = x]
      BY <2>4, <2>g DEF Settles
    <3> QED BY <1>1, <2>4, <2>f, <2>n, <3>1 DEF Settles
  <2>5. CASE SettleGivesUp(w) \/ Destroyed(w) \/ CommandFails(w) \/ CreateAnswers(w) \/ Commanded(w)
    <3>1. UNCHANGED calls /\ \E x : worker' = [worker EXCEPT ![w] = x]
      BY <2>5 DEF SettleGivesUp, Destroyed, CommandFails, CreateAnswers, Commanded, TornDown, Done, Describe
    <3>2. Free(w)
      BY <2>5, <2>f, <2>n DEF SettleGivesUp, Destroyed, CommandFails, CreateAnswers, Commanded
    <3> QED BY <1>1, <3>1, <3>2
  <2>6. CASE Presents(w) \/ Answers(w)
    <3>1. UNCHANGED calls /\ \E x : worker' = [worker EXCEPT ![w] = x]
      BY <2>6 DEF Presents, Answers, Done
    <3>2. Free(w)
      BY <2>6 DEF Presents, Answers, At, Free
    <3> QED BY <1>1, <3>1, <3>2
  <2> QED BY <1>8, <2>1, <2>2, <2>3, <2>4, <2>5, <2>6 DEF Progress
<1>9. ASSUME NEW i \in Ids, RuntimeCarriesOut(i) \/ RuntimeFails(i) PROVE LineInv'
  <2>1. calls[i] # <<>> /\ Next1(i) /\ \E reply : worker' = Heard(Head(calls[i]).by, reply)
    BY <1>9 DEF RuntimeCarriesOut, RuntimeFails
  <2> QED BY <1>2, <2>1
<1>10. CASE EngineStarts \/ (\E i \in Ids : MachineStops(i) \/ OrphanCarriesOut(i)) \/ UNCHANGED vars
  BY <1>5, <1>10 DEF EngineStarts, MachineStops, OrphanCarriesOut, vars
<1> QED BY <1>3, <1>4, <1>7, <1>8, <1>9, <1>10 DEF Next

\* What WorkInv says of a worker about i after a step.
Serves(w, i) ==
    /\ worker'[w].id = i /\ past'[i] # "fresh"
    /\ worker'[w].pc = "removing" /\ worker'[w].reply = "ok" => Over(i)'
    /\ worker'[w].op = "create" => ~Lost(i)' /\ (Has(i)' \/ Absent(i)')
    /\ worker'[w].pc \in MakerPcs => worker'[w].op \in {"create", "delete"}

\* A worker goes on with what it is about.
LEMMA WorkKept ==
    ASSUME LocalInv, TypeInv', [Next]_vars, NEW w \in Workers, worker[w].pc \in ActivePcs,
           worker'[w].pc \in ActivePcs, worker'[w].id = worker[w].id, worker'[w].op = worker[w].op,
           worker'[w].pc \in MakerPcs => worker[w].pc \in MakerPcs,
           \A i \in Ids : /\ i = worker[w].id /\ worker'[w].pc = "removing" /\ worker'[w].reply = "ok"
                           /\ (Over(i) => Over(i)')
                           => Over(i)'
    PROVE  \E i \in Ids \ Managed : Serves(w, i)
<1>1. PICK i \in Ids \ Managed : i = worker[w].id
  BY WorkerHasId
<1>2. /\ past[i] # "fresh"
      /\ worker[w].op = "create" => ~Lost(i) /\ (Has(i) \/ Absent(i))
      /\ worker[w].pc \in MakerPcs => worker[w].op \in {"create", "delete"}
  BY <1>1 DEF LocalInv, WorkInv
<1>3. /\ Keeps(i) /\ Tells(i) /\ (Absent(i) => Absent(i)') /\ (Over(i) => Over(i)')
      /\ ~EngineCrashes /\ ~Lost(i) => ~Lost(i)'
  BY <1>2, IdsMove, FormerStays
<1>4. ~EngineCrashes
  BY DEF EngineCrashes, Idle, ActivePcs
<1>5. past'[i] # "fresh"
  BY <1>2, <1>3 DEF Tells
<1>6. ASSUME worker[w].op = "create" PROVE ~Lost(i)' /\ (Has(i)' \/ Absent(i)')
  <2>1. CASE Has(i) /\ ~Has(i)'
    <3>1. Over(i) /\ (Absent(i) \/ past'[i] = "deleted")
      BY <1>3, <2>1 DEF Keeps
    <3>2. Absent(i)
      BY <1>2, <1>6, <3>1 DEF Over, Lost, Absent
    <3> QED BY <1>2, <1>3, <1>4, <1>6, <3>2
  <2>2. CASE ~(Has(i) /\ ~Has(i)')
    BY <1>2, <1>3, <1>4, <1>6, <2>2
  <2> QED BY <2>1, <2>2
<1> QED BY <1>1, <1>2, <1>3, <1>5, <1>6 DEF Serves

LEMMA WorkInvariant == LocalInv /\ TypeInv' /\ [Next]_vars => WorkInv'
<1> SUFFICES ASSUME LocalInv, TypeInv', [Next]_vars, NEW v \in Workers, worker'[v].pc \in ActivePcs
             PROVE  \E i \in Ids \ Managed : Serves(v, i)
  <2>1. ASSUME NEW v \in Workers, NEW i \in Ids \ Managed, Serves(v, i)
        PROVE  /\ worker'[v].id \in Ids \ Managed /\ past'[worker'[v].id] # "fresh"
               /\ At(v, "removing", {"ok"})' => Over(worker[v].id)'
               /\ worker'[v].op = "create" =>
                     ~Lost(worker[v].id)' /\ (Has(worker[v].id)' \/ Absent(worker[v].id)')
               /\ worker'[v].pc \in MakerPcs => worker'[v].op \in {"create", "delete"}
    BY <2>1 DEF Serves, At, Over, Quiet, Absent, Lost, Has
  <2>2. ASSUME NEW v \in Workers, worker'[v].pc \in ActivePcs => \E i \in Ids \ Managed : Serves(v, i)
        PROVE  worker'[v].pc \in ActivePcs =>
                  /\ worker'[v].id \in Ids \ Managed /\ past'[worker'[v].id] # "fresh"
                  /\ At(v, "removing", {"ok"})' => Over(worker[v].id)'
                  /\ worker'[v].op = "create" =>
                        ~Lost(worker[v].id)' /\ (Has(worker[v].id)' \/ Absent(worker[v].id)')
                  /\ worker'[v].pc \in MakerPcs => worker'[v].op \in {"create", "delete"}
    BY <2>1, <2>2
  <2> QED BY <2>2 DEF WorkInv, ActivePcs, MakerPcs
<1>0. /\ TypeInv /\ worker \in [Workers -> WorkerType] /\ calls \in [Ids -> Seq(Entry)]
      /\ records \in [Ids -> Record] /\ machine \in [Ids -> Machine]
      /\ past \in [Ids -> {"fresh", "known", "failed", "deleted"}]
  BY DEF LocalInv, TypeInv, LocalTypeOK, WorkerType
<1>a. At(v, "removing", {"ok"}) /\ worker[v].pc \in ActivePcs => Over(worker[v].id)
  BY DEF LocalInv, WorkInv
<1>1. CASE worker'[v] = worker[v]
  <2>1. \A i \in Ids : /\ i = worker[v].id /\ worker'[v].pc = "removing" /\ worker'[v].reply = "ok"
                        /\ (Over(i) => Over(i)')
                        => Over(i)'
    BY <1>a, <1>1 DEF At, ActivePcs
  <2> QED BY <1>1, <2>1, WorkKept
\* It makes its next call.
<1>2. ASSUME NEW pc, Goto(v, pc), worker[v].pc \in MakerPcs PROVE \E i \in Ids \ Managed : Serves(v, i)
  <2> DEFINE x == [worker[v] EXCEPT !.pc = pc, !.reply = "none"]
  <2>1. x.id = worker[v].id /\ x.op = worker[v].op /\ x.reply = "none"
    BY <1>0 DEF WorkerType
  <2>2. worker'[v] = x
    BY <1>0, <1>2 DEF Goto
  <2> HIDE DEF x
  <2> QED BY <1>2, <2>1, <2>2, WorkKept DEF MakerPcs, ActivePcs
\* It begins.
<1>3. ASSUME Request(v) PROVE \E j \in Ids \ Managed : Serves(v, j)
  <2>1. PICK j \in Ids : \/ CreateBegins(v, j) \/ DeleteBegins(v, j) \/ StartBegins(v, j) \/ GetBegins(v, j)
                         \/ \E kind \in {"shutdown", "force-stop"} : StopBegins(v, j, kind)
    BY <1>3 DEF Request
  <2>2. ASSUME NEW op, NEW pc, Serve(v, op, j, pc)
        PROVE  worker'[v].id = j /\ worker'[v].reply = "none" /\ worker'[v].op = op /\ worker'[v].pc = pc
    <3> DEFINE x == [Idle EXCEPT !.op = op, !.id = j, !.pc = pc]
    <3>1. x.id = j /\ x.reply = "none" /\ x.op = op /\ x.pc = pc
      BY DEF Idle
    <3>2. worker'[v] = x
      BY <1>0, <2>2 DEF Serve
    <3> HIDE DEF x
    <3> QED BY <3>1, <3>2
  <2>3. Keeps(j) /\ Tells(j)
    BY IdsMove
  <2>4. CASE CreateBegins(v, j)
    <3>1. worker'[v].id = j /\ worker'[v].reply = "none" /\ worker'[v].op = "create"
      BY <2>2, <2>4 DEF CreateBegins
    <3>2. j \notin Managed /\ past'[j] # "fresh"
      BY <1>0, <2>4 DEF CreateBegins, LocalInv, ToldInv
    <3>3. Has(j)'
      <4> DEFINE new == [NoRecord EXCEPT !.kind = "local"]
      <4>1. new.kind = "local" /\ records' = [records EXCEPT ![j] = new]
        BY <2>4 DEF NoRecord, CreateBegins
      <4> HIDE DEF new
      <4> QED BY <1>0, <4>1 DEF Has
    <3>4. ~Lost(j)'
      BY <2>4 DEF CreateBegins, former, LocalInv, OrphanInv, Lost
    <3> QED BY <3>1, <3>2, <3>3, <3>4 DEF Serves
  <2>5. CASE GetBegins(v, j)
    <3>1. worker'[v].pc = "describing"
      BY <1>0, <2>5 DEF GetBegins, Describe, Idle
    <3> QED BY <3>1 DEF ActivePcs
  <2>6. CASE \/ DeleteBegins(v, j) \/ StartBegins(v, j)
             \/ \E kind \in {"shutdown", "force-stop"} : StopBegins(v, j, kind)
    <3>1. /\ Local(j)
          /\ \/ \E pc \in Pcs : Serve(v, "delete", j, pc)
             \/ \E op \in {"start", "stop"} : Serve(v, op, j, "commanding")
      BY <2>6 DEF DeleteBegins, StartBegins, StopBegins, Pcs
    <3>2. /\ worker'[v].id = j /\ worker'[v].reply = "none" /\ worker'[v].op # "create"
          /\ worker'[v].pc \in MakerPcs => worker'[v].op = "delete"
      BY <2>2, <3>1 DEF MakerPcs
    <3>3. j \notin Managed /\ past[j] # "fresh"
      BY <3>1 DEF LocalInv, ToldInv, Local, Has
    <3> QED BY <2>3, <3>2, <3>3 DEF Serves, Tells
  <2> QED BY <2>1, <2>4, <2>5, <2>6
\* It hears of its call.
<1>4. ASSUME NEW j \in Ids, NEW k \in DOMAIN calls[j], NEW reply, worker' = Heard(calls[j][k].by, reply),
             worker'[v] # worker[v],
             reply = "ok" /\ calls[j][k].kind = "destroy" => Over(j)'
      PROVE  \E i \in Ids \ Managed : Serves(v, i)
  <2>1. calls[j][k].by = v /\ v # "nobody"
    BY <1>0, <1>4 DEF Heard
  <2>2. worker[v].id = j /\ calls[j][k].kind \in Awaits(worker[v].pc)
    BY <2>1 DEF LocalInv, LineInv
  <2>3. worker[v].pc \in ActivePcs /\ (worker[v].pc = "removing" => calls[j][k].kind = "destroy")
    BY <2>2 DEF Awaits, ActivePcs
  <2> DEFINE x == [worker[v] EXCEPT !.reply = reply]
  <2>4. x.id = worker[v].id /\ x.op = worker[v].op /\ x.reply = reply /\ x.pc = worker[v].pc
    BY <1>0 DEF WorkerType
  <2>5. worker'[v] = x
    BY <1>0, <1>4, <2>1 DEF Heard
  <2> HIDE DEF x
  <2>6. \A i \in Ids : /\ i = worker[v].id /\ worker'[v].pc = "removing" /\ worker'[v].reply = "ok"
                        /\ (Over(i) => Over(i)')
                        => Over(i)'
    BY <1>4, <2>2, <2>3, <2>4, <2>5
  <2> QED BY <2>3, <2>4, <2>5, <2>6, WorkKept
<1>5. ASSUME NEW j \in Ids, RuntimeCarriesOut(j), worker'[v] # worker[v]
      PROVE  \E i \in Ids \ Managed : Serves(v, i)
  <2>1. /\ Head(calls[j]) = calls[j][1] /\ 1 \in DOMAIN calls[j] /\ Head(calls[j]).kind \in LocalKinds
        /\ \A k \in DOMAIN calls'[j] :
              k \in Nat \ {0} /\ k + 1 \in DOMAIN calls[j] /\ calls'[j][k] = calls[j][k + 1]
    BY <1>0, <1>5, HeadLeaves DEF RuntimeCarriesOut, Entry
  <2>2. PICK o \in Outcomes(Head(calls[j]).kind, machine[j], 1, TRUE) :
            machine' = [machine EXCEPT ![j] = o.machine] /\ worker' = Heard(Head(calls[j]).by, o.reply)
    BY <1>5 DEF RuntimeCarriesOut
  <2>3. ASSUME o.reply = "ok", Head(calls[j]).kind = "destroy" PROVE Over(j)'
    <3>1. ~machine'[j].exists
      BY <1>0, <2>1, <2>2, <2>3, LocalOutcome
    <3>2. ASSUME NEW k \in DOMAIN calls'[j] PROVE calls'[j][k].kind # "create"
      <4>1. k + 1 \in DOMAIN calls[j] /\ k + 1 # 1 /\ calls'[j][k] = calls[j][k + 1]
        BY <2>1
      <4> QED BY <4>1 DEF LocalInv, LineInv
    <3> QED BY <3>1, <3>2 DEF Over, Quiet
  <2> QED BY <1>4, <1>5, <2>1, <2>2, <2>3
<1>6. ASSUME NEW j \in Ids, RuntimeFails(j), worker'[v] # worker[v]
      PROVE  \E i \in Ids \ Managed : Serves(v, i)
  <2>1. Head(calls[j]) = calls[j][1] /\ 1 \in DOMAIN calls[j]
    BY <1>0, <1>6, HeadLeaves DEF RuntimeFails
  <2> QED BY <1>4, <1>6, <2>1 DEF RuntimeFails
<1>7. ASSUME NEW j \in Ids, CallTimesOut(j), worker'[v] # worker[v]
      PROVE  \E i \in Ids \ Managed : Serves(v, i)
  BY <1>4, <1>7 DEF CallTimesOut
\* It is done, or only describes.
<1>8. ASSUME NEW w \in Workers, Describe(w, worker[w].id) \/ Done(w) \/ Presents(w), worker'[v] # worker[v]
      PROVE  FALSE
  <2>1. {"describing", "idle", "answered"} \cap ActivePcs = {}
    BY DEF ActivePcs
  <2>2. ASSUME NEW x, worker' = [worker EXCEPT ![w] = x], x.pc \in {"describing", "idle", "answered"}
        PROVE  FALSE
    <3>1. worker'[v] = x
      BY <1>0, <1>8, <2>2
    <3> QED BY <2>1, <2>2, <3>1
  <2>3. /\ \A i : [Idle EXCEPT !.pc = "describing", !.id = i].pc = "describing"
        /\ \A s, status : [Idle EXCEPT !.pc = "answered", !.reply = s, !.status = status].pc = "answered"
        /\ Idle.pc = "idle"
    BY DEF Idle
  <2>4. CASE Describe(w, worker[w].id) \/ Done(w)
    BY <2>2, <2>3, <2>4 DEF Describe, Done
  <2>5. CASE Presents(w)
    <3>1. PICK s, status : worker' = [worker EXCEPT ![w] = [Idle EXCEPT !.pc = "answered", !.reply = s,
                                                                    !.status = status]]
      BY <2>5 DEF Presents
    <3> DEFINE x == [Idle EXCEPT !.pc = "answered", !.reply = s, !.status = status]
    <3>2. worker' = [worker EXCEPT ![w] = x] /\ x.pc = "answered"
      BY <2>3, <3>1
    <3> HIDE DEF x
    <3> QED BY <2>2, <3>2
  <2> QED BY <1>8, <2>4, <2>5
<1>9. ASSUME NEW w \in Workers, Progress(w) \/ SettleGivesUp(w), worker'[v] # worker[v]
      PROVE  \E i \in Ids \ Managed : Serves(v, i)
  <2>1. CASE Created(w) \/ RollsBack(w) \/ PollSettles(w) \/ Settles(w)
    <3>1. worker[w].pc \in MakerPcs /\ \E pc : Goto(w, pc)
      BY <2>1 DEF Created, RollsBack, PollSettles, Settles, At, MakerPcs
    <3>2. v = w
      BY <1>0, <1>9, <3>1 DEF Goto
    <3> QED BY <1>2, <3>1, <3>2
  <2>2. CASE \/ SettleGivesUp(w) \/ Destroyed(w) \/ Commanded(w) \/ CommandFails(w) \/ CreateAnswers(w)
             \/ Presents(w) \/ Answers(w)
    <3>1. Describe(w, worker[w].id) \/ Done(w) \/ Presents(w)
      BY <2>2 DEF SettleGivesUp, Destroyed, Commanded, CommandFails, CreateAnswers, Answers, TornDown
    <3> QED BY <1>8, <1>9, <3>1
  <2> QED BY <1>9, <2>1, <2>2 DEF Progress
<1>10. ASSUME NEW w \in Workers, Request(w), worker'[v] # worker[v]
       PROVE  \E i \in Ids \ Managed : Serves(v, i)
  <2>1. v = w
    BY <1>0, <1>10
    DEF Request, CreateBegins, DeleteBegins, StartBegins, StopBegins, GetBegins, Serve, Describe
  <2> QED BY <1>3, <1>10, <2>1
<1>11. ASSUME EngineCrashes PROVE FALSE
  BY <1>11 DEF EngineCrashes, Idle, ActivePcs
<1>12. EngineStarts \/ (\E i \in Ids : MachineStops(i) \/ OrphanCarriesOut(i)) \/ UNCHANGED vars => worker' = worker
  BY DEF EngineStarts, MachineStops, OrphanCarriesOut, vars
<1> QED BY <1>1, <1>5, <1>6, <1>7, <1>9, <1>10, <1>11, <1>12 DEF Next

-----------------------------------------------------------------------------
(* Theorems *)

LEMMA LocalInvariant == LocalInv /\ [Next]_vars => LocalInv'
<1> SUFFICES ASSUME LocalInv, [Next]_vars PROVE LocalInv'
  OBVIOUS
<1>1. TypeInv'
  BY TypeInvariant
<1> QED BY <1>1, LineInvariant, OrphanInvariant, WorkInvariant, ToldInvariant DEF LocalInv

LEMMA LocalInit == Init => LocalInv
<1> SUFFICES ASSUME Init PROVE LocalInv
  OBVIOUS
<1>1. TypeInv
  <2>1. worker \in [Workers -> WorkerType]
    <3>1. Idle \in WorkerType
      BY DEF Idle, WorkerType, Pcs, Ops
    <3> QED BY <3>1 DEF Init
  <2>2. records \in [Ids -> Record]
    <3>1. \A kind \in Kinds : [NoRecord EXCEPT !.kind = kind] \in Record
      BY DEF NoRecord, Record
    <3>2. \A i \in Ids : \E kind \in Kinds : records[i] = [NoRecord EXCEPT !.kind = kind]
      BY DEF Init, Kinds
    <3>3. \A i \in Ids : records[i] \in Record
      BY <3>1, <3>2
    <3>4. \E f : records = [i \in Ids |-> f[i]]
      <4> DEFINE f == [i \in Ids |-> [NoRecord EXCEPT !.kind = IF i \in Cloud THEN "cloud"
                                      ELSE IF i \in Tombstones THEN "tombstone" ELSE "none"]]
      <4>1. records = f
        BY DEF Init
      <4>2. f = [i \in Ids |-> f[i]]
        OBVIOUS
      <4> QED BY <4>1, <4>2
    <3> QED BY <3>3, <3>4
  <2>3. machine \in [Ids -> Machine]
    <3>1. NoMachine \in Machine /\ Found("on") \in Machine /\ Found("off") \in Machine
      BY DEF NoMachine, Found, Machine, Power
    <3> QED BY <3>1 DEF Init
  <2>4. calls \in [Ids -> Seq(Entry)] /\ orphans \in [Ids -> [LocalKinds -> Nat]] /\ strays \subseteq Ids
    BY EmptySeq DEF Init
  <2>5. past \in [Ids -> {"fresh", "known", "failed", "deleted"}] /\ faults \in 0..MaxFaults /\ engine = "down"
    BY LocalConstants DEF Init
  <2> QED BY <2>1, <2>2, <2>3, <2>4, <2>5 DEF TypeInv, LocalTypeOK, WorkerType, Entry
<1>2. \A i \in Ids : DOMAIN calls[i] = {} /\ calls[i] = <<>>
  BY DEF Init
<1>3. LineInv
  BY <1>2 DEF LineInv
<1>o. OrphanInv
  BY <1>2 DEF Init, OrphanInv, Lost, LocalKinds
<1>4. WorkInv
  BY DEF Init, WorkInv, Idle, ActivePcs
<1>5. ToldInv
  <2>1. ASSUME NEW i \in Ids
        PROVE  records[i].kind = IF i \in Cloud THEN "cloud" ELSE IF i \in Tombstones THEN "tombstone" ELSE "none"
    <3>1. \A kind \in Kinds : [NoRecord EXCEPT !.kind = kind].kind = kind
      BY DEF NoRecord
    <3> QED BY <3>1 DEF Init, Kinds
  <2>2. \A i \in Ids : past[i] = IF machine[i].exists \/ i \in Managed THEN "known" ELSE "fresh"
    BY DEF Init
  <2>3. (\A i \in Ids : past[i] \in {"known", "fresh"}) /\ engine = "down"
    BY <2>2 DEF Init
  <2>4. \A i \in Ids : /\ i \in Managed => Has(i) /\ ~Local(i) /\ past[i] # "fresh"
                       /\ past[i] = "fresh" => ~Has(i) /\ ~machine[i].exists
    BY <2>1, <2>2, LocalConstants DEF Has, Local, Managed
  <2> QED BY <1>2, <2>3, <2>4 DEF ToldInv
<1> QED BY <1>1, <1>3, <1>o, <1>4, <1>5 DEF LocalInv

LEMMA LocalAlways == Spec => []LocalInv
BY LocalInit, LocalInvariant, PTL DEF Spec

\* The variables of the local API keep their types.
THEOREM LocalTypeCorrect == Spec => []LocalTypeOK
<1>1. LocalInv => LocalTypeOK
  BY DEF LocalInv, TypeInv
<1> QED BY <1>1, LocalAlways, PTL

\* Whatever fails, times out or crashes, once an engine has listed the runtime's
\* machines every machine has a record, unless a create that had outlived its engine
\* made it (server.js:47-50, 175-179).
THEOREM MachinesAreNamed == Spec => []NothingNameless
<1>1. LocalInv => NothingNameless
  BY DEF LocalInv, ToldInv, NothingNameless
<1> QED BY <1>1, LocalAlways, PTL

\* A create that was answered with an error left no machine, and will leave none,
\* by this engine or an earlier one, unless its record says so (server.js:180-186).
THEOREM FailedCreatesAreFlagged == Spec => []FailedCreateIsFlagged
<1>1. LocalInv => FailedCreateIsFlagged
  BY DEF LocalInv, ToldInv, FailedCreateIsFlagged, Absent, Quiet
<1> QED BY <1>1, LocalAlways, PTL

\* What a DELETE answered with 200 has removed never comes back, unless by a create
\* that has outlived its engine (server.js:203-222).
THEOREM DeletedMachinesStayGone == Spec => []DeletedStaysGone
<1>1. LocalInv => DeletedStaysGone
  BY DEF LocalInv, ToldInv, DeletedStaysGone, Quiet
<1> QED BY <1>1, LocalAlways, PTL

\* No step of this API disturbs a machine of the private host API, its record or
\* its line (server.js:55-57, 199-200).
THEOREM ManagedMachinesAreUntouched == Spec => ManagedIsUntouched
<1>1. LocalInv /\ [Next]_vars =>
        [\A i \in Managed : /\ records'[i] = records[i]
                            /\ machine'[i].exists = machine[i].exists
                            /\ calls'[i] = <<>> /\ orphans'[i] = orphans[i]]_vars
  <2> SUFFICES ASSUME LocalInv, [Next]_vars, NEW i \in Managed
               PROVE  /\ records'[i] = records[i] /\ machine'[i].exists = machine[i].exists
                      /\ calls'[i] = <<>> /\ orphans'[i] = orphans[i]
    OBVIOUS
  <2>1. i \in Ids /\ machine \in [Ids -> Machine]
    BY LocalConstants DEF Managed, LocalInv, TypeInv, LocalTypeOK
  <2>2. records'[i] = records[i] /\ calls[i] = <<>>
    BY <2>1, IdsMove DEF Keeps, LocalInv, ToldInv
  <2>3. LocalInv'
    BY LocalInvariant
  <2>4. calls'[i] = <<>>
    BY <2>1, <2>3 DEF LocalInv, ToldInv
  <2>o. \A kind \in LocalKinds : orphans[i][kind] = 0 /\ orphans'[i][kind] = 0
    BY <2>1, <2>3 DEF LocalInv, OrphanInv
  <2>p. orphans'[i] = orphans[i]
    <3>1. orphans[i] \in [LocalKinds -> Nat] /\ orphans'[i] \in [LocalKinds -> Nat]
      BY <2>1, <2>3 DEF LocalInv, TypeInv, LocalTypeOK
    <3> QED BY <2>o, <3>1
  <2>5. ASSUME NEW j \in Ids, RuntimeCarriesOut(j) \/ OrphanCarriesOut(j) PROVE machine'[i] = machine[i]
    <3>1. CASE RuntimeCarriesOut(j)
      BY <2>1, <2>2, <3>1 DEF RuntimeCarriesOut
    <3>2. CASE OrphanCarriesOut(j)
      <4>1. PICK kind \in LocalKinds : orphans[j][kind] > 0
        BY <3>2 DEF OrphanCarriesOut
      <4>2. j # i
        BY <2>o, <4>1
      <4> QED BY <2>1, <3>2, <4>2 DEF OrphanCarriesOut
    <3> QED BY <2>5, <3>1, <3>2
  <2>6. machine'[i].exists = machine[i].exists
    BY <2>1, <2>5, RuntimeMoves
  <2> QED BY <2>2, <2>4, <2>p, <2>6
<1> QED BY <1>1, LocalAlways, PTL DEF Spec, ManagedIsUntouched
=============================================================================
