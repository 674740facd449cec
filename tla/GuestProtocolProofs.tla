-------------------------- MODULE GuestProtocolProofs --------------------------
(***************************************************************************)
(* What GuestProtocol promises for any number of boots, restores, requests *)
(* in flight and lost answers. Machine tokens are 32 random bytes: that a  *)
(* new one is not in use is the one assumption, made of an infinite supply.*)
(***************************************************************************)
EXTENDS GuestProtocol, TLAPS, FiniteSetTheorems

TokensSuffice == \A S : IsFiniteSet(S) => \E t \in Tokens : t \notin S

InFlight == {m.token : m \in net}

\* The part of the types the arguments need.
Typed ==
    /\ rec \in Record /\ stored \in Store /\ net \subseteq Request
    /\ guest \in [pc: Pcs, boot: Nat, seed: Nat]
    /\ answer \in [status: Nat, token: Tokens \cup {"none"}, desired: {"none", "running", "stopped"}]
    /\ IsFiniteSet(InFlight)

\* The daemon may send what is stored.
Speaking == guest.pc \notin {"off", "start", "clearing"}

\* Another computer's credential is stored with that computer's name, and never
\* where the daemon speaks.
ForkInv ==
    /\ ~misled
    /\ stored.token = "other" => stored.computer = "other" /\ ~Speaking
    /\ \A m \in net : m.token # "other"

\* A boot knows the current seed, as a restore needs the guest to be off; a
\* heartbeat that still authenticates was sent by such a boot.
RevokeInv ==
    /\ RestoreRevokes
    /\ guest.pc # "off" => guest.seed = rec.seed
    /\ \A m \in net : m.kind = "heartbeat" /\ m.token # "none" /\ m.token = rec.hash
                         => m.seed = rec.seed

LEMMA InitHolds == Init => Typed /\ ForkInv /\ RevokeInv
<1> SUFFICES ASSUME Init PROVE Typed /\ ForkInv /\ RevokeInv
    OBVIOUS
<1> USE GuestConstants
<1>1. IsFiniteSet(InFlight)
    <2>1. InFlight = {}
        BY DEF Init, InFlight
    <2> QED BY <2>1, FS_EmptySet
<1>2. Typed
    BY <1>1 DEF Init, Typed, Record, Store, Blank, Foreign, Pcs, NoAnswer
<1>3. ForkInv
    BY DEF Init, ForkInv, Blank, Foreign, Speaking
<1>4. RevokeInv
    BY DEF Init, RevokeInv, RestoreRevokes
<1> QED BY <1>2, <1>3, <1>4

\* A new token is a token, and neither stored nor on its way.
LEMMA FreshIsFresh ==
    ASSUME TokensSuffice, Typed
    PROVE  Fresh \in Tokens /\ Fresh \notin InUse
<1>1. IsFiniteSet({rec.hash} \cup {stored.token} \cup {answer.token} \cup InFlight)
    <2>1. IsFiniteSet(InFlight)
        BY DEF Typed
    <2>2. IsFiniteSet(InFlight \cup {rec.hash})
        BY <2>1, FS_AddElement
    <2>3. IsFiniteSet((InFlight \cup {rec.hash}) \cup {stored.token})
        BY <2>2, FS_AddElement
    <2>4. IsFiniteSet(((InFlight \cup {rec.hash}) \cup {stored.token}) \cup {answer.token})
        BY <2>3, FS_AddElement
    <2>5. ((InFlight \cup {rec.hash}) \cup {stored.token}) \cup {answer.token}
            = {rec.hash} \cup {stored.token} \cup {answer.token} \cup InFlight
        OBVIOUS
    <2> QED BY <2>4, <2>5
<1>2. InUse = {rec.hash} \cup {stored.token} \cup {answer.token} \cup InFlight
    BY DEF InUse, InFlight
<1>3. \E t \in Tokens : t \notin InUse
    BY <1>1, <1>2 DEF TokensSuffice
<1> QED BY <1>3 DEF Fresh

\* Whatever waits no longer was sent before, as it is.
LEMMA AbandonedIsKept ==
    ASSUME Typed, NEW n \in Abandoned
    PROVE  /\ n \subseteq Request
           /\ \A m \in n : \E k \in net : m.kind = k.kind /\ m.token = k.token /\ m.seed = k.seed
<1>1. CASE n = Late
    BY <1>1 DEF Late, Typed
<1>2. CASE n = {[m EXCEPT !.live = FALSE] : m \in net}
    <2> SUFFICES ASSUME NEW m \in n
                 PROVE  m \in Request /\ \E k \in net : m.kind = k.kind /\ m.token = k.token /\ m.seed = k.seed
        OBVIOUS
    <2>1. PICK k \in net : m = [k EXCEPT !.live = FALSE]
        BY <1>2
    <2>2. k \in Request
        BY DEF Typed
    <2>3. m \in Request /\ m.kind = k.kind /\ m.token = k.token /\ m.seed = k.seed
        BY <2>1, <2>2 DEF Request
    <2> QED BY <2>3
<1> QED BY <1>1, <1>2 DEF Abandoned

LEMMA FewerInFlight ==
    ASSUME Typed, NEW n, \A m \in n : \E k \in net : m.token = k.token
    PROVE  IsFiniteSet({m.token : m \in n})
<1>1. {m.token : m \in n} \in SUBSET InFlight
    BY DEF InFlight
<1> QED BY <1>1, FS_Subset DEF Typed

LEMMA OneMoreInFlight ==
    ASSUME Typed, NEW r
    PROVE  IsFiniteSet({m.token : m \in net \cup {r}})
<1>1. {m.token : m \in net \cup {r}} = InFlight \cup {r.token}
    BY DEF InFlight
<1> QED BY <1>1, FS_AddElement DEF Typed

-----------------------------------------------------------------------------
(* Every action keeps the three invariants *)

Inv == Typed /\ ForkInv /\ RevokeInv

\* A request is sent with what is stored, by a daemon that may.
LEMMA SendsKeeps ==
    ASSUME Inv, guest.pc \in {"register", "beat", "ack"},
           NEW kind \in {"register", "heartbeat", "ack"}, NEW next \in Pcs \ {"off", "start", "clearing"},
           Sends(kind, next)
    PROVE  Inv'
<1> DEFINE r == [kind |-> kind, token |-> IF kind = "register" THEN "none" ELSE stored.token,
                 seed |-> guest.seed, boot |-> guest.boot, key |-> TRUE, live |-> TRUE]
<1>1. /\ net' = net \cup {r} /\ guest' = [guest EXCEPT !.pc = next]
      /\ UNCHANGED <<rec, stored, answer, misled, faults>>
    BY DEF Sends, Goto
<1>2. r \in Request /\ r.token # "other" /\ r.seed = rec.seed /\ r.kind = kind
    BY DEF Inv, Typed, ForkInv, RevokeInv, Speaking, Request, Store
<1> HIDE DEF r
<1>3. IsFiniteSet(InFlight')
    BY <1>1, OneMoreInFlight DEF InFlight, Inv
<1>4. Typed'
    BY <1>1, <1>2, <1>3 DEF Inv, Typed
<1>5. ForkInv'
    BY <1>1, <1>2 DEF Inv, ForkInv, Typed, Speaking
<1>6. RevokeInv'
    BY <1>1, <1>2 DEF Inv, RevokeInv, RestoreRevokes, Typed
<1> QED BY <1>4, <1>5, <1>6 DEF Inv

\* The daemon stops waiting.
LEMMA AbandonsKeeps ==
    ASSUME Inv, net' \in Abandoned, answer' = NoAnswer, UNCHANGED <<rec, stored, misled>>,
           NEW pc \in Pcs, guest' = [guest EXCEPT !.pc = pc],
           pc = "off" \/ (Speaking /\ pc \notin {"start", "clearing"})
    PROVE  Inv'
<1>1. net' \subseteq Request /\ \A m \in net' : \E k \in net : m.kind = k.kind /\ m.token = k.token
                                                               /\ m.seed = k.seed
    BY AbandonedIsKept DEF Inv
<1>2. IsFiniteSet(InFlight')
    BY <1>1, FewerInFlight DEF InFlight, Inv
<1>3. Typed'
    BY <1>1, <1>2 DEF Inv, Typed, NoAnswer
<1>4. ForkInv'
    BY <1>1 DEF Inv, ForkInv, Typed, Speaking
<1>5. RevokeInv'
    BY <1>1 DEF Inv, RevokeInv, RestoreRevokes, Typed, Speaking
<1> QED BY <1>3, <1>4, <1>5 DEF Inv

\* The steps of the daemon that send nothing and change at most the store.
LEMMA QuietKeeps ==
    ASSUME Inv, EnsureRegistered \/ ClearIdentity \/ Registered \/ Named \/ Heard \/ Unauthorized
                \/ Acknowledged \/ Halts
    PROVE  Inv'
<1>1. net' = net /\ rec' = rec /\ misled' = misled /\ (answer' = answer \/ answer' = NoAnswer)
    BY DEF EnsureRegistered, ClearIdentity, Registered, Named, Heard, Unauthorized, Acknowledged,
           Halts, Receives
<1>2. guest.pc # "off" /\ \E pc \in Pcs : guest' = [guest EXCEPT !.pc = pc]
    <2>1. guest' = guest => guest' = [guest EXCEPT !.pc = guest.pc]
        BY DEF Inv, Typed
    <2> QED BY <2>1 DEF Inv, Typed, EnsureRegistered, ClearIdentity, Registered, Named, Heard,
               Unauthorized, Acknowledged, Halts, Goto, Pcs
<1>3. stored' \in Store /\ (stored'.token = "other" => stored'.computer = "other" /\ ~Speaking')
    <2>1. CASE EnsureRegistered \/ Heard \/ Acknowledged \/ Halts
        BY <2>1 DEF Inv, Typed, ForkInv, Speaking, EnsureRegistered, Heard, Acknowledged, Halts, Goto,
                    IsForeign, Store, Pcs
    <2>2. CASE ClearIdentity
        BY <2>2 DEF Inv, Typed, ForkInv, Speaking, ClearIdentity, Goto, Blank, Store, Pcs
    <2>3. CASE Registered
        BY <2>3, GuestConstants DEF Inv, Typed, ForkInv, Speaking, Registered, Goto, Store, Pcs
    <2>4. CASE Named
        BY <2>4 DEF Inv, Typed, ForkInv, Speaking, Named, Goto, Store, Pcs
    <2>5. CASE Unauthorized
        BY <2>5 DEF Inv, Typed, ForkInv, Speaking, Unauthorized, Goto, Store, Pcs
    <2> QED BY <2>1, <2>2, <2>3, <2>4, <2>5
<1>4. Typed'
    BY <1>1, <1>2, <1>3 DEF Inv, Typed, NoAnswer, InFlight
<1>5. ForkInv'
    BY <1>1, <1>3 DEF Inv, ForkInv
<1>6. RevokeInv'
    BY <1>1, <1>2 DEF Inv, RevokeInv, RestoreRevokes, Typed
<1> QED BY <1>4, <1>5, <1>6 DEF Inv

\* The engine has one request less to handle.
LEMMA AnswersKeeps ==
    ASSUME Inv, NEW m \in net, NEW status \in Nat, NEW token \in Tokens \cup {"none"},
           NEW desired \in {"none", "running", "stopped"},
           Answers(m, status, token, desired)
    PROVE  /\ net' \subseteq net /\ IsFiniteSet(InFlight')
           /\ answer' \in [status : Nat, token : Tokens \cup {"none"}, desired : {"none", "running", "stopped"}]
           /\ UNCHANGED <<stored, guest>>
<1>1. net' = net \ {m} /\ UNCHANGED <<stored, guest>>
    BY DEF Answers
<1>2. IsFiniteSet(InFlight')
    <2>1. \A x \in net' : \E k \in net : x.token = k.token
        BY <1>1
    <2> QED BY <2>1, FewerInFlight DEF InFlight, Inv
<1>3. answer' \in [status : Nat, token : Tokens \cup {"none"}, desired : {"none", "running", "stopped"}]
    BY DEF Answers, Inv, Typed
<1> QED BY <1>1, <1>2, <1>3

LEMMA RegisterKeeps ==
    ASSUME TokensSuffice, Inv, NEW m \in net, Register(m)
    PROVE  Inv'
<1> USE GuestConstants
<1>1. Fresh \in Tokens /\ Fresh \notin InUse
    BY FreshIsFresh DEF Inv
<1>2. m \in Request
    BY DEF Inv, Typed
<1>3. CASE Redeemable(m)
    <2>1. rec' = [rec EXCEPT !.hash = Fresh, !.hashSeed = m.seed] /\ Answers(m, 200, Fresh, "none")
          /\ misled' = misled /\ m.seed = rec.seed
        BY <1>3 DEF Register, Redeemable
    <2>2. /\ net' \subseteq net /\ IsFiniteSet(InFlight') /\ UNCHANGED <<stored, guest>>
          /\ answer' \in [status : Nat, token : Tokens \cup {"none"}, desired : {"none", "running", "stopped"}]
        BY <1>1, <2>1, AnswersKeeps, SMTT(20)
    <2>3. \A k \in net : k.token # Fresh
        BY <1>1 DEF InUse
    <2>4. rec' \in Record /\ rec'.hash = Fresh /\ rec'.hashSeed = rec'.seed /\ rec'.seed = rec.seed
          /\ rec'.beat = rec.beat /\ rec'.beatSeed = rec.beatSeed
        BY <1>1, <1>2, <2>1 DEF Inv, Typed, Record, Request
    <2>5. Typed'
        BY <2>2, <2>4 DEF Inv, Typed
    <2>6. ForkInv'
        BY <2>1, <2>2 DEF Inv, ForkInv, Speaking
    <2>7. RevokeInv'
        BY <2>2, <2>3, <2>4 DEF Inv, RevokeInv, RestoreRevokes
    <2> QED BY <2>5, <2>6, <2>7 DEF Inv
<1>4. CASE ~Redeemable(m)
    <2>1. rec' = rec /\ Answers(m, 401, "none", "none") /\ misled' = misled
        BY <1>4 DEF Register
    <2>2. /\ net' \subseteq net /\ IsFiniteSet(InFlight') /\ UNCHANGED <<stored, guest>>
          /\ answer' \in [status : Nat, token : Tokens \cup {"none"}, desired : {"none", "running", "stopped"}]
        BY <2>1, AnswersKeeps
    <2>3. Typed'
        BY <2>1, <2>2 DEF Inv, Typed
    <2>4. ForkInv'
        BY <2>1, <2>2 DEF Inv, ForkInv, Speaking
    <2>5. RevokeInv'
        BY <2>1, <2>2 DEF Inv, RevokeInv, RestoreRevokes
    <2> QED BY <2>3, <2>4, <2>5 DEF Inv
<1> QED BY <1>3, <1>4

LEMMA ReportKeeps ==
    ASSUME Inv, NEW m \in net, Heartbeat(m) \/ ShutdownAck(m)
    PROVE  Inv'
<1>1. m \in Request /\ m.token # "other"
    BY DEF Inv, Typed, ForkInv
<1>2. ~misled'
    <2>1. ~misled /\ misled' = (misled \/ m.token = "other")
        BY DEF Heartbeat, ShutdownAck, Inv, ForkInv
    <2> QED BY <1>1, <2>1, Zenon
<1>3. \/ Answers(m, 200, "none", rec.desired) \/ Answers(m, 204, "none", "none")
      \/ Answers(m, 401, "none", "none")
    BY DEF Heartbeat, ShutdownAck
<1>4. /\ net' \subseteq net /\ IsFiniteSet(InFlight') /\ UNCHANGED <<stored, guest>>
      /\ answer' \in [status : Nat, token : Tokens \cup {"none"}, desired : {"none", "running", "stopped"}]
    <2>1. rec.desired \in {"none", "running", "stopped"}
        BY DEF Inv, Typed, Record
    <2> QED BY <1>3, <2>1, AnswersKeeps
<1>5. /\ rec' \in Record /\ rec'.hash = rec.hash /\ rec'.hashSeed = rec.hashSeed /\ rec'.seed = rec.seed
      /\ rec'.beat # 0 => rec'.beatSeed = rec.seed
    <2>1. CASE Heartbeat(m)
        BY <2>1, <1>1, ZenonT(40) DEF Heartbeat, Authenticated, Inv, Typed, Record, Request, RevokeInv, RestoreRevokes
    <2>2. CASE ShutdownAck(m)
        BY <2>2 DEF ShutdownAck, Inv, Typed, Record, RevokeInv, RestoreRevokes
    <2> QED BY <2>1, <2>2
<1>6. Typed'
    BY <1>4, <1>5 DEF Inv, Typed
<1>7. ForkInv'
    BY <1>2, <1>4 DEF Inv, ForkInv, Speaking
<1>8. RevokeInv'
    BY <1>4, <1>5 DEF Inv, RevokeInv, RestoreRevokes
<1> QED BY <1>6, <1>7, <1>8 DEF Inv

LEMMA RestoreKeeps == ASSUME Inv, Restore PROVE Inv'
<1>1. /\ guest.pc = "off" /\ UNCHANGED <<guest, net, answer, misled>>
      /\ stored' \in {stored, Foreign}
    BY DEF Restore
<1>2. rec' \in Record /\ rec'.hash = "none" /\ rec'.beat = 0
    <2>1. rec \in Record
        BY DEF Inv, Typed
    <2>2. rec' = [rec EXCEPT !.seed = rec.seed + 1, !.hash = "none", !.hashSeed = 0, !.beat = 0,
                             !.beatSeed = 0, !.desired = "stopped"]
        BY DEF Restore
    <2>3. rec.seed + 1 \in Nat
        BY <2>1 DEF Record
    <2> HIDE DEF Restore
    <2> QED BY <2>1, <2>2, <2>3 DEF Record
<1>3. Typed'
    BY <1>1, <1>2 DEF Inv, Typed, Store, Foreign, InFlight
<1>4. ForkInv'
    BY <1>1 DEF Inv, ForkInv, Speaking, Foreign
<1>5. RevokeInv'
    BY <1>1, <1>2 DEF Inv, RevokeInv, RestoreRevokes
<1> QED BY <1>3, <1>4, <1>5 DEF Inv

LEMMA ReplaysKeeps ==
    ASSUME Inv, NEW seed \in Nat, NEW key \in BOOLEAN, Replays(seed, key)
    PROVE  Inv'
<1> DEFINE r == [kind |-> "register", token |-> "none", seed |-> seed, boot |-> 0,
                 key |-> key, live |-> FALSE]
<1>1. net' = net \cup {r} /\ UNCHANGED <<rec, stored, guest, answer, misled>>
    BY DEF Replays
<1>2. r \in Request /\ r.token = "none"
    BY DEF Request
<1> HIDE DEF r
<1>3. IsFiniteSet(InFlight')
    BY <1>1, OneMoreInFlight DEF InFlight, Inv
<1>4. Typed'
    BY <1>1, <1>2, <1>3 DEF Inv, Typed
<1>5. ForkInv'
    BY <1>1, <1>2 DEF Inv, ForkInv, Speaking
<1>6. RevokeInv'
    BY <1>1, <1>2 DEF Inv, RevokeInv, RestoreRevokes
<1> QED BY <1>4, <1>5, <1>6 DEF Inv

\* What is left: the guest boots, the operator commands, nothing happens.
LEMMA RestKeeps ==
    ASSUME Inv, Boots \/ (\E d \in {"running", "stopped"} : Commands(d)) \/ UNCHANGED vars
    PROVE  Inv'
<1>1. CASE Boots
    <2>1. /\ UNCHANGED <<rec, stored, net, answer, misled>>
          /\ guest' = [pc |-> "start", boot |-> guest.boot + 1, seed |-> rec.seed]
        BY <1>1 DEF Boots
    <2>2. guest' \in [pc : Pcs, boot : Nat, seed : Nat] /\ guest'.pc = "start" /\ guest'.seed = rec.seed
        BY <2>1 DEF Inv, Typed, Record, Pcs
    <2>3. Typed'
        BY <2>1, <2>2 DEF Inv, Typed, InFlight
    <2>4. ForkInv'
        BY <2>1, <2>2 DEF Inv, ForkInv, Speaking
    <2>5. RevokeInv'
        BY <2>1, <2>2 DEF Inv, RevokeInv, RestoreRevokes
    <2> QED BY <2>3, <2>4, <2>5 DEF Inv
<1>2. CASE \E d \in {"running", "stopped"} : Commands(d)
    <2>1. UNCHANGED <<stored, guest, net, answer, misled>>
        BY <1>2 DEF Commands
    <2>2. /\ rec' \in Record /\ rec'.hash = rec.hash /\ rec'.hashSeed = rec.hashSeed
          /\ rec'.seed = rec.seed /\ rec'.beat = rec.beat /\ rec'.beatSeed = rec.beatSeed
        BY <1>2 DEF Commands, Inv, Typed, Record
    <2>3. Typed'
        BY <2>1, <2>2 DEF Inv, Typed, InFlight
    <2>4. ForkInv'
        BY <2>1 DEF Inv, ForkInv, Speaking
    <2>5. RevokeInv'
        BY <2>1, <2>2 DEF Inv, RevokeInv, RestoreRevokes
    <2> QED BY <2>3, <2>4, <2>5 DEF Inv
<1>3. CASE UNCHANGED vars
    BY <1>3 DEF vars, Inv, Typed, ForkInv, RevokeInv, RestoreRevokes, Speaking, InFlight
<1> QED BY <1>1, <1>2, <1>3

LEMMA StepKeeps == ASSUME TokensSuffice, Inv, [Next]_vars PROVE Inv'
<1>1. CASE Registers \/ Beats \/ Acks
    <2>1. CASE Registers
        BY <2>1, SendsKeeps DEF Registers, Pcs
    <2>2. CASE Beats
        BY <2>2, SendsKeeps DEF Beats, Pcs
    <2>3. CASE Acks
        BY <2>3, SendsKeeps DEF Acks, Pcs
    <2> QED BY <1>1, <2>1, <2>2, <2>3
<1>2. CASE EnsureRegistered \/ ClearIdentity \/ Registered \/ Named \/ Heard \/ Unauthorized
           \/ Acknowledged \/ Halts
    BY <1>2, QuietKeeps
<1>3. CASE GivesUp
    <2>1. \E pc \in {"register", "beat", "halting"} : guest' = [guest EXCEPT !.pc = pc]
        BY <1>3 DEF GivesUp, Goto
    <2>2. net' \in Abandoned /\ answer' = NoAnswer /\ UNCHANGED <<rec, stored, misled>> /\ Speaking
        BY <1>3 DEF GivesUp, Waiting, Speaking
    <2> QED BY <2>1, <2>2, AbandonsKeeps DEF Pcs
<1>4. CASE Ends
    BY <1>4, AbandonsKeeps DEF Ends, Goto, Pcs
<1>5. CASE Handles
    BY <1>5, RegisterKeeps, ReportKeeps DEF Handles
<1>6. CASE Restore
    BY <1>6, RestoreKeeps
<1>7. CASE \E s \in 1..rec.seed, key \in BOOLEAN : Replays(s, key)
    BY <1>7, ReplaysKeeps DEF Inv, Typed, Record
<1>8. CASE Boots \/ (\E d \in {"running", "stopped"} : Commands(d)) \/ UNCHANGED vars
    BY <1>8, RestKeeps
<1> QED BY <1>1, <1>2, <1>3, <1>4, <1>5, <1>6, <1>7, <1>8 DEF Next, Daemon

-----------------------------------------------------------------------------
(* Theorems *)

LEMMA InvHolds == ASSUME TokensSuffice PROVE Spec => []Inv
<1>1. Init => Inv
    BY InitHolds DEF Inv
<1>2. Inv /\ [Next]_vars => Inv'
    BY StepKeeps
<1> QED BY <1>1, <1>2, PTL DEF Spec

\* A guest never speaks with a credential that came with another computer's disk,
\* however often it is cut off (daemon.go:211-226).
THEOREM ForkHolds == ASSUME TokensSuffice PROVE Spec => []ForkIsItself
<1>1. Inv => ForkIsItself
    BY DEF Inv, ForkInv, ForkIsItself
<1> QED BY <1>1, InvHolds, PTL

\* Nothing of the time before a restore survives it, whatever was under way
\* (host-storage.js:51-59).
THEOREM RestoreHolds == ASSUME TokensSuffice PROVE Spec => []RestoreRevokes
<1>1. Inv => RestoreRevokes
    BY DEF Inv, RevokeInv
<1> QED BY <1>1, InvHolds, PTL

-----------------------------------------------------------------------------
(* How many requests there are, and who waits *)

\* At most one request is waited for, by a daemon that has no answer yet.
WaitInv ==
    /\ IsFiniteSet(net) /\ Cardinality(Late) <= MaxLate
    /\ guest.boot <= MaxBoots /\ misled \in BOOLEAN /\ faults \in 0..MaxFaults
    /\ answer.status \in {0, 200, 204, 401}
    /\ answer # NoAnswer => Waiting
    /\ \A m \in net : m.live => Waiting /\ answer = NoAnswer /\ \A k \in net : k.live => k = m

LEMMA LateIsFinite ==
    ASSUME NEW S, IsFiniteSet(S)
    PROVE  LET L == {m \in S : ~m.live} IN IsFiniteSet(L) /\ Cardinality(L) \in Nat
<1> DEFINE L == {m \in S : ~m.live}
<1>1. L \in SUBSET S
    OBVIOUS
<1>2. IsFiniteSet(L)
    BY <1>1, FS_Subset
<1> QED BY <1>2, FS_CardinalityType

\* Nobody waits while the daemon is elsewhere, so nothing is live.
LEMMA NobodyWaits ==
    ASSUME WaitInv, ~Waiting
    PROVE  answer = NoAnswer /\ \A m \in net : ~m.live
BY DEF WaitInv

\* One request less, or one answer more.
LEMMA AnswersWait ==
    ASSUME Typed, WaitInv, NEW m \in net, NEW status \in {200, 204, 401}, NEW token, NEW desired,
           Answers(m, status, token, desired), misled' \in BOOLEAN
    PROVE  WaitInv'
<1>1. net' = net \ {m} /\ UNCHANGED <<guest, faults>>
    BY DEF Answers
<1>2. IsFiniteSet(net')
    BY <1>1, FS_RemoveElement DEF WaitInv
<1>3. Cardinality(Late') <= MaxLate
    <2>1. Late' \in SUBSET Late
        BY <1>1 DEF Late
    <2>2. IsFiniteSet(Late) /\ Cardinality(Late) \in Nat
        BY LateIsFinite DEF WaitInv, Late
    <2>3. Cardinality(Late') <= Cardinality(Late) /\ IsFiniteSet(Late')
        BY <2>1, <2>2, FS_Subset
    <2>4. Cardinality(Late') \in Nat
        BY <2>3, FS_CardinalityType
    <2> QED BY <2>2, <2>3, <2>4, GuestConstants DEF WaitInv
<1>4. CASE m.live
    <2>1. Waiting /\ \A k \in net' : ~k.live
        BY <1>1, <1>4 DEF WaitInv
    <2>2. answer' = [status |-> status, token |-> token, desired |-> desired] /\ Waiting'
        BY <1>1, <1>4, <2>1 DEF Answers, Waiting
    <2> QED BY <1>1, <1>2, <1>3, <2>1, <2>2 DEF WaitInv
<1>5. CASE ~m.live
    <2>1. answer' = answer /\ (Waiting' <=> Waiting)
        BY <1>1, <1>5 DEF Answers, Waiting
    <2> QED BY <1>1, <1>2, <1>3, <2>1 DEF WaitInv
<1> QED BY <1>4, <1>5

\* One request more that nobody waits for.
LEMMA LateWaits ==
    ASSUME WaitInv, Cardinality(Late) < MaxLate, NEW r, ~r.live
    PROVE  LET L == Late \cup {r} IN IsFiniteSet(L) /\ Cardinality(L) <= MaxLate
<1>1. IsFiniteSet(Late) /\ Cardinality(Late) \in Nat
    BY LateIsFinite DEF WaitInv, Late
<1>2. /\ IsFiniteSet(Late \cup {r})
      /\ Cardinality(Late \cup {r}) = IF r \in Late THEN Cardinality(Late) ELSE Cardinality(Late) + 1
    BY <1>1, FS_AddElement
<1> QED BY <1>1, <1>2, GuestConstants

\* What is abandoned is late: at most one request more.
LEMMA AbandonedWaits ==
    ASSUME Typed, WaitInv, NEW n \in Abandoned
    PROVE  /\ IsFiniteSet(n) /\ \A m \in n : ~m.live
           /\ Cardinality({m \in n : ~m.live}) <= MaxLate
<1>0. IsFiniteSet(Late) /\ Cardinality(Late) \in Nat
    BY LateIsFinite DEF WaitInv, Late
<1>1. CASE n = Late
    <2>1. {m \in n : ~m.live} = Late
        BY <1>1 DEF Late
    <2> QED BY <1>0, <1>1, <2>1 DEF WaitInv, Late
<1>2. CASE Cardinality(Late) < MaxLate /\ n = {[m EXCEPT !.live = FALSE] : m \in net}
    <2>1. \A m \in n : ~m.live
        <3> SUFFICES ASSUME NEW k \in net PROVE ~([k EXCEPT !.live = FALSE]).live
            BY <1>2
        <3> QED BY DEF Typed, Request
    <2>2. \A m \in Late : [m EXCEPT !.live = FALSE] = m
        BY DEF Late, Typed, Request
    <2>3. {m \in n : ~m.live} = n
        BY <2>1
    <2>4. CASE \E k \in net : k.live
        <3>1. PICK k \in net : k.live
            BY <2>4
        <3> DEFINE r == [k EXCEPT !.live = FALSE]
        <3>2. net = Late \cup {k}
            BY <3>1 DEF WaitInv, Late
        <3>3. n = Late \cup {r}
            <4>1. n = {[m EXCEPT !.live = FALSE] : m \in Late \cup {k}}
                BY <1>2, <3>2
            <4>2. n = {[m EXCEPT !.live = FALSE] : m \in Late} \cup {r}
                BY <4>1
            <4>3. {[m EXCEPT !.live = FALSE] : m \in Late} = Late
                BY <2>2
            <4> QED BY <4>2, <4>3
        <3>4. ~r.live
            BY <3>1 DEF Typed, Request
        <3> HIDE DEF r
        <3> QED BY <1>2, <2>1, <2>3, <3>3, <3>4, LateWaits
    <2>5. CASE ~\E k \in net : k.live
        <3>1. net = Late
            BY <2>5 DEF Late
        <3>2. n = Late
            BY <1>2, <2>2, <3>1
        <3> QED BY <1>0, <2>1, <2>3, <3>2 DEF WaitInv
    <2> QED BY <2>4, <2>5
<1> QED BY <1>1, <1>2 DEF Abandoned

LEMMA InitWaits == Init => WaitInv
<1> SUFFICES ASSUME Init PROVE WaitInv
    OBVIOUS
<1>1. net = {} /\ Late = {} /\ answer = NoAnswer /\ guest.boot = 0 /\ misled = FALSE /\ faults = 0
    BY DEF Init, Late
<1>2. IsFiniteSet(net) /\ Cardinality(Late) <= MaxLate
    BY <1>1, FS_EmptySet, GuestConstants
<1>3. faults \in 0..MaxFaults /\ guest.boot <= MaxBoots
    BY <1>1, GuestConstants
<1> QED BY <1>1, <1>2, <1>3 DEF WaitInv, NoAnswer

\* The daemon's steps that neither send nor wait for anything new.
LEMMA DaemonWaits ==
    ASSUME Typed, WaitInv, UNCHANGED <<net, misled, faults>>, \A m \in net : ~m.live,
           answer' = NoAnswer, guest'.boot = guest.boot
    PROVE  WaitInv'
BY DEF WaitInv, Late, NoAnswer

LEMMA SendsWait ==
    ASSUME Typed, WaitInv, guest.pc \in {"register", "beat", "ack"}, NEW kind,
           NEW next \in {"registering", "beating", "acking"}, Sends(kind, next)
    PROVE  WaitInv'
<1> DEFINE r == [kind |-> kind, token |-> IF kind = "register" THEN "none" ELSE stored.token,
                 seed |-> guest.seed, boot |-> guest.boot, key |-> TRUE, live |-> TRUE]
<1>1. /\ net' = net \cup {r} /\ guest' = [guest EXCEPT !.pc = next]
      /\ UNCHANGED <<answer, misled, faults>> /\ r.live
    BY DEF Sends, Goto
<1> HIDE DEF r
<1>2. answer = NoAnswer /\ \A m \in net : ~m.live
    BY NobodyWaits DEF Waiting
<1>3. Waiting' /\ guest'.boot = guest.boot
    BY <1>1 DEF Waiting, Typed
<1>4. Late' = Late
    BY <1>1 DEF Late
<1>5. IsFiniteSet(net')
    BY <1>1, FS_AddElement DEF WaitInv
<1> QED BY <1>1, <1>2, <1>3, <1>4, <1>5 DEF WaitInv

LEMMA StepWaits == ASSUME Typed, WaitInv, [Next]_vars PROVE WaitInv'
<1>0. guest \in [pc : Pcs, boot : Nat, seed : Nat]
    BY DEF Typed
<1>1. CASE Registers \/ Beats \/ Acks
    BY <1>1, SendsWait DEF Registers, Beats, Acks
<1>2. CASE EnsureRegistered \/ ClearIdentity \/ Named \/ Halts
    <2>1. ~Waiting /\ UNCHANGED <<net, misled, faults, answer>> /\ guest'.boot = guest.boot
        BY <1>0, <1>2 DEF EnsureRegistered, ClearIdentity, Named, Halts, Waiting, Goto
    <2> QED BY <2>1, NobodyWaits, DaemonWaits
<1>3. CASE Registered \/ Heard \/ Unauthorized \/ Acknowledged
    <2>1. answer.status \in {200, 204, 401} /\ UNCHANGED <<net, misled, faults>> /\ answer' = NoAnswer
          /\ guest'.boot = guest.boot
        BY <1>0, <1>3 DEF Registered, Heard, Unauthorized, Acknowledged, Receives, Goto
    <2>2. \A m \in net : ~m.live
        BY <2>1 DEF WaitInv, NoAnswer
    <2> QED BY <2>1, <2>2, DaemonWaits
<1>4. CASE GivesUp \/ Ends
    <2>1. net' \in Abandoned /\ answer' = NoAnswer /\ misled' = misled /\ guest'.boot = guest.boot
        BY <1>0, <1>4 DEF GivesUp, Ends, Goto
    <2>2. faults' \in 0..MaxFaults
        BY <1>4, GuestConstants DEF GivesUp, Ends, WaitInv
    <2>3. IsFiniteSet(net') /\ (\A m \in net' : ~m.live) /\ Cardinality(Late') <= MaxLate
        BY <2>1, AbandonedWaits DEF Late
    <2> QED BY <2>1, <2>2, <2>3 DEF WaitInv, NoAnswer
<1>5. CASE Handles
    <2>1. PICK m \in net : Register(m) \/ Heartbeat(m) \/ ShutdownAck(m)
        BY <1>5 DEF Handles
    <2>2. misled' \in BOOLEAN
        BY <2>1 DEF Register, Heartbeat, ShutdownAck, WaitInv
    <2>3. \E status \in {200, 204, 401}, token \in {Fresh, "none"}, desired \in {rec.desired, "none"} :
             Answers(m, status, token, desired)
        BY <2>1 DEF Register, Heartbeat, ShutdownAck
    <2> QED BY <2>2, <2>3, AnswersWait
<1>6. CASE \E s \in 1..rec.seed, key \in BOOLEAN : Replays(s, key)
    <2>1. PICK s \in 1..rec.seed, key \in BOOLEAN : Replays(s, key)
        BY <1>6
    <2> DEFINE r == [kind |-> "register", token |-> "none", seed |-> s, boot |-> 0,
                     key |-> key, live |-> FALSE]
    <2>2. /\ net' = net \cup {r} /\ Cardinality(Late) < MaxLate /\ ~r.live
          /\ UNCHANGED <<guest, answer, misled>>
        BY <2>1 DEF Replays
    <2>5. faults' \in 0..MaxFaults
        BY <2>1, GuestConstants DEF Replays, WaitInv
    <2> HIDE DEF r
    <2>3. Late' = Late \cup {r} /\ (Waiting' <=> Waiting)
        BY <2>2 DEF Late, Waiting
    <2>4. IsFiniteSet(net') /\ Cardinality(Late') <= MaxLate
        BY <2>2, <2>3, LateWaits, FS_AddElement DEF WaitInv
    <2> QED BY <2>2, <2>3, <2>4, <2>5 DEF WaitInv
<1>7. CASE Boots \/ Restore
    <2>1. UNCHANGED <<net, answer, misled, faults>> /\ guest'.boot <= MaxBoots /\ ~Waiting
        BY <1>0, <1>7, GuestConstants DEF Boots, Restore, Waiting, WaitInv
    <2>2. answer = NoAnswer /\ \A m \in net : ~m.live
        BY <2>1, NobodyWaits
    <2> QED BY <2>1, <2>2 DEF WaitInv, Late
<1>8. CASE (\E d \in {"running", "stopped"} : Commands(d)) \/ UNCHANGED vars
    <2>1. UNCHANGED <<guest, net, answer, misled, faults>>
        BY <1>8 DEF Commands, vars
    <2>2. Late' = Late /\ (Waiting' <=> Waiting)
        BY <2>1 DEF Late, Waiting
    <2> QED BY <2>1, <2>2 DEF WaitInv
<1> QED BY <1>1, <1>2, <1>3, <1>4, <1>5, <1>6, <1>7, <1>8 DEF Next, Daemon

\* Every reachable state is well typed: at most one request is waited for, and an
\* answer is only there for a daemon that waits (daemon.go:155-209).
THEOREM GuestTypeCorrect == ASSUME TokensSuffice PROVE Spec => []GuestTypeOK
<1>1. Inv /\ WaitInv => GuestTypeOK
    <2> SUFFICES ASSUME Inv, WaitInv PROVE GuestTypeOK
        OBVIOUS
    <2>1. Cardinality(net \ Late) <= 1
        <3>1. CASE net \ Late = {}
            BY <3>1, FS_EmptySet
        <3>2. CASE net \ Late # {}
            <4>1. PICK m \in net : m.live
                BY <3>2 DEF Late
            <4>2. net \ Late = {m}
                BY <4>1 DEF Late, WaitInv
            <4> QED BY <4>2, FS_Singleton
        <3> QED BY <3>1, <3>2
    <2>2. guest \in [pc : Pcs, boot : 0..MaxBoots, seed : Nat]
        <3>1. guest \in [pc : Pcs, boot : Nat, seed : Nat] /\ guest.boot <= MaxBoots
            BY DEF Inv, Typed, WaitInv
        <3>2. guest.boot \in 0..MaxBoots
            BY <3>1, GuestConstants
        <3> QED BY <3>1, <3>2
    <2> QED BY <2>1, <2>2 DEF GuestTypeOK, Inv, Typed, WaitInv
<1>2. Init => WaitInv
    BY InitWaits
<1>3. Inv /\ WaitInv /\ [Next]_vars => WaitInv'
    BY StepWaits DEF Inv
<1>4. Spec => []WaitInv
    BY <1>2, <1>3, InvHolds, PTL DEF Spec
<1> QED BY <1>1, <1>4, InvHolds, PTL
=============================================================================
