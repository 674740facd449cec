------------------------ MODULE AccessTicketsProofs ------------------------
(***************************************************************************)
(* What AccessTickets promises for any number of tickets and any bounds.   *)
(***************************************************************************)
EXTENDS AccessTickets, TLAPS, SequenceTheorems

\* The holder of the lock is where its request can be.
HolderInv ==
    /\ pc # "waiting" => line # <<>>
    /\ pc \in {"sent", "answered"} => Head(line).work = record.pending
    /\ pc = "describe" /\ Holds("start") => record.pending = "start"
    /\ pc = "exec" => Holds("ssh")

\* Whatever is in flight was asked for by the pending operation, and an answered
\* call was the last.
CallsInv ==
    /\ \A i \in DOMAIN calls : calls[i] = record.pending
    /\ pc = "answered" => calls = <<>>

\* No transport exists, and none can come of a validation that is over.
Cut(t) ==
    /\ State(t) \notin {"dialing", "open"}
    /\ State(t) = "allowed" => ticket[t].revoked

\* Nor of a validation to come.
Clean(t) ==
    /\ Cut(t) /\ State(t) # "minted"
    /\ State(t) = "redeemed" => ticket[t].revoked

PastRevocation == pc \in {"sent", "answered"} \/ (pc = "describe" /\ Holds("start"))

RevocationInv ==
    record.pending \in Revoking =>
        /\ calls # <<>> => \A t \in Tickets : Cut(t)
        /\ PastRevocation => \A t \in Tickets : Clean(t)

\* A ticket that may still be dialled is of the QEMU launched last, unless a start
\* is pending that its validation, or the next attempt, will put an end to.
Current(t) == ticket[t].launch = qemu.launch

LaunchInv ==
    \A t \in Tickets :
        /\ State(t) = "open" => ticket[t].far = ticket[t].launch
        /\ State(t) = "dialing" => Current(t)
        /\ State(t) = "allowed" /\ ~ticket[t].revoked => Current(t)
        /\ record.pending # "start" /\ State(t) = "minted" => Current(t)
        /\ record.pending # "start" /\ State(t) = "redeemed" /\ ~ticket[t].revoked => Current(t)

-----------------------------------------------------------------------------
(* The line for the lock *)

\* A request that enters the line leaves its holder in front.
LEMMA LineEntered ==
    ASSUME line \in Seq(Job), NEW job \in Job, Enters(job)
    PROVE  /\ line' \in Seq(Job) /\ line' # <<>>
           /\ line # <<>> => Head(line') = Head(line)
  BY DEF Enters

\* The holder that releases the lock leaves the others in the line.
LEMMA LineLeft ==
    ASSUME line \in Seq(Job), line # <<>>, Releases
    PROVE  line' \in Seq(Job) /\ pc' = "waiting" /\ seen' = "none"
  BY DEF Releases

\* The holder is a ticket's request or a mutation.
LEMMA HolderTyped ==
    ASSUME line \in Seq(Job), line # <<>>
    PROVE  /\ Head(line) \in Job
           /\ Head(line).work \in {"desktop", "ssh", "validate"} => Holder \in Tickets
           /\ Head(line).work \notin {"desktop", "ssh", "validate"} => Head(line).work \in Verbs
<1>1. Head(line) \in Job
  OBVIOUS
<1> QED
  BY <1>1 DEF Job, Holder, Verbs, Revoking

\* Calls join the queue at its end.
LEMMA CallAppended ==
    ASSUME calls \in Seq(Verbs), NEW v \in Verbs, calls' = Append(calls, v)
    PROVE  /\ calls' \in Seq(Verbs)
           /\ \A i \in DOMAIN calls' : calls'[i] = v \/ \E j \in DOMAIN calls : calls'[i] = calls[j]
<1>1. DOMAIN calls = 1..Len(calls) /\ DOMAIN calls' = 1..(Len(calls) + 1)
  OBVIOUS
<1>2. ASSUME NEW i \in DOMAIN calls'
      PROVE  calls'[i] = IF i = Len(calls) + 1 THEN v ELSE calls[i]
  BY <1>1, <1>2
<1> QED
  BY <1>1, <1>2

\* And leave it at its front, or are lost at its end.
LEMMA CallRemoved ==
    ASSUME calls \in Seq(Verbs), calls # <<>>,
           calls' \in {Tail(calls), SubSeq(calls, 1, Len(calls) - 1)}
    PROVE  /\ calls' \in Seq(Verbs)
           /\ \A i \in DOMAIN calls' : \E j \in DOMAIN calls : calls'[i] = calls[j]
           /\ Len(calls') = Len(calls) - 1
<1>1. CASE calls' = Tail(calls)
  <2>1. DOMAIN calls = 1..Len(calls) /\ DOMAIN calls' = 1..(Len(calls) - 1)
    BY <1>1
  <2>2. \A i \in DOMAIN calls' : calls'[i] = calls[i + 1] /\ i + 1 \in DOMAIN calls
    BY <1>1, <2>1
  <2> QED
    BY <1>1, <2>1, <2>2
<1>2. CASE calls' = SubSeq(calls, 1, Len(calls) - 1)
  <2>1. DOMAIN calls = 1..Len(calls) /\ DOMAIN calls' = 1..(Len(calls) - 1)
    BY <1>2
  <2>2. \A i \in DOMAIN calls' : calls'[i] = calls[i] /\ i \in DOMAIN calls
    BY <1>2, <2>1
  <2>3. calls' \in Seq(Verbs)
    BY <1>2, <2>1, <2>2
  <2> QED
    BY <1>2, <2>1, <2>2, <2>3
<1> QED
  BY <1>1, <1>2

-----------------------------------------------------------------------------
(* Type correctness *)

\* The first state is well typed.
LEMMA TicketsTypeInit == Init => TicketsTypeOK
  BY TicketConstants DEF Init, TicketsTypeOK, Record, Ticket, Unused, States, Verbs

\* A ticket that changes its state stays a ticket.
LEMMA BecomesTyped ==
    ASSUME ticket \in [Tickets -> Ticket], NEW t \in Tickets, NEW s \in States, Becomes(t, s)
    PROVE  ticket' \in [Tickets -> Ticket]
  BY DEF Becomes, Ticket

\* Whoever holds the lock is in the line.
Held == pc # "waiting" => line # <<>>

\* Minting keeps the types.
LEMMA MintTyped ==
    ASSUME TicketsTypeOK, MintSteps
    PROVE  TicketsTypeOK' /\ Held'
<1> USE DEF TicketsTypeOK, Held, records
<1>1. CASE MintBegins
  BY <1>1 DEF MintBegins, KeepsLock, Holds
<1>2. CASE MintRefused
  <2>1. Holder \in Tickets /\ line # <<>>
    BY <1>2, HolderTyped DEF MintRefused, Holds
  <2>2. ticket' \in [Tickets -> Ticket]
    BY <1>2, <2>1, BecomesTyped DEF MintRefused, States
  <2> QED
    BY <1>2, <2>1, <2>2, LineLeft DEF MintRefused
<1>3. CASE DesktopMinted
  <2>1. Holder \in Tickets /\ line # <<>>
    BY <1>3, HolderTyped DEF DesktopMinted, Holds
  <2>2. ticket' \in [Tickets -> Ticket]
    BY <1>3, <2>1, ZenonT(40) DEF DesktopMinted, Minted, Ticket, States, Record
  <2> QED
    BY <1>3, <2>1, <2>2, LineLeft DEF DesktopMinted
<1>4. CASE SshDelivers
  <2>1. Holder \in Tickets /\ line # <<>>
    BY <1>4, HolderTyped DEF SshDelivers, Holds
  <2>2. ticket' \in [Tickets -> Ticket]
    BY <1>4, <2>1 DEF SshDelivers, Ticket, Record
  <2> QED
    BY <1>4, <2>1, <2>2 DEF SshDelivers, KeepsLock, Flushes
<1>5. CASE SshMinted
  <2>1. Holder \in Tickets /\ line # <<>>
    BY <1>5, HolderTyped DEF SshMinted, Holds
  <2>2. ticket' \in [Tickets -> Ticket]
    BY <1>5, <2>1 DEF SshMinted, Minted, Ticket, States
  <2> QED
    BY <1>5, <2>1, <2>2, LineLeft DEF SshMinted
<1> QED
  BY <1>1, <1>2, <1>3, <1>4, <1>5 DEF MintSteps

\* So does validating.
LEMMA ValidateTyped ==
    ASSUME TicketsTypeOK, ValidateSteps
    PROVE  TicketsTypeOK' /\ Held'
<1> USE DEF TicketsTypeOK, Held, records
<1>1. CASE ValidationBegins
  BY <1>1 DEF ValidationBegins, KeepsLock, Holds
<1>2. ASSUME NEW s \in {"allowed", "denied"}, Holds("validate"), Validated(s)
      PROVE  TicketsTypeOK' /\ Held'
  <2>1. Holder \in Tickets /\ line # <<>>
    BY <1>2, HolderTyped DEF Holds
  <2>2. ticket' \in [Tickets -> Ticket]
    BY <1>2, <2>1, BecomesTyped DEF Validated, States
  <2> QED
    BY <1>2, <2>1, <2>2, LineLeft DEF Validated
<1>3. CASE ValidationSucceeds
  BY <1>2, <1>3 DEF ValidationSucceeds
<1>4. CASE ValidationFails
  BY <1>2, <1>4 DEF ValidationFails
<1> QED
  BY <1>1, <1>3, <1>4 DEF ValidateSteps

\* Revoked tickets are tickets (desktop.js:70-81).
LEMMA RevokedTyped ==
    ASSUME ticket \in [Tickets -> Ticket], NEW v, Revokes(v)
    PROVE  ticket' \in [Tickets -> Ticket]
<1>1. \A t \in Tickets : Revoked(t) \in Ticket
  BY DEF Revoked, State, Ticket, States
<1> QED
  BY <1>1 DEF Revokes

\* The synchronous head of a mutation keeps the types.
LEMMA ProceedsTyped ==
    ASSUME TicketsTypeOK, line # <<>>, NEW v \in Verbs, NEW rec \in Record, NEW saved \in Record,
           Proceeds(v, rec, saved)
    PROVE  TicketsTypeOK' /\ Held'
<1>1. record' \in Record /\ disk' \in Record
  BY DEF Proceeds, Asked, Record
<1>2. ticket' \in [Tickets -> Ticket]
  BY RevokedTyped DEF Proceeds, TicketsTypeOK
<1>3. qemu' = qemu /\ faults' \in Nat
  BY DEF Proceeds, Fault, TicketsTypeOK
<1>4. CASE /\ line' = line /\ pc' \in {"describe", "sent"} /\ seen' = "none"
           /\ calls' = calls \/ calls' = Append(calls, v)
  BY <1>1, <1>2, <1>3, <1>4, CallAppended DEF TicketsTypeOK, Held
<1>5. CASE Releases /\ calls' = calls
  BY <1>1, <1>2, <1>3, <1>5, LineLeft DEF TicketsTypeOK, Held
<1> QED
  BY <1>4, <1>5 DEF Proceeds, KeepsLock

\* Journalling a request leaves a record (host-api.js:218-220).
LEMMA JournalledTyped ==
    ASSUME TicketsTypeOK, NEW v \in Verbs, NEW gen \in Generations(v)
    PROVE  Journalled(v, gen) \in Record
<1>1. gen \in Nat
  BY DEF Generations, TicketsTypeOK, Record
<1> QED
  BY <1>1 DEF Journalled, TicketsTypeOK, Record

\* Whether it is flushed or not, a record stays a record.
LEMMA FlushTyped ==
    ASSUME TicketsTypeOK, NEW rec \in Record, Flushes(rec) \/ FlushThrows(rec)
    PROVE  record' \in Record /\ disk' \in Record /\ faults' \in Nat
  BY DEF Flushes, FlushThrows, Fault, TicketsTypeOK

\* And so does every step of a mutation.
LEMMA MutateTyped ==
    ASSUME TicketsTypeOK, Held, MutateSteps
    PROVE  TicketsTypeOK' /\ Held'
<1>1. CASE RestoreProbes
  BY <1>1 DEF RestoreProbes, KeepsLock, Holds, TicketsTypeOK, Held, records
<1>2. CASE MutationRefused
  BY <1>2, LineLeft DEF MutationRefused, Holds, TicketsTypeOK, Held, records
<1>3. CASE StartCalls
  <2>1. record' \in Record /\ disk' \in Record /\ faults' \in Nat
    <3>1. PICK boot \in {record.boot} \cup IF seen = "stopped" THEN {0} ELSE {} :
            LET rec == [record EXCEPT !.desired = "running", !.boot = boot]
            IN  Flushes(rec) \/ FlushThrows(rec)
      BY <1>3 DEF StartCalls
    <3>2. boot \in Nat
      BY DEF TicketsTypeOK, Record
    <3>3. [record EXCEPT !.desired = "running", !.boot = boot] \in Record
      BY <3>2 DEF TicketsTypeOK, Record
    <3> QED
      BY <3>1, <3>3, FlushTyped
  <2>2. line # <<>> /\ UNCHANGED <<qemu, ticket>>
    BY <1>3 DEF StartCalls, Holds
  <2>3. CASE calls' = Append(calls, "start") /\ KeepsLock("sent")
    <3>1. calls' \in Seq(Verbs)
      BY <2>3, CallAppended DEF TicketsTypeOK, Verbs, Revoking
    <3> QED
      BY <2>1, <2>2, <2>3, <3>1 DEF KeepsLock, TicketsTypeOK, Held
  <2>4. CASE Releases /\ calls' = calls
    BY <2>1, <2>2, <2>4, LineLeft DEF TicketsTypeOK, Held
  <2> QED
    BY <1>3, <2>3, <2>4 DEF StartCalls
<1>4. CASE Settles
  <2>1. record' \in Record /\ disk' \in Record /\ faults' \in Nat
    <3>1. PICK desired \in {record.desired} \cup IF Holds("start") /\ ~qemu.on THEN {"stopped"} ELSE {} :
            LET rec == [record EXCEPT !.pending = "none", !.desired = desired,
                                      !.deleted = @ \/ Holds("destroy")]
            IN  Flushes(rec) \/ FlushThrows(rec)
      BY <1>4 DEF Settles
    <3>2. desired \in {"running", "stopped"}
      BY DEF TicketsTypeOK, Record
    <3>3. Holds("destroy") \in BOOLEAN
      BY DEF Holds
    <3>4. [record EXCEPT !.pending = "none", !.desired = desired,
                         !.deleted = @ \/ Holds("destroy")] \in Record
      BY <3>2, <3>3 DEF TicketsTypeOK, Record
    <3> QED
      BY <3>1, <3>4, FlushTyped
  <2> QED
    BY <1>4, <2>1, LineLeft DEF Settles, TicketsTypeOK, Held
<1>5. ASSUME NEW v \in Verbs, Accepts(v)
      PROVE  TicketsTypeOK' /\ Held'
  <2>1. PICK gen \in Generations(v) :
           \/ Proceeds(v, Journalled(v, gen), Journalled(v, gen))
           \/ /\ FlushThrows(Journalled(v, gen))
              /\ Releases
              /\ UNCHANGED <<qemu, calls, ticket>>
    BY <1>5 DEF Accepts
  <2>2. Journalled(v, gen) \in Record /\ line # <<>>
    BY <1>5, JournalledTyped DEF Accepts, Holds
  <2>3. CASE Proceeds(v, Journalled(v, gen), Journalled(v, gen))
    BY <2>2, <2>3, ProceedsTyped
  <2>4. CASE FlushThrows(Journalled(v, gen)) /\ Releases /\ UNCHANGED <<qemu, calls, ticket>>
    BY <2>2, <2>4, LineLeft DEF FlushThrows, Fault, TicketsTypeOK, Held
  <2> QED
    BY <2>1, <2>3, <2>4
<1>6. ASSUME NEW v \in Verbs, Retries(v)
      PROVE  TicketsTypeOK' /\ Held'
  BY <1>6, ProceedsTyped DEF Retries, Holds, TicketsTypeOK
<1> QED
  BY <1>1, <1>2, <1>3, <1>4, <1>5, <1>6 DEF MutateSteps

\* Requests enter the line as jobs.
LEMMA ClientTyped ==
    ASSUME TicketsTypeOK, Held, ClientSteps
    PROVE  TicketsTypeOK' /\ Held'
<1> USE DEF TicketsTypeOK, Held, records
<1>1. ASSUME NEW v \in Mutations, Sends(v)
      PROVE  TicketsTypeOK' /\ Held'
  <2>1. [work |-> v, ticket |-> None] \in Job
    BY TicketConstants DEF Job
  <2> QED
    BY <1>1, <2>1, LineEntered DEF Sends
<1>2. ASSUME NEW t \in Tickets, NEW kind \in {"desktop", "ssh"}, Asks(t, kind)
      PROVE  TicketsTypeOK' /\ Held'
  <2>1. [work |-> kind, ticket |-> t] \in Job
    BY DEF Job
  <2>2. ticket' \in [Tickets -> Ticket]
    BY <1>2, BecomesTyped DEF Asks, States
  <2> QED
    BY <1>2, <2>1, <2>2, LineEntered DEF Asks
<1>3. ASSUME NEW t \in Tickets, Redeems(t)
      PROVE  TicketsTypeOK' /\ Held'
  <2>1. [work |-> "validate", ticket |-> t] \in Job
    BY DEF Job
  <2>2. ticket' \in [Tickets -> Ticket]
    BY <1>3, BecomesTyped DEF Redeems, States
  <2> QED
    BY <1>3, <2>1, <2>2, LineEntered DEF Redeems
<1>4. ASSUME NEW t \in Tickets, Ends(t)
      PROVE  TicketsTypeOK' /\ Held'
  BY <1>4, BecomesTyped DEF Ends, States
<1> QED
  BY <1>1, <1>2, <1>3, <1>4 DEF ClientSteps

\* Transports stay tickets.
LEMMA ContinuesTyped ==
    ASSUME TicketsTypeOK, Held, NEW t \in Tickets, Continues(t)
    PROVE  TicketsTypeOK' /\ Held'
<1> USE DEF TicketsTypeOK, Held, records
<1>1. CASE Dials(t)
  BY <1>1, BecomesTyped DEF Dials, States
<1>2. CASE Refuses(t)
  BY <1>2, BecomesTyped DEF Refuses, States
<1>3. CASE Connects(t)
  <2>1. ticket' \in [Tickets -> Ticket]
    BY <1>3, ZenonT(40) DEF Connects, Ticket, States
  <2> QED
    BY <1>3, <2>1 DEF Connects
<1> QED
  BY <1>1, <1>2, <1>3 DEF Continues

\* Supervisor, guest and crashes keep the types.
LEMMA OtherTyped ==
    ASSUME TicketsTypeOK, Held, OtherSteps
    PROVE  TicketsTypeOK' /\ Held'
<1> USE DEF TicketsTypeOK, Held, records
<1>1. CASE CarriesOut
  <2> DEFINE Qemu == [on: BOOLEAN, launch: Nat, guest: Nat]
  <2>a. qemu \in Qemu /\ qemu.launch + 1 \in Nat /\ qemu.guest + 1 \in Nat
    OBVIOUS
  <2>b. Launched \in Qemu
    BY <2>a DEF Launched
  <2>c. Off \in Qemu
    BY <2>a DEF Off
  <2>1. Effects(Head(calls)) \subseteq Qemu
    BY <2>a, <2>b, <2>c DEF Effects
  <2>2. calls' \in Seq(Verbs) /\ qemu' \in [on: BOOLEAN, launch: Nat, guest: Nat]
    BY <1>1, <2>1, CallRemoved DEF CarriesOut
  <2>3. pc' = pc \/ (pc = "sent" /\ pc' = "answered")
    BY <1>1 DEF CarriesOut
  <2>4. UNCHANGED <<record, disk, line, seen, ticket, faults>>
    BY <1>1 DEF CarriesOut
  <2> QED
    BY <2>2, <2>3, <2>4
<1>2. CASE CallLost
  <2>1. calls' \in Seq(Verbs)
    BY <1>2, CallRemoved DEF CallLost
  <2> QED
    BY <1>2, <2>1, LineLeft DEF CallLost, Fault
<1>3. CASE Heartbeat
  <2>0. PICK b \in 1..qemu.guest : \/ Flushes([record EXCEPT !.boot = b])
                                  \/ FlushThrows([record EXCEPT !.boot = b])
    BY <1>3 DEF Heartbeat
  <2>a. b \in Nat
    OBVIOUS
  <2>b. [record EXCEPT !.boot = b] \in Record
    BY <2>a DEF Record
  <2>1. record' \in Record /\ disk' \in Record /\ faults' \in Nat
    BY <2>0, <2>b DEF Flushes, FlushThrows, Fault
  <2>2. UNCHANGED <<qemu, calls, line, pc, seen, ticket>>
    BY <1>3 DEF Heartbeat
  <2> QED
    BY <2>1, <2>2
<1>4. CASE GuestReboots
  BY <1>4 DEF GuestReboots
<1>5. CASE GuestPowersOff
  BY <1>5 DEF GuestPowersOff
<1>6. CASE EngineCrashes
  <2>1. ticket' \in [Tickets -> Ticket]
    BY <1>6 DEF EngineCrashes, Ticket, States
  <2> QED
    BY <1>6, <2>1 DEF EngineCrashes, Fault
<1> QED
  BY <1>1, <1>2, <1>3, <1>4, <1>5, <1>6 DEF OtherSteps

\* TicketsTypeOK and Held are inductive.
LEMMA TicketsTypeInvariant ==
    ASSUME TicketsTypeOK, Held, [Next]_vars
    PROVE  TicketsTypeOK' /\ Held'
<1>1. CASE Observes
  BY <1>1 DEF Observes, TicketsTypeOK, Held, records
<1>2. CASE UNCHANGED vars
  BY <1>2 DEF vars, TicketsTypeOK, Held
<1> QED
  BY <1>1, <1>2, MintTyped, ValidateTyped, MutateTyped, ClientTyped, ContinuesTyped, OtherTyped
     DEF Next, HolderSteps

\* Every reachable state of the ticket machinery is well typed, and the lock is only
\* held by a request that waits in its line (host-api.js:62-67).
THEOREM TicketsTypeCorrect == Spec => []TicketsTypeOK
<1>1. Init => TicketsTypeOK /\ Held
  BY TicketsTypeInit DEF Init, Held
<1>2. TicketsTypeOK /\ Held /\ [Next]_vars => TicketsTypeOK' /\ Held'
  BY TicketsTypeInvariant
<1> QED
  BY <1>1, <1>2, PTL DEF Spec

-----------------------------------------------------------------------------
(* Revocation *)

TicketInv == HolderInv /\ CallsInv /\ RevocationInv /\ LaunchInv

\* At first nothing is minted, asked for or called.
LEMMA TicketInvInit == Init => TicketInv
  BY DEF Init, TicketInv, HolderInv, CallsInv, RevocationInv, LaunchInv, Revoking, Unused, State

\* A step of the holder that gives the lock back without settling anything leaves
\* only tickets to be looked at.
LEMMA LockReleased ==
    ASSUME TicketInv, Releases,
           record.pending' = record.pending, UNCHANGED <<qemu, calls>>
    PROVE  HolderInv' /\ CallsInv'
<1>1. pc' = "waiting"
  BY DEF Releases
<1>2. HolderInv'
  BY <1>1 DEF HolderInv
<1>3. CallsInv'
  BY <1>1 DEF TicketInv, CallsInv
<1> QED
  BY <1>2, <1>3

\* How tickets may change while nothing else does: only a ticket that was allowed
\* and not revoked is dialled, only the QEMU of now is reached, and nothing is
\* minted or redeemed.
TicketAdvances(t) ==
    \/ ticket'[t] = ticket[t]
    \/ State(t)' = "closed" \/ State(t)' = "denied" \/ State(t)' = "asked"
    \/ /\ State(t)' = "dialing" /\ State(t) = "allowed" /\ ~ticket[t].revoked
       /\ ticket'[t].launch = ticket[t].launch
    \/ /\ State(t)' = "open" /\ State(t) = "dialing"
       /\ ticket'[t].launch = ticket[t].launch /\ ticket'[t].far = qemu.launch
    \/ /\ State(t)' = "redeemed" /\ State(t) = "minted"
       /\ ticket'[t].launch = ticket[t].launch

\* Then no revoked ticket comes back, and none reaches another launch.
LEMMA TicketsAdvance ==
    ASSUME TicketInv, \A t \in Tickets : TicketAdvances(t),
           record.pending' = record.pending, qemu' = qemu, calls' = calls,
           PastRevocation' => PastRevocation
    PROVE  RevocationInv' /\ LaunchInv'
<1>1. RevocationInv'
  <2>1. \A t \in Tickets : Cut(t) => Cut(t)'
    BY DEF TicketAdvances, Cut, State
  <2>2. \A t \in Tickets : Clean(t) => Clean(t)'
    BY DEF TicketAdvances, Clean, Cut, State
  <2> QED
    BY <2>1, <2>2 DEF TicketInv, RevocationInv
<1>2. LaunchInv'
  <2> SUFFICES ASSUME NEW t \in Tickets
               PROVE  /\ State(t)' = "open" => ticket'[t].far = ticket'[t].launch
                      /\ State(t)' = "dialing" => Current(t)'
                      /\ State(t)' = "allowed" /\ ~ticket'[t].revoked => Current(t)'
                      /\ record'.pending # "start" /\ State(t)' = "minted" => Current(t)'
                      /\ record'.pending # "start" /\ State(t)' = "redeemed" /\ ~ticket'[t].revoked
                           => Current(t)'
    BY DEF LaunchInv
  <2> QED
    BY DEF TicketInv, LaunchInv, TicketAdvances, Current, State
<1> QED
  BY <1>1, <1>2

\* A step of the holder that keeps the lock for a describe.
LEMMA LockKept ==
    ASSUME TicketInv, line # <<>>, ~Holds("start"), KeepsLock("describe"),
           record.pending' = record.pending, UNCHANGED <<qemu, calls>>
    PROVE  HolderInv' /\ CallsInv' /\ ~PastRevocation'
<1>1. pc' = "describe" /\ line' = line
  BY DEF KeepsLock
<1>2. HolderInv'
  BY <1>1 DEF HolderInv, Holds
<1>3. CallsInv'
  BY <1>1 DEF TicketInv, CallsInv
<1>4. ~PastRevocation'
  BY <1>1 DEF PastRevocation, Holds
<1> QED
  BY <1>2, <1>3, <1>4

\* Nothing is past its revocation while a ticket is asked for or validated.
LEMMA NotPast ==
    ASSUME TicketInv, Holds("desktop") \/ Holds("ssh") \/ Holds("validate"),
           record.pending \in Verbs \cup {"none"}
    PROVE  ~PastRevocation /\ ~Holds("start")
  BY DEF TicketInv, HolderInv, PastRevocation, Holds, Verbs, Revoking

\* A new ticket is of the present launch, and is only given out under the lock.
LEMMA MintKeepsInv ==
    ASSUME TicketsTypeOK, TicketInv, MintSteps
    PROVE  TicketInv'
<1> DEFINE Rest == RevocationInv' /\ LaunchInv'
<1>0. record.pending \in Verbs \cup {"none"} /\ line \in Seq(Job)
  BY DEF TicketsTypeOK, Record
<1>1. CASE MintBegins
  <2>1. /\ line # <<>> /\ ~Holds("start") /\ KeepsLock("describe")
        /\ UNCHANGED <<record, qemu, calls, ticket>>
    BY <1>0, <1>1, NotPast DEF MintBegins, records, Holds
  <2>2. HolderInv' /\ CallsInv' /\ ~PastRevocation'
    BY <2>1, LockKept
  <2>3. \A t \in Tickets : TicketAdvances(t)
    BY <2>1 DEF TicketAdvances
  <2> QED
    BY <2>1, <2>2, <2>3, TicketsAdvance DEF TicketInv
<1>2. CASE MintRefused
  <2>1. /\ Holds("desktop") \/ Holds("ssh")
        /\ Becomes(Holder, "closed") /\ Releases
        /\ UNCHANGED <<record, qemu, calls>>
    BY <1>2 DEF MintRefused, records
  <2>2. Holder \in Tickets
    BY <1>0, <2>1, HolderTyped DEF Holds
  <2>3. HolderInv' /\ CallsInv'
    BY <2>1, LockReleased
  <2>4. \A t \in Tickets : TicketAdvances(t)
    BY <2>1, <2>2 DEF TicketsTypeOK, TicketAdvances, Becomes, State, Ticket
  <2>5. ~PastRevocation'
    BY <2>1 DEF PastRevocation, Releases
  <2> QED
    BY <2>1, <2>3, <2>4, <2>5, TicketsAdvance DEF TicketInv
<1> DEFINE MintedFor(t, gen, boot) ==
             /\ Holds("desktop") \/ Holds("ssh")
             /\ t = Holder /\ Minted(t, gen, boot) /\ Releases
             /\ UNCHANGED <<record, qemu, calls>>
<1>3. ASSUME NEW t, NEW gen, NEW boot, MintedFor(t, gen, boot)
      PROVE  TicketInv'
  <2>1. t \in Tickets
    BY <1>0, <1>3, HolderTyped DEF Holds
  <2>2. HolderInv' /\ CallsInv'
    BY <1>3, LockReleased
  <2>3. /\ \A u \in Tickets \ {t} : ticket'[u] = ticket[u]
        /\ State(t)' = "minted" /\ ticket'[t].launch = qemu.launch
    BY <1>3, <2>1 DEF Minted, TicketsTypeOK, Ticket, State
  <2>4. ~PastRevocation'
    BY <1>3 DEF PastRevocation, Releases
  <2>5. RevocationInv'
    <3>1. \A u \in Tickets : Cut(u) => Cut(u)'
      BY <2>3 DEF Cut, State
    <3> QED
      BY <1>3, <2>4, <3>1 DEF TicketInv, RevocationInv
  <2>6. LaunchInv'
    BY <1>3, <2>3 DEF TicketInv, LaunchInv, Current, State
  <2> QED
    BY <2>2, <2>5, <2>6 DEF TicketInv
<1>4. CASE DesktopMinted
  BY <1>3, <1>4 DEF DesktopMinted, records
<1>5. CASE SshDelivers
  <2>1. /\ Holds("ssh") /\ KeepsLock("exec")
        /\ ticket' = [ticket EXCEPT ![Holder] = [@ EXCEPT !.gen = record.gen, !.boot = record.boot]]
        /\ UNCHANGED <<record, qemu, calls>>
    BY <1>5 DEF SshDelivers, Flushes
  <2>2. Holder \in Tickets
    BY <1>0, <2>1, HolderTyped DEF Holds
  <2>3. HolderInv' /\ CallsInv' /\ ~PastRevocation'
    BY <2>1 DEF KeepsLock, TicketInv, HolderInv, CallsInv, PastRevocation, Holds
  <2>4. \A t \in Tickets : /\ State(t)' = State(t) /\ ticket'[t].revoked = ticket[t].revoked
                           /\ ticket'[t].launch = ticket[t].launch
                           /\ ticket'[t].far = ticket[t].far
    BY <2>1, <2>2 DEF TicketsTypeOK, Ticket, State
  <2>5. \A t \in Tickets : Cut(t) => Cut(t)'
    BY <2>4 DEF Cut, State
  <2>6. RevocationInv'
    BY <2>1, <2>3, <2>5 DEF TicketInv, RevocationInv
  <2>7. LaunchInv'
    BY <2>1, <2>4 DEF TicketInv, LaunchInv, Current, State
  <2> QED
    BY <2>3, <2>6, <2>7 DEF TicketInv
<1>6. CASE SshMinted
  BY <1>3, <1>6 DEF SshMinted, records
<1> QED
  BY <1>1, <1>2, <1>4, <1>5, <1>6 DEF MintSteps

\* A validation that succeeds saw no operation pending, so its ticket is current.
LEMMA ValidateKeepsInv ==
    ASSUME TicketsTypeOK, TicketInv, ValidateSteps
    PROVE  TicketInv'
<1>0. record.pending \in Verbs \cup {"none"} /\ line \in Seq(Job)
  BY DEF TicketsTypeOK, Record
<1>1. CASE ValidationBegins
  <2>1. /\ line # <<>> /\ ~Holds("start") /\ KeepsLock("describe")
        /\ UNCHANGED <<record, qemu, calls, ticket>>
    BY <1>0, <1>1, NotPast DEF ValidationBegins, records, Holds
  <2>2. HolderInv' /\ CallsInv' /\ ~PastRevocation'
    BY <2>1, LockKept
  <2>3. \A t \in Tickets : TicketAdvances(t)
    BY <2>1 DEF TicketAdvances
  <2> QED
    BY <2>1, <2>2, <2>3, TicketsAdvance DEF TicketInv
<1>2. ASSUME NEW s \in {"allowed", "denied"}, Holds("validate"), Validated(s)
      PROVE  /\ Releases /\ UNCHANGED <<record, qemu, calls>>
             /\ ~PastRevocation' /\ HolderInv' /\ CallsInv'
             /\ \A t \in Tickets : \/ ticket'[t] = ticket[t]
                                   \/ /\ State(t) = "redeemed" /\ State(t)' = s
                                      /\ ticket'[t].revoked = ticket[t].revoked
                                      /\ ticket'[t].launch = ticket[t].launch
  <2>1. Holder \in Tickets
    BY <1>0, <1>2, HolderTyped DEF Holds
  <2>2. Releases /\ UNCHANGED <<record, qemu, calls>>
    BY <1>2 DEF Validated, records
  <2>3. HolderInv' /\ CallsInv'
    BY <2>2, LockReleased
  <2>4. ~PastRevocation'
    BY <2>2 DEF PastRevocation, Releases
  <2>5. \A t \in Tickets : \/ ticket'[t] = ticket[t]
                           \/ /\ State(t) = "redeemed" /\ State(t)' = s
                              /\ ticket'[t].revoked = ticket[t].revoked
                              /\ ticket'[t].launch = ticket[t].launch
    BY <1>2, <2>1 DEF Validated, Becomes, TicketsTypeOK, Ticket, State
  <2> QED
    BY <2>2, <2>3, <2>4, <2>5
<1>3. CASE ValidationFails
  <2>1. Holds("validate") /\ Validated("denied")
    BY <1>3 DEF ValidationFails
  <2>2. \A t \in Tickets : TicketAdvances(t)
    BY <1>2, <2>1 DEF TicketAdvances
  <2>3. RevocationInv' /\ LaunchInv'
    BY <1>2, <2>1, <2>2, TicketsAdvance
  <2> QED
    BY <1>2, <2>1, <2>3 DEF TicketInv
<1>4. CASE ValidationSucceeds
  <2>1. Holds("validate") /\ Validated("allowed") /\ record.pending = "none"
    BY <1>4 DEF ValidationSucceeds, MayBeReady
  <2>2. RevocationInv'
    BY <1>2, <2>1 DEF RevocationInv, Revoking
  <2>3. LaunchInv'
    BY <1>2, <2>1 DEF TicketInv, LaunchInv, Current, State
  <2> QED
    BY <1>2, <2>1, <2>2, <2>3 DEF TicketInv
<1> QED
  BY <1>1, <1>3, <1>4 DEF ValidateSteps

\* From the revocation of a mutation on, nothing that exists can reach the machine.
LEMMA ProceedsKeepsInv ==
    ASSUME TicketsTypeOK, TicketInv, NEW v \in Verbs, Holds(v), record.pending \in {"none", v},
           NEW rec \in Record, rec.pending = v, NEW saved, Proceeds(v, rec, saved)
    PROVE  TicketInv'
<1>1. record'.pending = v
  BY DEF Proceeds, Asked, Record
<1>2. /\ qemu' = qemu
      /\ \/ line' = line /\ v = "start" /\ pc' = "describe" /\ calls' = calls
         \/ line' = line /\ pc' = "sent" /\ calls' = Append(calls, v)
         \/ pc' = "waiting" /\ calls' = calls
  BY DEF Proceeds, KeepsLock, Releases
<1>3. HolderInv'
  BY <1>1, <1>2 DEF HolderInv, Holds
<1>4. CallsInv'
  <2>1. \A i \in DOMAIN calls : calls[i] = v
    BY DEF TicketInv, CallsInv, TicketsTypeOK, Verbs, Revoking
  <2>2. \A i \in DOMAIN calls' : calls'[i] = v
    BY <1>2, <2>1, CallAppended DEF TicketsTypeOK
  <2> QED
    BY <1>1, <1>2, <2>2 DEF CallsInv
<1>5. CASE v \in Revoking
  <2>1. \A t \in Tickets : ticket'[t] = Revoked(t)
    BY <1>5 DEF Proceeds, Revokes
  <2>2. ASSUME NEW t \in Tickets
        PROVE  Clean(t)' /\ State(t)' # "open"
    <3>0. ticket[t] \in Ticket /\ ticket'[t] = Revoked(t)
      BY <2>1 DEF TicketsTypeOK
    <3>1. CASE State(t) \in {"minted", "dialing", "open"}
      <4>1. ticket'[t] = [ticket[t] EXCEPT !.state = "closed"]
        BY <3>0, <3>1 DEF Revoked
      <4> QED
        BY <3>0, <4>1 DEF Clean, Cut, State, Ticket
    <3>2. CASE State(t) \in {"redeemed", "allowed"}
      <4>1. ticket'[t] = [ticket[t] EXCEPT !.revoked = TRUE]
        BY <3>0, <3>2 DEF Revoked
      <4> QED
        BY <3>0, <3>2, <4>1 DEF Clean, Cut, State, Ticket
    <3>3. CASE State(t) \notin {"minted", "dialing", "open", "redeemed", "allowed"}
      <4>1. ticket'[t] = ticket[t]
        BY <3>0, <3>3 DEF Revoked
      <4> QED
        BY <3>3, <4>1 DEF Clean, Cut, State
    <3> QED
      BY <3>1, <3>2, <3>3
  <2>3. RevocationInv'
    BY <2>2 DEF RevocationInv, Clean
  <2>4. LaunchInv'
    BY <2>2 DEF LaunchInv, Clean, Cut, State
  <2> QED
    BY <1>3, <1>4, <2>3, <2>4 DEF TicketInv
<1>6. CASE v \notin Revoking
  <2>1. v # "start" /\ record.pending # "start" /\ ticket' = ticket
    BY <1>6 DEF Proceeds, Revokes, Revoking
  <2>2. RevocationInv'
    BY <1>1, <1>6 DEF RevocationInv
  <2>3. LaunchInv'
    BY <1>2, <2>1 DEF TicketInv, LaunchInv, Current, State
  <2> QED
    BY <1>3, <1>4, <2>2, <2>3 DEF TicketInv
<1> QED
  BY <1>5, <1>6

\* Accepting a mutation revokes in the same step, unless the flush throws, and then
\* nothing is called either.
LEMMA AcceptsKeepsInv ==
    ASSUME TicketsTypeOK, TicketInv, NEW v \in Verbs, Accepts(v)
    PROVE  TicketInv'
<1>1. PICK gen \in Generations(v) :
         \/ Proceeds(v, Journalled(v, gen), Journalled(v, gen))
         \/ /\ FlushThrows(Journalled(v, gen))
            /\ Releases
            /\ UNCHANGED <<qemu, calls, ticket>>
  BY DEF Accepts
<1>2. Holds(v) /\ record.pending = "none"
  BY DEF Accepts, Admissible
<1>3. Journalled(v, gen) \in Record /\ Journalled(v, gen).pending = v
  BY JournalledTyped DEF Journalled, TicketsTypeOK, Record
<1>4. CASE Proceeds(v, Journalled(v, gen), Journalled(v, gen))
  BY <1>2, <1>3, <1>4, ProceedsKeepsInv
<1>5. CASE Releases /\ UNCHANGED <<qemu, calls, ticket>>
  <2>1. calls = <<>>
    <3>1. \A i \in DOMAIN calls : calls[i] = "none" /\ calls[i] \in Verbs
      BY <1>2 DEF TicketInv, CallsInv, TicketsTypeOK
    <3>2. DOMAIN calls = {}
      BY <3>1 DEF Verbs, Revoking
    <3> QED
      BY <3>2 DEF TicketsTypeOK
  <2>2. pc' = "waiting" /\ calls' = <<>>
    BY <1>5, <2>1 DEF Releases
  <2>3. HolderInv' /\ CallsInv' /\ RevocationInv'
    BY <2>2 DEF HolderInv, CallsInv, RevocationInv, PastRevocation
  <2>4. LaunchInv'
    BY <1>2, <1>5 DEF TicketInv, LaunchInv, Current, State
  <2> QED
    BY <2>3, <2>4 DEF TicketInv
<1> QED
  BY <1>1, <1>4, <1>5

\* What a mutation revoked is still revoked when its call leaves and when it settles.
LEMMA MutateKeepsInv ==
    ASSUME TicketsTypeOK, TicketInv, MutateSteps
    PROVE  TicketInv'
<1>1. CASE RestoreProbes
  <2>1. /\ line # <<>> /\ ~Holds("start") /\ KeepsLock("describe")
        /\ UNCHANGED <<record, qemu, calls, ticket>>
    BY <1>1 DEF RestoreProbes, records, Holds
  <2>2. HolderInv' /\ CallsInv' /\ ~PastRevocation'
    BY <2>1, LockKept
  <2>3. \A t \in Tickets : TicketAdvances(t)
    BY <2>1 DEF TicketAdvances
  <2> QED
    BY <2>1, <2>2, <2>3, TicketsAdvance DEF TicketInv
<1>2. CASE MutationRefused
  <2>1. Releases /\ UNCHANGED <<record, qemu, calls, ticket>>
    BY <1>2 DEF MutationRefused, records
  <2>2. HolderInv' /\ CallsInv'
    BY <2>1, LockReleased
  <2>3. ~PastRevocation'
    BY <2>1 DEF PastRevocation, Releases
  <2>4. \A t \in Tickets : TicketAdvances(t)
    BY <2>1 DEF TicketAdvances
  <2> QED
    BY <2>1, <2>2, <2>3, <2>4, TicketsAdvance DEF TicketInv
<1>3. CASE StartCalls
  <2>1. /\ Holds("start") /\ pc = "describe" /\ UNCHANGED <<qemu, ticket>>
        /\ \/ calls' = Append(calls, "start") /\ line' = line /\ pc' = "sent"
           \/ calls' = calls /\ pc' = "waiting"
    BY <1>3 DEF StartCalls, KeepsLock, Releases
  <2>2. record.pending = "start" /\ record'.pending = "start"
    BY <1>3, <2>1 DEF TicketInv, HolderInv, StartCalls, Flushes, FlushThrows, TicketsTypeOK, Record
  <2>3. \A t \in Tickets : Clean(t)
    BY <2>1, <2>2 DEF TicketInv, RevocationInv, PastRevocation, Revoking
  <2>4. HolderInv'
    BY <2>1, <2>2 DEF HolderInv, Holds
  <2>5. CallsInv'
    <3>1. \A i \in DOMAIN calls' : calls'[i] = "start"
      BY <2>1, <2>2, CallAppended DEF TicketInv, CallsInv, TicketsTypeOK, Verbs, Revoking
    <3> QED
      BY <2>1, <2>2, <3>1 DEF CallsInv
  <2>6. RevocationInv'
    BY <2>1, <2>3 DEF RevocationInv, Clean, Cut, State
  <2>7. LaunchInv'
    BY <2>1, <2>2 DEF TicketInv, LaunchInv, Current, State
  <2> QED
    BY <2>4, <2>5, <2>6, <2>7 DEF TicketInv
<1>4. CASE Settles
  <2>1. /\ pc = "answered" /\ pc' = "waiting" /\ record'.pending = "none"
        /\ UNCHANGED <<qemu, calls, ticket>>
    BY <1>4 DEF Settles, Flushes, FlushThrows, Releases, TicketsTypeOK, Record
  <2>2. calls' = <<>>
    BY <2>1 DEF TicketInv, CallsInv
  <2>3. HolderInv' /\ CallsInv' /\ RevocationInv'
    BY <2>1, <2>2 DEF HolderInv, CallsInv, RevocationInv, Revoking
  <2>4. record.pending = "start" => \A t \in Tickets : Clean(t)
    BY <2>1 DEF TicketInv, RevocationInv, PastRevocation, Revoking
  <2>5. LaunchInv'
    BY <2>1, <2>4 DEF TicketInv, LaunchInv, Clean, Cut, Current, State
  <2> QED
    BY <2>3, <2>5 DEF TicketInv
<1>5. ASSUME NEW v \in Verbs, Retries(v)
      PROVE  TicketInv'
  BY <1>5, ProceedsKeepsInv DEF Retries, TicketsTypeOK
<1> QED
  BY <1>1, <1>2, <1>3, <1>4, <1>5, AcceptsKeepsInv DEF MutateSteps

\* Requests that enter the line change nothing for its holder.
LEMMA EntersKeepsInv ==
    ASSUME TicketsTypeOK, Held, TicketInv, NEW job \in Job, Enters(job),
           UNCHANGED <<records, qemu, calls, pc>>, \A t \in Tickets : TicketAdvances(t)
    PROVE  TicketInv'
<1>1. line' # <<>> /\ (line # <<>> => Head(line') = Head(line))
  BY LineEntered DEF TicketsTypeOK
<1>2. HolderInv'
  BY <1>1 DEF TicketInv, HolderInv, Held, Holds, records
<1>3. CallsInv'
  BY DEF TicketInv, CallsInv, records
<1>4. PastRevocation' => PastRevocation
  BY <1>1 DEF PastRevocation, Held, Holds
<1>5. RevocationInv' /\ LaunchInv'
  BY <1>4, TicketsAdvance DEF records
<1> QED
  BY <1>2, <1>3, <1>5 DEF TicketInv

\* Nor do transports that go on by themselves.
LEMMA TransportKeepsInv ==
    ASSUME TicketInv, UNCHANGED <<records, qemu, calls, line, pc>>,
           \A t \in Tickets : TicketAdvances(t)
    PROVE  TicketInv'
<1>1. HolderInv' /\ CallsInv' /\ (PastRevocation' => PastRevocation)
  BY DEF TicketInv, HolderInv, CallsInv, PastRevocation, Holds, records
<1>2. RevocationInv' /\ LaunchInv'
  BY <1>1, TicketsAdvance DEF records
<1> QED
  BY <1>1, <1>2 DEF TicketInv

\* Clients only ask, redeem and go.
LEMMA ClientKeepsInv ==
    ASSUME TicketsTypeOK, Held, TicketInv, ClientSteps
    PROVE  TicketInv'
<1>1. ASSUME NEW v \in Mutations, Sends(v)
      PROVE  TicketInv'
  <2>1. [work |-> v, ticket |-> None] \in Job
    BY TicketConstants DEF Job
  <2>2. \A t \in Tickets : TicketAdvances(t)
    BY <1>1 DEF Sends, TicketAdvances
  <2> QED
    BY <1>1, <2>1, <2>2, EntersKeepsInv DEF Sends
<1>2. ASSUME NEW t \in Tickets, NEW kind \in {"desktop", "ssh"}, Asks(t, kind)
      PROVE  TicketInv'
  <2>1. [work |-> kind, ticket |-> t] \in Job
    BY DEF Job
  <2>2. \A u \in Tickets : TicketAdvances(u)
    BY <1>2 DEF Asks, Becomes, TicketAdvances, State, TicketsTypeOK, Ticket
  <2> QED
    BY <1>2, <2>1, <2>2, EntersKeepsInv DEF Asks
<1>3. ASSUME NEW t \in Tickets, Redeems(t)
      PROVE  TicketInv'
  <2>1. [work |-> "validate", ticket |-> t] \in Job
    BY DEF Job
  <2>2. \A u \in Tickets : TicketAdvances(u)
    BY <1>3 DEF Redeems, Becomes, TicketAdvances, State, TicketsTypeOK, Ticket
  <2> QED
    BY <1>3, <2>1, <2>2, EntersKeepsInv DEF Redeems
<1>4. ASSUME NEW t \in Tickets, Ends(t)
      PROVE  TicketInv'
  <2>1. \A u \in Tickets : TicketAdvances(u)
    BY <1>4 DEF Ends, Becomes, TicketAdvances, State, TicketsTypeOK, Ticket
  <2> QED
    BY <1>4, <2>1, TransportKeepsInv DEF Ends
<1> QED
  BY <1>1, <1>2, <1>3, <1>4 DEF ClientSteps

\* Only a ticket that is allowed and not revoked is dialled.
LEMMA ContinuesKeepsInv ==
    ASSUME TicketsTypeOK, TicketInv, NEW t \in Tickets, Continues(t)
    PROVE  TicketInv'
<1>1. CASE Dials(t)
  <2>1. \A u \in Tickets : TicketAdvances(u)
    BY <1>1 DEF Dials, Becomes, TicketAdvances, State, TicketsTypeOK, Ticket
  <2> QED
    BY <1>1, <2>1, TransportKeepsInv DEF Dials
<1>2. CASE Refuses(t)
  <2>1. \A u \in Tickets : TicketAdvances(u)
    BY <1>2 DEF Refuses, Becomes, TicketAdvances, State, TicketsTypeOK, Ticket
  <2> QED
    BY <1>2, <2>1, TransportKeepsInv DEF Refuses
<1>3. CASE Connects(t)
  <2>1. \A u \in Tickets : TicketAdvances(u)
    BY <1>3 DEF Connects, TicketAdvances, State, TicketsTypeOK, Ticket
  <2> QED
    BY <1>3, <2>1, TransportKeepsInv DEF Connects
<1> QED
  BY <1>1, <1>2, <1>3 DEF Continues

\* A launch is the work of a start, which has cut every transport before.
LEMMA CarriesOutKeepsInv ==
    ASSUME TicketsTypeOK, TicketInv, CarriesOut
    PROVE  TicketInv'
<1>1. /\ calls # <<>> /\ calls' = Tail(calls)
      /\ UNCHANGED <<record, line, ticket>>
      /\ pc' = pc \/ (pc = "sent" /\ Len(calls) = 1 /\ pc' = "answered")
  BY DEF CarriesOut, records
<1>2. /\ \A i \in DOMAIN calls' : \E j \in DOMAIN calls : calls'[i] = calls[j]
      /\ Len(calls') = Len(calls) - 1
  BY <1>1, CallRemoved DEF TicketsTypeOK
<1>3. HolderInv'
  BY <1>1 DEF TicketInv, HolderInv, Holds
<1>4. CallsInv'
  <2>1. \A i \in DOMAIN calls' : calls'[i] = record'.pending
    BY <1>1, <1>2 DEF TicketInv, CallsInv
  <2>2. pc' = "answered" => calls' = <<>>
    BY <1>1 DEF TicketInv, CallsInv, TicketsTypeOK
  <2> QED
    BY <2>1, <2>2 DEF CallsInv
<1>5. RevocationInv'
  <2>1. PastRevocation' => PastRevocation
    BY <1>1 DEF PastRevocation, Holds
  <2> QED
    BY <1>1, <2>1 DEF TicketInv, RevocationInv, Clean, Cut, State
<1>6. LaunchInv'
  <2>1. qemu'.launch = qemu.launch \/ Head(calls) = "start"
    BY DEF CarriesOut, Effects, Off, TicketsTypeOK
  <2>2. CASE qemu'.launch = qemu.launch
    BY <1>1, <2>2 DEF TicketInv, LaunchInv, Current, State
  <2>3. CASE Head(calls) = "start"
    <3>1. 1 \in DOMAIN calls /\ calls[1] = "start"
      BY <1>1, <2>3 DEF TicketsTypeOK
    <3>2. record.pending = "start"
      BY <3>1 DEF TicketInv, CallsInv
    <3>3. \A t \in Tickets : Cut(t)
      BY <1>1, <3>2 DEF TicketInv, RevocationInv, Revoking
    <3> QED
      BY <1>1, <3>2, <3>3 DEF TicketInv, LaunchInv, Cut, State
  <2> QED
    BY <2>1, <2>2, <2>3
<1> QED
  BY <1>3, <1>4, <1>5, <1>6 DEF TicketInv

\* The calls of a lost answer still belong to the pending operation; heartbeats and
\* reboots leave the launch alone; a crash forgets every ticket.
LEMMA OtherKeepsInv ==
    ASSUME TicketsTypeOK, TicketInv, OtherSteps
    PROVE  TicketInv'
<1>1. CASE CallLost
  <2>1. /\ calls # <<>> /\ pc' = "waiting" /\ UNCHANGED <<record, qemu, ticket>>
        /\ calls' = calls \/ calls' = SubSeq(calls, 1, Len(calls) - 1)
    BY <1>1 DEF CallLost, Releases, records
  <2>2. \A i \in DOMAIN calls' : \E j \in DOMAIN calls : calls'[i] = calls[j]
    BY <2>1, CallRemoved DEF TicketsTypeOK
  <2>3. HolderInv'
    BY <2>1 DEF HolderInv
  <2>4. CallsInv'
    BY <2>1, <2>2 DEF TicketInv, CallsInv
  <2>5. RevocationInv'
    BY <2>1 DEF TicketInv, RevocationInv, PastRevocation, Cut, State
  <2>6. LaunchInv'
    BY <2>1 DEF TicketInv, LaunchInv, Current, State
  <2> QED
    BY <2>3, <2>4, <2>5, <2>6 DEF TicketInv
<1>2. ASSUME record'.pending = record.pending, qemu'.launch = qemu.launch,
             UNCHANGED <<calls, line, pc, ticket>>
      PROVE  TicketInv'
  <2>1. HolderInv' /\ CallsInv'
    BY <1>2 DEF TicketInv, HolderInv, CallsInv, Holds
  <2>2. RevocationInv'
    BY <1>2 DEF TicketInv, RevocationInv, PastRevocation, Holds, Clean, Cut, State
  <2>3. LaunchInv'
    BY <1>2 DEF TicketInv, LaunchInv, Current, State
  <2> QED
    BY <2>1, <2>2, <2>3 DEF TicketInv
<1>3. CASE Heartbeat
  <2>1. record'.pending = record.pending
    BY <1>3 DEF Heartbeat, Flushes, FlushThrows, TicketsTypeOK, Record
  <2> QED
    BY <1>2, <1>3, <2>1 DEF Heartbeat
<1>4. CASE GuestReboots \/ GuestPowersOff
  <2>1. qemu'.launch = qemu.launch
    BY <1>4 DEF GuestReboots, GuestPowersOff, TicketsTypeOK
  <2> QED
    BY <1>2, <1>4, <2>1 DEF GuestReboots, GuestPowersOff, records
<1>5. CASE EngineCrashes
  <2>1. /\ calls' = <<>> /\ pc' = "waiting"
        /\ \A t \in Tickets : State(t)' \in {"unused", "closed"}
    BY <1>5 DEF EngineCrashes, State, TicketsTypeOK, Ticket
  <2>2. HolderInv' /\ CallsInv' /\ RevocationInv'
    BY <2>1 DEF HolderInv, CallsInv, RevocationInv, PastRevocation
  <2>3. LaunchInv'
    BY <2>1 DEF LaunchInv
  <2> QED
    BY <2>2, <2>3 DEF TicketInv
<1> QED
  BY <1>1, <1>3, <1>4, <1>5, CarriesOutKeepsInv DEF OtherSteps

\* TicketInv is inductive.
LEMMA TicketInvariant ==
    ASSUME TicketsTypeOK, Held, TicketInv, [Next]_vars
    PROVE  TicketInv'
<1>1. CASE Observes \/ UNCHANGED vars
  <2>1. UNCHANGED <<records, qemu, calls, line, pc, ticket>>
    BY <1>1 DEF Observes, vars, records
  <2>2. \A t \in Tickets : TicketAdvances(t)
    BY <2>1 DEF TicketAdvances
  <2> QED
    BY <2>1, <2>2, TransportKeepsInv
<1> QED
  BY <1>1, MintKeepsInv, ValidateKeepsInv, MutateKeepsInv, ClientKeepsInv, ContinuesKeepsInv,
     OtherKeepsInv DEF Next, HolderSteps

\* And holds in every reachable state.
LEMMA TicketInvHolds == Spec => [](TicketsTypeOK /\ Held /\ TicketInv)
<1>1. Init => TicketsTypeOK /\ Held /\ TicketInv
  BY TicketsTypeInit, TicketInvInit DEF Init, Held
<1>2. TicketsTypeOK /\ Held /\ TicketInv /\ [Next]_vars => (TicketsTypeOK /\ Held /\ TicketInv)'
  BY TicketsTypeInvariant, TicketInvariant
<1> QED
  BY <1>1, <1>2, PTL DEF Spec

\* While a call that stops, starts, restores or removes the machine can still be
\* carried out, no transport to it is open or being opened (host-api.js:223,
\* desktop.js:70-81, ssh.js:44-47).
THEOREM RevocationHolds == Spec => []TransportsDieFirst
<1>1. TicketsTypeOK /\ TicketInv => TransportsDieFirst
  <2> SUFFICES ASSUME TicketsTypeOK, TicketInv,
                      NEW i \in DOMAIN calls, calls[i] \in Revoking
               PROVE  \A t \in Tickets : State(t) \notin {"dialing", "open"}
    BY DEF TransportsDieFirst
  <2>1. record.pending \in Revoking /\ calls # <<>>
    BY DEF TicketInv, CallsInv, TicketsTypeOK
  <2>2. \A t \in Tickets : Cut(t)
    BY <2>1 DEF TicketInv, RevocationInv
  <2> QED
    BY <2>2 DEF Cut
<1> QED
  BY <1>1, TicketInvHolds, PTL

\* An open transport leads to the QEMU its ticket was minted for, whatever the
\* heartbeats have made of the binding (host-api.js:111-139, desktop.js:96-119).
THEOREM BindingHolds == Spec => []ReachesItsLaunch
<1>1. TicketInv => ReachesItsLaunch
  BY DEF TicketInv, LaunchInv, ReachesItsLaunch
<1> QED
  BY <1>1, TicketInvHolds, PTL

=============================================================================
