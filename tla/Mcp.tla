---------------------------------- MODULE Mcp ----------------------------------
(***************************************************************************)
(* The MCP server (src/mcp): newline-delimited frames from a client's      *)
(* stream, requests and notifications served one after the other, tools    *)
(* that call the engine over HTTP, and the wait for a machine to be ready. *)
(*                                                                         *)
(* One machine at most.  Other clients of the engine and the guest itself  *)
(* act at any time; what the engine does with a request is LocalApi, here  *)
(* reduced to the effect on the machine and the status presented.          *)
(***************************************************************************)
EXTENDS Naturals, Sequences, SequencesExt

CONSTANTS
    Frames,     \* what clients send
    MaxFrames,  \* bound: frames of a session
    MaxPolls,   \* polls of waitForReady before its deadline
    MaxBoots    \* bound: boots of the machine

Methods == {"initialize", "notifications/initialized", "ping", "tools/list", "tools/call", "unknown"}
Waiting == {"create_machine", "start_machine"}
Tools   == Waiting \cup {"list_machines", "stop_machine", "delete_machine", "run_command",
                         "start_task", "check_task"}

\* line: what the text of the frame is; id: does it carry one? wide: has the id a
\* character of several bytes, where the pieces of its line meet? args: are the
\* required ones there?
Frame == [line: {"message", "garbage", "null", "blank"}, id: BOOLEAN, wide: BOOLEAN,
          method: Methods, tool: Tools \cup {"unknown", "none"}, args: BOOLEAN]

ASSUME McpConstants ==
    /\ Frames \subseteq Frame
    /\ MaxFrames \in Nat /\ MaxPolls \in Nat \ {0} /\ MaxBoots \in Nat

VARIABLES
    sent,     \* the frames sent so far; a frame's index is its id
    wire,     \* their text that has not been read
    buffer,   \* text read that has no newline yet, or whose lines were not taken
    broken,   \* the frames of which a chunk ended inside a character of the id
    server,   \* what is being served
    out,      \* the answers written: the id, 0 for null, and their class
    machine   \* the engine's machine

input == <<sent, wire, buffer, broken>>
vars  == <<sent, wire, buffer, broken, server, out, machine>>

Pcs  == {"idle", "calling", "polling", "ended"}
Idle == [pc |-> "idle", frame |-> 0, polls |-> 0, answer |-> "none"]

NoMachine == [exists |-> FALSE, on |-> FALSE, boot |-> 0, beat |-> 0, fresh |-> FALSE]

Init ==
    /\ sent = <<>> /\ wire = <<>> /\ buffer = <<>> /\ broken = {} /\ out = <<>>
    /\ server = Idle /\ machine = NoMachine

-----------------------------------------------------------------------------
(* Frames *)

\* A line is two pieces of text, so that a chunk may end inside it.
Newline == [frame |-> 0, piece |-> 0]
Text(i, frame) ==
    IF frame.line = "blank" THEN <<Newline>>
    ELSE <<[frame |-> i, piece |-> 1], [frame |-> i, piece |-> 2], Newline>>

ClientSends(frame) ==
    /\ Len(sent) < MaxFrames
    /\ sent' = Append(sent, frame)
    /\ wire' = wire \o Text(Len(sent) + 1, frame)
    /\ UNCHANGED <<buffer, broken, server, out, machine>>

\* A chunk ends anywhere. Mutated form: it replaces what was left of the last one.
ReceivedMutant(chunk) == chunk
Received(chunk) == buffer \o chunk

\* Each chunk is made text by itself: of a character whose bytes are in two chunks
\* both parts are replaced. The line is JSON as before, with another string in it.
Breaks(chunk) ==
    LET end == chunk[Len(chunk)]
    IN  {i \in 1..Len(sent) : end.frame = i /\ end.piece = 1 /\ sent[i].wide}

HasLine == \E k \in 1..Len(buffer) : buffer[k] = Newline

\* The stream is read on when the handler is done and no line is left.
Reads(n) ==
    /\ server.pc = "idle" /\ ~HasLine /\ n <= Len(wire)
    /\ buffer' = Received(SubSeq(wire, 1, n))
    /\ wire' = SubSeq(wire, n + 1, Len(wire))
    /\ broken' = broken \cup Breaks(SubSeq(wire, 1, n))
    /\ UNCHANGED <<sent, server, out, machine>>

\* JSON.parse: the frame a line spells, or 0.
Parsed(line) ==
    IF /\ Len(line) = 2 /\ line[1].frame = line[2].frame /\ line[1].piece = 1 /\ line[2].piece = 2
       /\ sent[line[1].frame].line # "garbage"
    THEN line[1].frame ELSE 0

-----------------------------------------------------------------------------
(* Serving *)

Answers(id, class) == out' = Append(out, <<id, class>>)

\* The id that was parsed: a broken one is none that a frame carries.
IdOf(i) == IF i \in broken THEN MaxFrames + i ELSE i

\* reply() and fail(), for a request; a notification is answered by silence.
ReplyMutant(i, class) == Answers(IdOf(i), class)
Reply(i, class) == IF sent[i].id THEN Answers(IdOf(i), class) ELSE UNCHANGED out

\* An unknown method or tool, or a required argument that is missing.
AtFault(frame) ==
    \/ frame.method = "unknown"
    \/ frame.method = "tools/call" /\ (frame.tool \notin Tools \/ ~frame.args)

\* A handler that needs no engine, or a request at fault; "error" is a protocol error.
Served(i, frame) ==
    \/ /\ frame.method \in Methods \ {"tools/call", "unknown"}
       /\ Reply(i, "result") /\ server' = Idle
    \/ /\ AtFault(frame)
       /\ Reply(i, "error") /\ server' = Idle
    \/ /\ frame.method = "tools/call" /\ ~AtFault(frame)
       /\ server' = [Idle EXCEPT !.pc = "calling", !.frame = i] /\ UNCHANGED out

\* One line: blank, not JSON (answered with a null id), null (which throws out of
\* serve, so that the session ends), or a message.
TakesLine ==
    LET cut  == SelectInSeq(buffer, LAMBDA s : s = Newline)
        line == SubSeq(buffer, 1, cut - 1)
        i    == Parsed(line)
    IN  /\ server.pc = "idle" /\ HasLine
        /\ buffer' = SubSeq(buffer, cut + 1, Len(buffer))
        /\ \/ line = <<>> /\ UNCHANGED <<server, out>>
           \/ line # <<>> /\ i = 0 /\ Answers(0, "error") /\ UNCHANGED server
           \/ i # 0 /\ sent[i].line = "null" /\ server' = [Idle EXCEPT !.pc = "ended"] /\ UNCHANGED out
           \/ i # 0 /\ sent[i].line = "message" /\ Served(i, sent[i])
        /\ UNCHANGED <<sent, wire, broken, machine>>

-----------------------------------------------------------------------------
(* Tools *)

Tool == sent[server.frame].tool

\* A tool's result, isError or not, is a result of the protocol.
AnswersWithMutant(answer) ==
    /\ Reply(server.frame, IF answer = "down" THEN "error" ELSE "result")
    /\ server' = [Idle EXCEPT !.answer = answer]

AnswersWith(answer) ==
    /\ Reply(server.frame, "result")
    /\ server' = [Idle EXCEPT !.answer = answer]

\* The engine goes and comes: ECONNREFUSED and the like are EngineDown, in a call
\* or a poll. So is the want of a token file, read once when the server started.
EngineIsDown ==
    /\ server.pc \in {"calling", "polling"}
    /\ AnswersWith("down")
    /\ UNCHANGED <<input, machine>>

\* The abort signal of a call: 504. Mutated form: only polls have one.
CallTimesOutMutant ==
    /\ server.pc = "polling"
    /\ AnswersWith("timeout")
    /\ UNCHANGED <<input, machine>>

CallTimesOut ==
    /\ server.pc \in {"calling", "polling"}
    /\ AnswersWith("timeout")
    /\ UNCHANGED <<input, machine>>

Off(m) == [m EXCEPT !.on = FALSE]
On(m)  == IF m.on THEN m ELSE [m EXCEPT !.on = TRUE, !.boot = @ + 1]

Refused ==
    /\ server.pc \in {"calling", "polling"}
    /\ AnswersWith("refused")
    /\ UNCHANGED <<input, machine>>

\* create_machine and start_machine go on to wait.
EngineBootsMachine ==
    /\ server.pc = "calling" /\ Tool \in Waiting
    /\ machine.exists <=> Tool = "start_machine"
    /\ machine' = On([machine EXCEPT !.exists = TRUE])
    /\ machine'.boot <= MaxBoots
    /\ server' = [server EXCEPT !.pc = "polling"]
    /\ UNCHANGED <<input, out>>

EngineStopsMachine ==
    /\ server.pc = "calling" /\ Tool \in {"stop_machine", "delete_machine"} /\ machine.exists
    /\ machine' = IF Tool = "stop_machine" THEN Off(machine) ELSE NoMachine
    /\ AnswersWith("done")
    /\ UNCHANGED input

EngineLists ==
    /\ server.pc = "calling" /\ Tool = "list_machines"
    /\ AnswersWith("done")
    /\ UNCHANGED <<input, machine>>

\* run_command, start_task and check_task are one command in the guest each; what
\* it does there is left open.
GuestRuns ==
    /\ server.pc = "calling" /\ Tool \in {"run_command", "start_task", "check_task"} /\ machine.on
    /\ AnswersWith("done")
    /\ UNCHANGED <<input, machine>>

\* presentStatus of what describe returned, or of nothing when it failed: what
\* does not name another status is ready if the last heartbeat is fresh.
Reported  == IF machine.fresh THEN "ready" ELSE "booting"
Presented == {"unknown", Reported, IF machine.on THEN Reported ELSE "stopped"}

\* Mutated form: a QEMU that runs is taken for a machine that answers.
UsableMutant(status) == status \in {"ready", "booting"}
Usable(status) == status = "ready"

\* Two minutes are over. Mutated form: one poll too late.
OverdueMutant == server.polls > MaxPolls
Overdue       == server.polls >= MaxPolls

\* waitForReady: one getMachine, 404 once the machine is gone; what the runtime
\* cannot say is waited out.
Poll ==
    /\ server.pc = "polling" /\ ~Overdue
    /\ \E status \in IF machine.exists THEN Presented ELSE {"gone"} :
          \/ Usable(status) /\ AnswersWith("ready")
          \/ status \in {"stopped", "gone"} /\ AnswersWith("refused")
          \/ /\ ~Usable(status) /\ status \in {"booting", "unknown", "ready"}
             /\ server' = [server EXCEPT !.polls = @ + 1] /\ UNCHANGED out
    /\ UNCHANGED <<input, machine>>

Deadline ==
    /\ server.pc = "polling" /\ Overdue
    /\ AnswersWith("timeout")
    /\ UNCHANGED <<input, machine>>

-----------------------------------------------------------------------------
(* Other clients of the engine, and the guest *)

Elsewhere ==
    /\ machine.exists
    /\ machine' \in {Off(machine), On(machine), NoMachine} \ {machine}
    /\ machine'.boot <= MaxBoots
    /\ UNCHANGED <<input, server, out>>

\* A heartbeat that claims a shell; a minute without one.
GuestBeats ==
    /\ machine.on
    /\ machine' = [machine EXCEPT !.beat = machine.boot, !.fresh = TRUE]
    /\ UNCHANGED <<input, server, out>>

BeatAges ==
    /\ machine.fresh
    /\ machine' = [machine EXCEPT !.fresh = FALSE]
    /\ UNCHANGED <<input, server, out>>

Serves ==
    \/ TakesLine \/ EngineIsDown \/ CallTimesOut \/ Refused \/ EngineBootsMachine \/ EngineStopsMachine
    \/ EngineLists \/ GuestRuns \/ Poll \/ Deadline

Next ==
    \/ \E frame \in Frames : ClientSends(frame)
    \/ \E n \in 1..Len(wire) : Reads(n)
    \/ Serves
    \/ Elsewhere \/ GuestBeats \/ BeatAges

(* The event loop goes on and every call ends, by its abort signal if not    *)
(* before: nothing is assumed of the engine.                                *)
Spec ==
    /\ Init /\ [][Next]_vars
    /\ WF_vars(\E n \in 1..Len(wire) : Reads(n)) /\ WF_vars(TakesLine)
    /\ WF_vars(Poll \/ CallTimesOut) /\ WF_vars(Deadline)

-----------------------------------------------------------------------------
(* Properties *)

\* The answers the protocol asks for: of every request one, of what is no JSON one
\* with a null id, up to a frame that ends the session. A request whose id no chunk
\* broke gets its id back.
Due(i) ==
    IF sent[i].line = "garbage" THEN <<0, "error">>
    ELSE <<IF i \in broken THEN MaxFrames + i ELSE i, IF AtFault(sent[i]) THEN "error" ELSE "result">>

Owed(i) ==
    /\ \A k \in 1..i : sent[k].line # "null"
    /\ sent[i].line = "garbage" \/ (sent[i].line = "message" /\ sent[i].id)

Expected ==
    LET upTo[i \in 0..Len(sent)] ==
            IF i = 0 THEN <<>> ELSE IF Owed(i) THEN Append(upTo[i - 1], Due(i)) ELSE upTo[i - 1]
    IN  upTo[Len(sent)]

McpTypeOK ==
    /\ sent \in Seq(Frames) /\ Len(sent) <= MaxFrames
    /\ broken \subseteq {i \in 1..Len(sent) : sent[i].wide}
    /\ server \in [pc: Pcs, frame: 0..MaxFrames, polls: 0..MaxPolls,
                   answer: {"none", "down", "timeout", "refused", "done", "ready"}]
    /\ machine \in [exists: BOOLEAN, on: BOOLEAN, boot: 0..MaxBoots, beat: 0..MaxBoots, fresh: BOOLEAN]

\* However the stream is cut into chunks, whatever arrives while a tool waits and
\* whatever the engine does, requests are answered once each and in order, a
\* notification never, a bad frame costs only itself, and what goes wrong behind
\* a tool is a result the model can read (stdio.js:34-37, 60-63; index.js:28-33).
\* The answer carries the id that was sent, but for an id within which a chunk ended.
AnsweredOnceInOrder ==
    /\ IsPrefix(out, Expected)
    /\ server.pc = "ended" \/ (server.pc = "idle" /\ wire = <<>> /\ ~HasLine) => out = Expected

\* A machine that is reported ready has a guest that has reported since it was
\* created, and not a QEMU alone (engine.js:101-104).
ReadyHasReported ==
    [][(server.pc = "polling" /\ server'.answer = "ready" /\ server'.pc = "idle") =>
          machine.beat > 0]_vars

\* No tool call wedges the session, not even with an engine that accepts
\* connections and never answers (engine.js:43-45).
ToolsReturn == (server.pc \in {"calling", "polling"}) ~> (server.pc = "idle")

=============================================================================
