--------------------------------- MODULE MCMcp ---------------------------------
EXTENDS Mcp

Message(id, method) == [line |-> "message", id |-> id, wide |-> FALSE, method |-> method, tool |-> "none", args |-> FALSE]
CallOf(tool, args) == [Message(TRUE, "tools/call") EXCEPT !.tool = tool, !.args = args]
Line(line) == [Message(FALSE, "unknown") EXCEPT !.line = line]

Wide(frame) == [frame EXCEPT !.wide = TRUE]

\* Every kind of frame, and every kind of tool.
AllFrames ==
    {Wide(Message(TRUE, "initialize")), Message(FALSE, "notifications/initialized"),
     Message(FALSE, "unknown"), Message(TRUE, "unknown"), Line("garbage"), Line("null"), Line("blank"),
     CallOf("unknown", TRUE), CallOf("run_command", FALSE), Wide(CallOf("list_machines", TRUE))}
    \cup {CallOf(t, TRUE) : t \in Waiting \cup {"stop_machine", "start_task", "check_task"}}
=============================================================================
