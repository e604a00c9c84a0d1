----------------------------- MODULE LiveIntake -----------------------------
(***************************************************************************)
(* The live intake of mcpcheck (internal/scanner/liveintake.go): LoadLive  *)
(* starts the server command, FetchToolsLive runs the JSON-RPC handshake   *)
(* over its stdin and stdout, one JSON object per line, and LoadLive then  *)
(* closes stdin and waits for the command to exit.                         *)
(*                                                                         *)
(* The server is external.  It may answer, answer with an error, write     *)
(* lines nobody asked for (MCP notifications, log lines), hang, or exit at *)
(* any moment.  Its command may be a launcher ("npx", "uv", "sh -c") whose *)
(* child process does the serving and inherits both pipes.                 *)
(***************************************************************************)
EXTENDS Naturals, Sequences

CONSTANTS
    ToolLists,   \* the lists of tools a server may advertise
    MaxChatter   \* bound on the unsolicited lines a server writes

ASSUME ChatterAssumption == MaxChatter \in Nat

None == [kind |-> "none"]              \* FetchToolsLive has not returned yet
Err == [kind |-> "err"]
OkResult(tools) == [kind |-> "ok", tools |-> tools]
Outcomes == {None, Err} \cup {OkResult(tools) : tools \in ToolLists \cup {<<>>}}

Requests == {"initialize", "tools/list"}
ToServer == Requests \cup {"notifications/initialized"}

(* The lines a server writes, up to what readResponse and FetchToolsLive   *)
(* tell apart.  The result of initialize is a JSON object without "tools". *)
InitResult == [kind |-> "result", tools |-> <<>>]
ListResult(tools) == [kind |-> "result", tools |-> tools]
ErrorLine == [kind |-> "error"]
Notification == [kind |-> "notification"]  \* decodes, without result or error
Garbage == [kind |-> "garbage"]            \* does not decode as a message
Lines == {ErrorLine, Notification, Garbage, InitResult}
           \cup {ListResult(tools) : tools \in ToolLists}

VARIABLES
    lpc,         \* where LoadLive and FetchToolsLive are
    stdin,       \* the pipe to the server
    stdout,      \* the pipe from the server, one element per line
    procs,       \* the processes alive: the command, and the one it launched
    expired,     \* the context's deadline has passed
    fetched,     \* what FetchToolsLive returned
    loaded,      \* what LoadLive returned
    wrapped,     \* the command is a launcher: its child does the serving
    advertised,  \* the tools the server advertises
    pending,     \* requests the server has read and not answered
    chatter,     \* unsolicited lines written so far
    refused      \* the server answered a request with an error

clientVars == <<lpc, stdin, fetched, loaded>>
serverVars == <<wrapped, advertised, pending, chatter, refused>>
liveVars == <<lpc, stdin, stdout, procs, expired, fetched, loaded,
              wrapped, advertised, pending, chatter, refused>>

LivePCs == {"start", "sendInit", "readInit", "sendInitialized", "sendList",
            "readList", "closeStdin", "wait", "done"}

LiveTypeOK ==
    /\ lpc \in LivePCs
    /\ stdin \in Seq(ToServer)
    /\ stdout \in Seq(Lines)
    /\ procs \subseteq {"command", "launched"}
    /\ expired \in BOOLEAN
    /\ fetched \in Outcomes
    /\ loaded \in Outcomes
    /\ wrapped \in BOOLEAN
    /\ advertised \in ToolLists
    /\ pending \subseteq Requests
    /\ chatter \in 0..MaxChatter
    /\ refused \in BOOLEAN

LiveInit ==
    /\ lpc = "start"
    /\ stdin = <<>> /\ stdout = <<>> /\ procs = {}
    /\ expired = FALSE
    /\ fetched = None /\ loaded = None
    /\ wrapped \in BOOLEAN
    /\ advertised \in ToolLists
    /\ pending = {} /\ chatter = 0 /\ refused = FALSE

-----------------------------------------------------------------------------
(* LoadLive and FetchToolsLive *)

(* Start fails when the context is over already or the command cannot be   *)
(* run; nothing has been spawned then and LoadLive returns.                *)
StartProc ==
    /\ lpc = "start"
    /\ \/ /\ lpc' = "done" /\ loaded' = Err
          /\ UNCHANGED procs
       \/ /\ ~expired
          /\ lpc' = "sendInit"
          /\ procs' = IF wrapped THEN {"command", "launched"} ELSE {"command"}
          /\ UNCHANGED loaded
    /\ UNCHANGED <<stdin, stdout, expired, fetched, serverVars>>

FetchReturns(r) == fetched' = r /\ lpc' = "closeStdin"

(* writeMessage: one line into the server's stdin.  The write fails once   *)
(* no process holds the pipe's other end.                                  *)
WriteMessage(at, msg, next) ==
    /\ lpc = at
    /\ \/ /\ procs # {}
          /\ stdin' = Append(stdin, msg) /\ lpc' = next
          /\ UNCHANGED fetched
       \/ /\ procs = {}
          /\ FetchReturns(Err)
          /\ UNCHANGED stdin
    /\ UNCHANGED <<stdout, procs, expired, loaded, serverVars>>

(* mutant: the initialize response is left in the pipe *)
SendInitializeOnly == WriteMessage("sendInit", "initialize", "sendInitialized")

SendInitialize == WriteMessage("sendInit", "initialize", "readInit")
SendInitialized ==
    WriteMessage("sendInitialized", "notifications/initialized", "sendList")
SendToolsList == WriteMessage("sendList", "tools/list", "readList")

(* readResponse takes the next line, whatever it is, and blocks while      *)
(* there is none and some process can still write one.                     *)
ResponseReady == stdout # <<>> \/ procs = {}
Decodes(line) == line.kind \in {"result", "notification"}

ReadInitResponse ==
    /\ lpc = "readInit"
    /\ ResponseReady
    /\ IF stdout # <<>> /\ Decodes(Head(stdout))
         THEN lpc' = "sendInitialized" /\ UNCHANGED fetched
         ELSE FetchReturns(Err)
    /\ stdout' = IF stdout = <<>> THEN stdout ELSE Tail(stdout)
    /\ UNCHANGED <<stdin, procs, expired, loaded, serverVars>>

(* The tools come from the line's result, which a notification lacks.      *)
ReadListResponse ==
    /\ lpc = "readList"
    /\ ResponseReady
    /\ FetchReturns(IF stdout # <<>> /\ Head(stdout).kind = "result"
                      THEN OkResult(Head(stdout).tools)
                      ELSE Err)
    /\ stdout' = IF stdout = <<>> THEN stdout ELSE Tail(stdout)
    /\ UNCHANGED <<stdin, procs, expired, loaded, serverVars>>

(* Closing stdin has no effect on a server that ignores end of file.       *)
CloseStdin ==
    /\ lpc = "closeStdin"
    /\ lpc' = "wait"
    /\ UNCHANGED <<stdin, stdout, procs, expired, fetched, loaded, serverVars>>

(* mutant: LoadLive returns without waiting *)
WaitProcSkipped ==
    /\ lpc = "wait"
    /\ lpc' = "done" /\ loaded' = fetched
    /\ UNCHANGED <<stdin, stdout, procs, expired, fetched, serverVars>>

(* Wait returns when the command has exited; its error is dropped.         *)
WaitProc ==
    /\ lpc = "wait"
    /\ "command" \notin procs
    /\ lpc' = "done" /\ loaded' = fetched
    /\ UNCHANGED <<stdin, stdout, procs, expired, fetched, serverVars>>

ClientStep ==
    \/ StartProc \/ SendInitialize \/ ReadInitResponse \/ SendInitialized
    \/ SendToolsList \/ ReadListResponse \/ CloseStdin \/ WaitProc

-----------------------------------------------------------------------------
(* The deadline, and os/exec's goroutine that kills the command (and only  *)
(* the command) when the context is over.                                  *)

Expire ==
    /\ ~expired
    /\ expired' = TRUE
    /\ UNCHANGED <<clientVars, stdout, procs, serverVars>>

(* mutant: exec.Command, which knows no context *)
KillNever == FALSE /\ UNCHANGED liveVars

Kill ==
    /\ expired /\ "command" \in procs
    /\ procs' = procs \ {"command"}
    /\ UNCHANGED <<clientVars, stdout, expired, serverVars>>

-----------------------------------------------------------------------------
(* The server *)

Serving == (IF wrapped THEN "launched" ELSE "command") \in procs

ServerRead ==
    /\ Serving /\ stdin # <<>>
    /\ stdin' = Tail(stdin)
    /\ pending' = pending \cup ({Head(stdin)} \cap Requests)
    /\ UNCHANGED <<lpc, stdout, procs, expired, fetched, loaded,
                   wrapped, advertised, chatter, refused>>

AnswerTo(req) ==
    IF req = "initialize" THEN InitResult ELSE ListResult(advertised)

ServerAnswer(req) ==
    /\ Serving /\ req \in pending
    /\ pending' = pending \ {req}
    /\ \/ stdout' = Append(stdout, AnswerTo(req)) /\ UNCHANGED refused
       \/ stdout' = Append(stdout, ErrorLine) /\ refused' = TRUE
    /\ UNCHANGED <<clientVars, procs, expired, wrapped, advertised, chatter>>

ServerChatter(line) ==
    /\ Serving /\ chatter < MaxChatter
    /\ stdout' = Append(stdout, line)
    /\ chatter' = chatter + 1
    /\ UNCHANGED <<clientVars, procs, expired, wrapped, advertised, pending,
                   refused>>

ProcExit(p) ==
    /\ p \in procs
    /\ procs' = procs \ {p}
    /\ UNCHANGED <<clientVars, stdout, expired, serverVars>>

ServerStep ==
    \/ ServerRead
    \/ \E req \in Requests : ServerAnswer(req)
    \/ \E line \in {Notification, Garbage} : ServerChatter(line)
    \/ \E p \in {"command", "launched"} : ProcExit(p)

=============================================================================
