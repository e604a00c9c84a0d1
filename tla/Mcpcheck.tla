------------------------------ MODULE Mcpcheck ------------------------------
(***************************************************************************)
(* The mcpcheck command (cmd/mcpcheck/main.go): flags, the static and the  *)
(* live intake, the analysis and the exit code.  It composes LiveIntake    *)
(* (the handshake, the server, the deadline) with Rules (the analysis).    *)
(***************************************************************************)
EXTENDS LiveIntake, Rules

CONSTANTS
    StaticLists,   \* the lists of tools scanner.Load may return
    CommandLines   \* the command lines considered, a subset of Options

Formats == {"text", "json", "sarif", "other"}

Options == [listRules : BOOLEAN, format : Formats,
            live : {"absent", "blank", "command"}, nargs : 0..2]

ASSUME CommandLineAssumption == CommandLines \subseteq Options
ASSUME ToolListAssumption ==
    \A tools \in ToolLists \cup StaticLists : IsToolList(tools)

Running == 99           \* the process has not exited

NoSet == [kind |-> "nil"]
SetOf(tools) == [kind |-> "set", tools |-> tools]

VARIABLES
    mpc,        \* where main is
    opts,       \* the command line
    static,     \* staticSet
    live,       \* liveSet
    findings,   \* what analyzeAll collected
    report,     \* the findings written to stdout, in order
    broken,     \* main took an error path
    exit        \* the exit code

mainVars == <<mpc, opts, static, live, findings, report, broken, exit>>
vars == <<liveVars, mainVars>>

MainPCs == {"flags", "static", "live", "loading", "analyze", "write",
            "exitCode", "exited"}

ToolSets == {NoSet} \cup {SetOf(t) : t \in ToolLists \cup StaticLists \cup {<<>>}}

(* Every variable keeps its type.                                          *)
TypeOK ==
    /\ LiveTypeOK
    /\ mpc \in MainPCs
    /\ opts \in Options
    /\ static \in ToolSets
    /\ live \in ToolSets
    /\ \A s \in {findings, report} : \A i \in DOMAIN s :
          s[i].severity \in {"error", "warning"}
    /\ broken \in BOOLEAN
    /\ exit \in {Running, 0, 1, 2}

Init ==
    /\ LiveInit
    /\ mpc = "flags"
    /\ opts \in CommandLines
    /\ static = NoSet /\ live = NoSet
    /\ findings = <<>> /\ report = <<>>
    /\ broken = FALSE
    /\ exit = Running

Exit(code) == exit' = code /\ mpc' = "exited"

(* os.Exit(1) after "mcpcheck: <error>" on stderr *)
Fail == Exit(1) /\ broken' = TRUE

(* A format it does not have, and a write error of stdout, are errors.     *)
writeRules(format) ==
    \/ format \in {"text", "json"} /\ Exit(0) /\ UNCHANGED broken
    \/ Fail

(* --list-rules *)
ListRules ==
    /\ mpc = "flags" /\ opts.listRules
    /\ writeRules(opts.format)
    /\ UNCHANGED <<liveVars, opts, static, live, findings, report>>

BadInvocation == opts.nargs > 1 \/ (opts.live = "absent" /\ opts.nargs # 1)

Usage ==
    /\ mpc = "flags" /\ ~opts.listRules /\ BadInvocation
    /\ Exit(2)
    /\ UNCHANGED <<liveVars, opts, static, live, findings, report, broken>>

Accept ==
    /\ mpc = "flags" /\ ~opts.listRules /\ ~BadInvocation
    /\ mpc' = "static"
    /\ UNCHANGED <<liveVars, opts, static, live, findings, report, broken,
                   exit>>

(* What scanner.Load tells apart in a path; any intake may fail too (an    *)
(* unreadable file, not the expected JSON).                                *)
Paths == {"missing", "python directory", "directory", ".json", ".py", ".ts", "other"}
Load(path) ==
    \/ Fail /\ UNCHANGED static
    \/ /\ path \notin {"missing", "other"}
       /\ \E tools \in StaticLists : static' = SetOf(tools)
       /\ mpc' = "live"
       /\ UNCHANGED <<broken, exit>>

LoadStatic ==
    /\ mpc = "static"
    /\ \/ opts.nargs = 0 /\ mpc' = "live" /\ UNCHANGED <<static, broken, exit>>
       \/ opts.nargs = 1 /\ \E path \in Paths : Load(path)
    /\ UNCHANGED <<liveVars, opts, live, findings, report>>

(* loadLiveCmd: a command of blanks only is an error, any other is handed  *)
(* to LoadLive                                                             *)
BeginLive ==
    /\ mpc = "live"
    /\ \/ /\ opts.live = "absent" /\ mpc' = "analyze"
          /\ UNCHANGED <<broken, exit>>
       \/ opts.live = "blank" /\ Fail
       \/ /\ opts.live = "command" /\ mpc' = "loading"
          /\ UNCHANGED <<broken, exit>>
    /\ UNCHANGED <<liveVars, opts, static, live, findings, report>>

EndLive ==
    /\ mpc = "loading" /\ lpc = "done"
    /\ \/ loaded = Err /\ Fail /\ UNCHANGED live
       \/ /\ loaded.kind = "ok"
          /\ live' = SetOf(loaded.tools)
          /\ mpc' = "analyze"
          /\ UNCHANGED <<broken, exit>>
    /\ UNCHANGED <<liveVars, opts, static, findings, report>>

(* analyzeAll: each set on its own, then the comparison when there are two *)
OfSet(set) == IF set = NoSet THEN <<>> ELSE AnalyzeSet(set.tools)

Compared ==
    IF static # NoSet /\ live # NoSet
      THEN RunComparison(static.tools, live.tools)
      ELSE <<>>

Analyze ==
    /\ mpc = "analyze"
    /\ findings' = OfSet(static) \o OfSet(live) \o Compared
    /\ mpc' = "write"
    /\ UNCHANGED <<liveVars, opts, static, live, report, broken, exit>>

(* The switch on the format; a write error of stdout is an error path too. *)
WriteReport ==
    /\ mpc = "write"
    /\ \/ /\ opts.format # "other"
          /\ report' = IF opts.format = "text" THEN StableSort(findings)
                                               ELSE findings
          /\ mpc' = "exitCode"
          /\ UNCHANGED <<broken, exit>>
       \/ Fail /\ UNCHANGED report
    /\ UNCHANGED <<liveVars, opts, static, live, findings>>

ExitCode ==
    /\ mpc = "exitCode"
    /\ Exit(IF \E i \in DOMAIN findings : findings[i].severity = "error"
              THEN 1 ELSE 0)
    /\ UNCHANGED <<liveVars, opts, static, live, findings, report, broken>>

MainStep ==
    \/ ListRules \/ Usage \/ Accept \/ LoadStatic \/ BeginLive \/ EndLive
    \/ Analyze \/ WriteReport \/ ExitCode

(* The live intake runs inside loadLiveCmd, while main waits for it. *)
WhileLoading(A) == mpc = "loading" /\ A /\ UNCHANGED mainVars

Done == mpc = "exited" /\ UNCHANGED vars

Next ==
    \/ MainStep
    \/ WhileLoading(ClientStep)
    \/ WhileLoading(Expire)
    \/ WhileLoading(Kill)
    \/ WhileLoading(ServerStep)
    \/ Done

(* mcpcheck's own steps are taken when they can be, the deadline comes and *)
(* os/exec kills the command then.  Nothing is assumed of the server.      *)
Fairness ==
    /\ WF_vars(MainStep)
    /\ WF_vars(WhileLoading(ClientStep))
    /\ WF_vars(WhileLoading(Expire))
    /\ WF_vars(WhileLoading(Kill))

Spec == Init /\ [][Next]_vars /\ Fairness

-----------------------------------------------------------------------------
(* Properties *)

Analyzed == exit # Running /\ ~broken /\ mpc = "exited" /\ ~opts.listRules
              /\ ~BadInvocation

(* The exit code is the gate a CI job relies on: main returns 1 after an   *)
(* analysis exactly when one of the two tool sets, looked at on its own,   *)
(* offends against an error rule.  A tool that both intakes see is not a   *)
(* collision, two unnamed tools are not either.                            *)
ExitCodeTellsOffence ==
    Analyzed => (exit = 1 <=> \E set \in {static, live} :
                                 set # NoSet /\ Offends(set.tools))

(* With two intakes, the report names every tool only one of them has, and *)
(* each such name once, whatever duplicates the lists hold.                *)
DriftReportedOnce ==
    Analyzed /\ static # NoSet /\ live # NoSet =>
      LET S == NamesOf(static.tools)
          L == NamesOf(live.tools)
          drift == {i \in DOMAIN report :
                      report[i].rule = "tool-static-vs-live-mismatch"}
      IN /\ {report[i].tool : i \in drift} = (S \ L) \cup (L \ S)
         /\ \A i, j \in drift : report[i].tool = report[j].tool => i = j

(* The text report groups the findings: no tool and no rule of a tool      *)
(* comes back after another one, and nothing collected is left unwritten.  *)
ReportGrouped ==
    Analyzed =>
      /\ Len(report) = Len(findings)
      /\ ToSet(report) = ToSet(findings)
      /\ opts.format = "text" =>
            \A i, j, k \in DOMAIN report :
               /\ i < j /\ j < k
               /\ report[i].tool = report[k].tool
               => /\ report[j].tool = report[i].tool
                  /\ report[i].rule = report[k].rule =>
                       report[j].rule = report[i].rule

(* The live gate of a well-behaved server: when the server wrote nothing   *)
(* unasked, an exit code 0 of a live analysis means it accepted both       *)
(* requests and the tools it advertises pass the error rules.              *)
QuietLiveGate ==
    Analyzed /\ exit = 0 /\ opts.live = "command" /\ chatter = 0 =>
      ~refused /\ ~Offends(advertised)

(* LoadLive waits for the command it started on every path: mcpcheck never *)
(* exits while the command runs.                                           *)
NoCommandLeftBehind == exit # Running => "command" \notin procs

(* --live-timeout bounds the live run: mcpcheck exits, whatever the server *)
(* does or fails to do, when the command is itself the server.             *)
ExitsByDeadline == <>(exit # Running \/ wrapped)

(* What the usage text promises: a live analysis validates whatever tools  *)
(* the server actually advertises, whether or not it also writes           *)
(* notifications.                                                          *)
LiveGate ==
    Analyzed /\ opts.live = "command" => live = SetOf(advertised)

(* Whatever the server does, main ends with one of its three exit codes    *)
(* (types) and with the command of LoadLive waited for.                    *)
CleanExit == TypeOK /\ NoCommandLeftBehind

=============================================================================
