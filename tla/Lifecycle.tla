------------------------------- MODULE Lifecycle -------------------------------
(***************************************************************************)
(* The life of cm processes (cmd/cm/main.go from the choice of mode on,    *)
(* internal/api/server.go Start, Err and Shutdown): which of them run a    *)
(* scheduler and serve the API port, how signals, a failed server and the  *)
(* TUI's end bring them down, and the exit code they report.  The          *)
(* processes share one port; each has a main goroutine, the server's and,  *)
(* with a TUI, one that monitors the server and one that forwards signals. *)
(*                                                                         *)
(* Simplifications.  Configuration errors, which end main before it starts *)
(* anything, are left out.  The TUI library is external: Quit and Kill make *)
(* Run return.  Stop and Shutdown return (module Scheduler has Stop's      *)
(* wait; Shutdown is bounded by a timeout).                                *)
(***************************************************************************)
EXTENDS Naturals, FiniteSets

CONSTANTS
    Proc,               \* processes
    Modes,              \* how each may be started: headless, tui, connect
    ProbeMayTimeOut     \* whether a serving process may miss the probe's second

ASSUME ModeAssumption ==
    Modes \in [Proc -> SUBSET {"headless", "tui", "connect"}] /\ ProbeMayTimeOut \in BOOLEAN

VARIABLES
    proc,   \* per process: its goroutines and what they share
    code,   \* how the process ended last: success (0), failure (1), killed
    early   \* history: a server error was sent before main's last look at Err()

vars == <<proc, code, early>>

Off == [pc |-> "off", mode |-> "none", sched |-> FALSE, srv |-> "off",
        errCh |-> FALSE, monitor |-> "off", forwarder |-> "off", caught |-> FALSE,
        sigCh |-> FALSE, tui |-> "off", exitFailed |-> FALSE]

Process ==
    [pc : {"off", "probe", "start", "serve", "notify", "select", "restore", "tui", "running",
           "drain", "stop", "shutdown", "exit"},
     mode : {"none", "undecided", "headless", "standalone", "client"},
     sched : BOOLEAN,                                           \* its loop runs
     srv : {"off", "starting", "serving", "failed", "dead", "closed"},
     errCh : BOOLEAN,                                           \* holds an error
     monitor : {"off", "waiting", "got", "stored"},
     forwarder : {"off", "new", "waiting", "got", "stopped"},
     caught : BOOLEAN, sigCh : BOOLEAN,                         \* signal.Notify
     tui : {"off", "running", "ended", "failed"},
     exitFailed : BOOLEAN]

\* A client starts neither server nor scheduler.
TypeOK ==
    /\ proc \in [Proc -> Process]
    /\ \A p \in Proc : proc[p].mode = "client" => ~proc[p].sched /\ proc[p].srv = "off"
    /\ code \in [Proc -> {"success", "failure", "killed", "none"}]
    /\ early \in [Proc -> BOOLEAN]

Init ==
    /\ proc = [p \in Proc |-> Off]
    /\ code = [p \in Proc |-> "none"]
    /\ early = [p \in Proc |-> FALSE]

At(p, pc) == proc[p].pc = pc
Serving == \E q \in Proc : proc[q].srv = "serving"

-----------------------------------------------------------------------------
(* main, up to the running service *)

Launch(p, m) ==
    /\ At(p, "off")
    /\ proc' = [proc EXCEPT ![p] =
          CASE m = "headless" -> [Off EXCEPT !.pc = "start", !.mode = "headless"]
            [] m = "tui" -> [Off EXCEPT !.pc = "probe", !.mode = "undecided"]
            [] m = "connect" -> [Off EXCEPT !.pc = "tui", !.mode = "client"]]
    /\ code' = [code EXCEPT ![p] = "none"]
    /\ early' = [early EXCEPT ![p] = FALSE]

\* Mutant of ProbeAnswered: the client goes on to start its own service.
ProbeAnsweredFallsThrough(p) ==
    /\ At(p, "probe")
    /\ Serving
    /\ proc' = [proc EXCEPT ![p].mode = "client", ![p].pc = "start"]
    /\ UNCHANGED <<code, early>>

\* probeHealth: a service answers, the TUI becomes its client ...
ProbeAnswered(p) ==
    /\ At(p, "probe")
    /\ Serving
    /\ proc' = [proc EXCEPT ![p].mode = "client", ![p].pc = "tui"]
    /\ UNCHANGED <<code, early>>

\* ... or none does, and it will run on its own.
ProbeFails(p) ==
    /\ At(p, "probe")
    /\ ~Serving \/ ProbeMayTimeOut
    /\ proc' = [proc EXCEPT ![p].mode = "standalone", ![p].pc = "start"]
    /\ UNCHANGED <<code, early>>

\* sched.Start, before it is known whether the port is free.
StartScheduler(p) ==
    /\ At(p, "start")
    /\ proc' = [proc EXCEPT ![p].sched = TRUE, ![p].pc = "serve"]
    /\ UNCHANGED <<code, early>>

\* srv.Start: the server's goroutine.
StartServer(p) ==
    /\ At(p, "serve")
    /\ proc' = [proc EXCEPT ![p].srv = "starting",
          ![p].pc = IF proc[p].mode = "headless" THEN "notify" ELSE "tui"]
    /\ UNCHANGED <<code, early>>

-----------------------------------------------------------------------------
(* The server's goroutine *)

Listen(p) ==
    /\ proc[p].srv = "starting"
    /\ proc' = [proc EXCEPT ![p].srv = IF Serving THEN "failed" ELSE "serving"]
    /\ UNCHANGED <<code, early>>

\* ListenAndServe returns an error later on.
ServeFails(p) ==
    /\ proc[p].srv = "serving"
    /\ proc' = [proc EXCEPT ![p].srv = "failed"]
    /\ UNCHANGED <<code, early>>

\* The error is sent to errCh, which has room for one.
SendError(p) ==
    /\ proc[p].srv = "failed"
    /\ proc' = [proc EXCEPT ![p].srv = "dead", ![p].errCh = TRUE]
    /\ early' = [early EXCEPT ![p] = proc[p].pc \notin {"stop", "shutdown", "exit"}]
    /\ UNCHANGED code

-----------------------------------------------------------------------------
(* main in headless mode *)

Notify(p) ==
    /\ At(p, "notify")
    /\ proc' = [proc EXCEPT ![p].caught = TRUE, ![p].pc = "select"]
    /\ UNCHANGED <<code, early>>

SelectSignal(p) ==
    /\ At(p, "select")
    /\ proc[p].sigCh
    /\ proc' = [proc EXCEPT ![p].sigCh = FALSE, ![p].pc = "restore"]
    /\ UNCHANGED <<code, early>>

SelectError(p) ==
    /\ At(p, "select")
    /\ proc[p].errCh
    /\ proc' = [proc EXCEPT ![p].errCh = FALSE, ![p].exitFailed = TRUE, ![p].pc = "restore"]
    /\ UNCHANGED <<code, early>>

\* signal.Stop: the next signal kills.
Restore(p) ==
    /\ At(p, "restore")
    /\ proc' = [proc EXCEPT ![p].caught = FALSE, ![p].pc = "drain"]
    /\ UNCHANGED <<code, early>>

-----------------------------------------------------------------------------
(* main, monitor and signal forwarder with a TUI *)

\* The program is made and the goroutines beside it are started; only a
\* standalone process has a server to monitor.
RunTUI(p) ==
    /\ At(p, "tui")
    /\ proc' = [proc EXCEPT ![p].pc = "running", ![p].tui = "running", ![p].forwarder = "new",
          ![p].monitor = IF proc[p].mode = "standalone" THEN "waiting" ELSE "off"]
    /\ UNCHANGED <<code, early>>

MonitorTakesError(p) ==
    /\ proc[p].monitor = "waiting"
    /\ proc[p].errCh
    /\ proc' = [proc EXCEPT ![p].errCh = FALSE, ![p].monitor = "got"]
    /\ UNCHANGED <<code, early>>

MonitorStores(p) ==
    /\ proc[p].monitor = "got"
    /\ proc' = [proc EXCEPT ![p].exitFailed = TRUE, ![p].monitor = "stored"]
    /\ UNCHANGED <<code, early>>

\* A TUI that is asked to end by Quit or Kill, unless it has ended.
Ended(p) == IF proc[p].tui = "running" THEN "ended" ELSE proc[p].tui

\* Mutant of MonitorKills: the failure is only noted.
MonitorKillsNothing(p) ==
    /\ proc[p].monitor = "stored"
    /\ proc' = [proc EXCEPT ![p].monitor = "off"]
    /\ UNCHANGED <<code, early>>

MonitorKills(p) ==
    /\ proc[p].monitor = "stored"
    /\ proc' = [proc EXCEPT ![p].tui = Ended(p), ![p].monitor = "off"]
    /\ UNCHANGED <<code, early>>

ForwarderNotify(p) ==
    /\ proc[p].forwarder = "new"
    /\ proc' = [proc EXCEPT ![p].caught = TRUE, ![p].forwarder = "waiting"]
    /\ UNCHANGED <<code, early>>

ForwarderTakesSignal(p) ==
    /\ proc[p].forwarder = "waiting"
    /\ proc[p].sigCh
    /\ proc' = [proc EXCEPT ![p].sigCh = FALSE, ![p].forwarder = "got"]
    /\ UNCHANGED <<code, early>>

ForwarderStops(p) ==
    /\ proc[p].forwarder = "got"
    /\ proc' = [proc EXCEPT ![p].caught = FALSE, ![p].forwarder = "stopped"]
    /\ UNCHANGED <<code, early>>

\* Mutant of ForwarderQuits: the signal is swallowed.
ForwarderQuitsNothing(p) ==
    /\ proc[p].forwarder = "stopped"
    /\ proc' = [proc EXCEPT ![p].forwarder = "off"]
    /\ UNCHANGED <<code, early>>

ForwarderQuits(p) ==
    /\ proc[p].forwarder = "stopped"
    /\ proc' = [proc EXCEPT ![p].tui = Ended(p), ![p].forwarder = "off"]
    /\ UNCHANGED <<code, early>>

\* The user quits, or the TUI panics or fails.
TUIEnds(p) ==
    /\ proc[p].tui = "running"
    /\ \E how \in {"ended", "failed"} : proc' = [proc EXCEPT ![p].tui = how]
    /\ UNCHANGED <<code, early>>

\* prog.Run returns.
RunReturns(p) ==
    /\ At(p, "running")
    /\ proc[p].tui # "running"
    /\ proc' = [proc EXCEPT
          ![p].exitFailed = (@ \/ proc[p].tui = "failed"),
          ![p].pc = IF proc[p].mode = "client" THEN "stop" ELSE "drain"]
    /\ UNCHANGED <<code, early>>

-----------------------------------------------------------------------------
(* main, down to its return *)

\* Mutant of Drain: an error still in errCh is not looked for.
DrainNothing(p) ==
    /\ At(p, "drain")
    /\ proc' = [proc EXCEPT ![p].pc = "stop"]
    /\ UNCHANGED <<code, early>>

\* The select with a default that looks for an error once more.
Drain(p) ==
    /\ At(p, "drain")
    /\ proc' = [proc EXCEPT ![p].exitFailed = (@ \/ proc[p].errCh), ![p].errCh = FALSE,
                            ![p].pc = "stop"]
    /\ UNCHANGED <<code, early>>

\* sched.Stop, when it was started.
StopScheduler(p) ==
    /\ At(p, "stop")
    /\ proc' = [proc EXCEPT ![p].sched = FALSE,
          ![p].pc = IF proc[p].mode = "client" THEN "exit" ELSE "shutdown"]
    /\ UNCHANGED <<code, early>>

\* Mutant of Shutdown: it closes the listener there is, not the one to come.
ShutdownOnlyServing(p) ==
    /\ At(p, "shutdown")
    /\ proc' = [proc EXCEPT ![p].pc = "exit",
          ![p].srv = IF @ = "serving" THEN "closed" ELSE @]
    /\ UNCHANGED <<code, early>>

\* srv.Shutdown: the listener is closed, or never will be opened.
Shutdown(p) ==
    /\ At(p, "shutdown")
    /\ proc' = [proc EXCEPT ![p].pc = "exit",
          ![p].srv = IF @ \in {"starting", "serving"} THEN "closed" ELSE @]
    /\ UNCHANGED <<code, early>>

\* main returns, or calls os.Exit(1).
Exit(p) ==
    /\ At(p, "exit")
    /\ proc' = [proc EXCEPT ![p] = Off]
    /\ code' = [code EXCEPT ![p] = IF proc[p].exitFailed THEN "failure" ELSE "success"]
    /\ UNCHANGED early

\* SIGINT or SIGTERM while signals are caught; sigCh has room for one.
CaughtSignal(p) ==
    /\ proc[p].caught
    /\ proc' = [proc EXCEPT ![p].sigCh = TRUE]
    /\ UNCHANGED <<code, early>>

\* Any of them while signals are not caught, or SIGKILL.
Killed(p) ==
    /\ ~At(p, "off")
    /\ proc' = [proc EXCEPT ![p] = Off]
    /\ code' = [code EXCEPT ![p] = "killed"]
    /\ UNCHANGED early

-----------------------------------------------------------------------------
MainStep(p) ==
    \/ ProbeAnswered(p) \/ ProbeFails(p) \/ StartScheduler(p) \/ StartServer(p)
    \/ Notify(p) \/ SelectSignal(p) \/ SelectError(p) \/ Restore(p)
    \/ RunTUI(p) \/ RunReturns(p)
    \/ Drain(p) \/ StopScheduler(p) \/ Shutdown(p) \/ Exit(p)
ServerStep(p) == Listen(p) \/ SendError(p)
MonitorStep(p) == MonitorTakesError(p) \/ MonitorStores(p) \/ MonitorKills(p)
ForwarderStep(p) ==
    ForwarderNotify(p) \/ ForwarderTakesSignal(p) \/ ForwarderStops(p) \/ ForwarderQuits(p)

Next ==
    \E p \in Proc :
        \/ \E m \in Modes[p] : Launch(p, m)
        \/ MainStep(p)
        \/ ServerStep(p)
        \/ ServeFails(p)
        \/ MonitorStep(p)
        \/ ForwarderStep(p)
        \/ TUIEnds(p)
        \/ CaughtSignal(p)
        \/ Killed(p)

Spec == Init /\ [][Next]_vars

\* Fairness.  Each goroutine that can go on does so.  Nothing is assumed of
\* users, signals and the failures of a server that serves.
Fairness ==
    \A p \in Proc : /\ WF_vars(MainStep(p)) /\ WF_vars(ServerStep(p))
                    /\ WF_vars(MonitorStep(p)) /\ WF_vars(ForwarderStep(p))

FairSpec == Spec /\ Fairness

-----------------------------------------------------------------------------
(* Properties *)

\* main returns only when its scheduler is stopped and its server can no
\* longer take requests, even one that had not begun to listen.
ExitIsClean ==
    \A p \in Proc : At(p, "exit") => ~proc[p].sched /\ proc[p].srv # "serving"

\* A process whose server failed before main last looked for errors does not
\* report success (main.go: "Drain API error that may have raced with the
\* signal", "Drain any API error that the monitor goroutine may not have
\* processed").
FailureIsReported == \A p \in Proc : code[p] = "success" => ~early[p]

\* The same of the processes that run without a TUI, where main alone takes
\* errors: a signal that races with the failure does not hide it.
HeadlessFailureReported ==
    \A p \in Proc : Modes[p] = {"headless"} /\ code[p] = "success" => ~early[p]

Duplicated ==
    \E p, q \in Proc : p # q /\ proc[p].sched /\ proc[q].sched

\* Two schedulers do not stay side by side: the process that does not get the
\* port goes down.
DuplicateEnds == Duplicated ~> ~Duplicated

\* A signal that is caught ends the process.
SignalEnds == \A p \in Proc : proc[p].sigCh ~> At(p, "off")
=============================================================================
