---------------------------- MODULE LifecycleProofs ----------------------------
(***************************************************************************)
(* Type correctness and the clean end of Lifecycle for any number of       *)
(* processes, and, for processes without a TUI, that a failed server shows *)
(* in the exit code.                                                       *)
(***************************************************************************)
EXTENDS Lifecycle, TLAPS

\* What a process that is off, undecided, a client, or about to return has
\* not got.
Sound(r) ==
    /\ r.pc = "off" => r = Off
    /\ r.mode = "client" => r.pc \notin {"start", "serve", "shutdown"}
    /\ r.mode = "undecided" <=> r.pc = "probe"
    /\ r.mode = "client" \/ r.pc \in {"probe", "start", "serve"} => r.srv = "off"
    /\ r.mode = "client" \/ r.pc \in {"probe", "start", "shutdown", "exit"} => ~r.sched
    /\ r.pc = "exit" => r.srv \notin {"starting", "serving"}

\* The inductive invariant.
IInv == TypeOK /\ \A p \in Proc : Sound(proc[p])

\* The empty process.
LEMMA OffOK == Off \in Process /\ Sound(Off)
BY DEF Off, Process, Sound

\* A step changes one process, whose new value is of the right kind; the rest
\* of what a step has to show follows.
LEMMA OneProcess ==
    ASSUME IInv, NEW p \in Proc, NEW r \in Process, Sound(r),
           proc' = [proc EXCEPT ![p] = r],
           code' = code \/ \E c \in {"success", "failure", "killed", "none"} :
                               code' = [code EXCEPT ![p] = c],
           early' = early \/ \E e \in BOOLEAN : early' = [early EXCEPT ![p] = e]
    PROVE  IInv'
<1>1. proc' \in [Proc -> Process] /\ proc'[p] = r
      /\ \A q \in Proc : q # p => proc'[q] = proc[q]
  BY DEF IInv, TypeOK
<1>2. \A q \in Proc : Sound(proc'[q])
  BY <1>1 DEF IInv
<1>3. \A q \in Proc : proc'[q].mode = "client" => ~proc'[q].sched /\ proc'[q].srv = "off"
  BY <1>2 DEF Sound
<1>4. code' \in [Proc -> {"success", "failure", "killed", "none"}]
  BY DEF IInv, TypeOK
<1>5. early' \in [Proc -> BOOLEAN]
  BY DEF IInv, TypeOK
<1> QED
  BY <1>1, <1>2, <1>3, <1>4, <1>5 DEF IInv, TypeOK

\* Every step keeps the invariant.
LEMMA NextIInv == IInv /\ [Next]_vars => IInv'
<1> SUFFICES ASSUME IInv, [Next]_vars PROVE IInv'
  OBVIOUS
<1>1. CASE UNCHANGED vars
  BY <1>1 DEF vars, IInv, TypeOK, Sound
<1>2. SUFFICES ASSUME NEW p \in Proc,
          \/ \E m \in Modes[p] : Launch(p, m)
          \/ MainStep(p) \/ ServerStep(p) \/ ServeFails(p) \/ MonitorStep(p)
          \/ ForwarderStep(p) \/ TUIEnds(p) \/ CaughtSignal(p) \/ Killed(p)
      PROVE IInv'
  BY <1>1 DEF Next
<1> DEFINE r == proc[p]
<1>3. r \in Process /\ Sound(r) /\ proc \in [Proc -> Process]
  BY DEF IInv, TypeOK
<1>4. ASSUME NEW m \in Modes[p], Launch(p, m) PROVE IInv'
  <2>1. m \in {"headless", "tui", "connect"}
    BY ModeAssumption
  <2>2. PICK new \in Process : Sound(new) /\ proc' = [proc EXCEPT ![p] = new]
    BY <1>4, <2>1 DEF Launch, Off, Process, Sound
  <2> QED
    BY <1>4, <2>2, OneProcess DEF Launch
<1>5. ASSUME ProbeAnswered(p) \/ ProbeFails(p) \/ StartScheduler(p) \/ StartServer(p)
      PROVE  IInv'
  <2>1. PICK new \in Process : Sound(new) /\ proc' = [proc EXCEPT ![p] = new]
    BY <1>3, <1>5 DEF ProbeAnswered, ProbeFails, StartScheduler, StartServer, At, Process, Sound, Off
  <2> QED
    BY <1>5, <2>1, OneProcess DEF ProbeAnswered, ProbeFails, StartScheduler, StartServer
<1>6. ASSUME Notify(p) \/ SelectSignal(p) \/ SelectError(p) \/ Restore(p)
      PROVE  IInv'
  <2>1. PICK new \in Process : Sound(new) /\ proc' = [proc EXCEPT ![p] = new]
    BY <1>3, <1>6 DEF Notify, SelectSignal, SelectError, Restore, At, Process, Sound, Off
  <2> QED
    BY <1>6, <2>1, OneProcess DEF Notify, SelectSignal, SelectError, Restore
<1>7. ASSUME RunTUI(p) \/ RunReturns(p) \/ Drain(p) \/ StopScheduler(p) \/ Shutdown(p)
      PROVE  IInv'
  <2>1. ASSUME RunTUI(p) \/ RunReturns(p)
        PROVE  \E new \in Process : Sound(new) /\ proc' = [proc EXCEPT ![p] = new]
    BY <1>3, <2>1 DEF RunTUI, RunReturns, At, Process, Sound, Off
  <2>2. ASSUME Drain(p)
        PROVE  \E new \in Process : Sound(new) /\ proc' = [proc EXCEPT ![p] = new]
    BY <1>3, <2>2 DEF Drain, At, Process, Sound, Off
  <2>4. ASSUME StopScheduler(p)
        PROVE  \E new \in Process : Sound(new) /\ proc' = [proc EXCEPT ![p] = new]
    <3> DEFINE new == [r EXCEPT !.sched = FALSE,
                                !.pc = IF r.mode = "client" THEN "exit" ELSE "shutdown"]
    <3>1. r.pc = "stop" /\ proc' = [proc EXCEPT ![p] = new]
      BY <2>4 DEF StopScheduler, At
    <3>2. new \in Process
      BY <1>3 DEF Process
    <3>3. Sound(new)
      BY <1>3, <3>1 DEF Process, Sound, Off
    <3> QED
      BY <3>1, <3>2, <3>3
  <2>5. ASSUME Shutdown(p)
        PROVE  \E new \in Process : Sound(new) /\ proc' = [proc EXCEPT ![p] = new]
    <3>1. PICK closed \in {"off", "failed", "dead", "closed"} :
              proc' = [proc EXCEPT ![p].pc = "exit", ![p].srv = closed]
      <4>1. r.srv \in {"off", "starting", "serving", "failed", "dead", "closed"}
        BY <1>3 DEF Process
      <4> QED
        BY <2>5, <4>1 DEF Shutdown
    <3> DEFINE new == [r EXCEPT !.pc = "exit", !.srv = closed]
    <3>2. r.pc = "shutdown" /\ proc' = [proc EXCEPT ![p] = new]
      BY <2>5, <3>1 DEF Shutdown, At
    <3>3. new \in Process
      BY <1>3 DEF Process
    <3>4. Sound(new)
      BY <1>3, <3>2 DEF Process, Sound, Off
    <3> QED
      BY <3>2, <3>3, <3>4
  <2>3. PICK new \in Process : Sound(new) /\ proc' = [proc EXCEPT ![p] = new]
    BY <1>7, <2>1, <2>2, <2>4, <2>5
  <2> QED
    BY <1>7, <2>3, OneProcess DEF RunTUI, RunReturns, Drain, StopScheduler, Shutdown
<1>8. ASSUME Exit(p) \/ Killed(p) PROVE IInv'
  BY <1>8, OffOK, OneProcess DEF Exit, Killed
<1>9. ASSUME ServerStep(p) \/ ServeFails(p) PROVE IInv'
  <2>1. PICK new \in Process : Sound(new) /\ proc' = [proc EXCEPT ![p] = new]
    BY <1>3, <1>9 DEF ServerStep, Listen, SendError, ServeFails, Process, Sound, Off
  <2> QED
    BY <1>9, <2>1, OneProcess DEF ServerStep, Listen, SendError, ServeFails
<1>10. ASSUME MonitorStep(p) PROVE IInv'
  <2>1. PICK new \in Process : Sound(new) /\ proc' = [proc EXCEPT ![p] = new]
    BY <1>3, <1>10 DEF MonitorStep, MonitorTakesError, MonitorStores, MonitorKills, Ended,
                       Process, Sound, Off
  <2> QED
    BY <1>10, <2>1, OneProcess DEF MonitorStep, MonitorTakesError, MonitorStores, MonitorKills
<1>11. ASSUME ForwarderStep(p) PROVE IInv'
  <2>1. PICK new \in Process : Sound(new) /\ proc' = [proc EXCEPT ![p] = new]
    BY <1>3, <1>11 DEF ForwarderStep, ForwarderNotify, ForwarderTakesSignal, ForwarderStops,
                       ForwarderQuits, Ended, Process, Sound, Off
  <2> QED
    BY <1>11, <2>1, OneProcess DEF ForwarderStep, ForwarderNotify, ForwarderTakesSignal,
                                   ForwarderStops, ForwarderQuits
<1>12. ASSUME TUIEnds(p) \/ CaughtSignal(p) PROVE IInv'
  <2>1. ASSUME TUIEnds(p)
        PROVE  \E new \in Process : Sound(new) /\ proc' = [proc EXCEPT ![p] = new]
    <3>1. PICK how \in {"ended", "failed"} : proc' = [proc EXCEPT ![p].tui = how]
      BY <2>1 DEF TUIEnds
    <3> DEFINE new == [r EXCEPT !.tui = how]
    <3>2. r.tui = "running"
      BY <2>1 DEF TUIEnds
    <3>3. new \in Process
      BY <1>3 DEF Process
    <3>4. Sound(new)
      BY <1>3, <3>2 DEF Process, Sound, Off
    <3> QED
      BY <3>1, <3>3, <3>4
  <2>2. ASSUME CaughtSignal(p)
        PROVE  \E new \in Process : Sound(new) /\ proc' = [proc EXCEPT ![p] = new]
    <3> DEFINE new == [r EXCEPT !.sigCh = TRUE]
    <3>1. r.caught /\ proc' = [proc EXCEPT ![p] = new]
      BY <2>2 DEF CaughtSignal
    <3>2. new \in Process
      BY <1>3 DEF Process
    <3>3. r.pc # "off"
      BY <1>3, <3>1 DEF Sound, Off
    <3>4. Sound(new)
      BY <1>3, <3>3 DEF Process, Sound
    <3> QED
      BY <3>1, <3>2, <3>4
  <2>3. PICK new \in Process : Sound(new) /\ proc' = [proc EXCEPT ![p] = new]
    BY <1>12, <2>1, <2>2
  <2> QED
    BY <1>12, <2>3, OneProcess DEF TUIEnds, CaughtSignal
<1> QED
  BY <1>2, <1>4, <1>5, <1>6, <1>7, <1>8, <1>9, <1>10, <1>11, <1>12 DEF MainStep

\* The invariant holds before any process runs.
LEMMA InitIInv == Init => IInv
BY OffOK DEF Init, IInv, TypeOK, Off

\* TypeOK holds throughout: among others, a client never has a scheduler or a
\* server of its own.
THEOREM LifecycleTyped == Spec => []TypeOK
<1>1. IInv => TypeOK
  BY DEF IInv
<1> QED
  BY <1>1, InitIInv, NextIInv, PTL DEF Spec

\* However its goroutines interleave, main returns with the scheduler stopped
\* and the server unable to take requests.
THEOREM CleanExit == Spec => []ExitIsClean
<1>1. IInv => ExitIsClean
  BY DEF IInv, Sound, ExitIsClean, At
<1> QED
  BY <1>1, InitIInv, NextIInv, PTL DEF Spec

-----------------------------------------------------------------------------
(* Processes without a TUI *)

\* Without a TUI no goroutine but main's takes errors from errCh, and main
\* looks for one before it decides how to end.
Reporting(p) ==
    /\ proc[p].mode = IF At(p, "off") THEN "none" ELSE "headless"
    /\ proc[p].pc \notin {"probe", "tui", "running"}
    /\ proc[p].monitor = "off" /\ proc[p].forwarder = "off" /\ proc[p].tui = "off"
    /\ ~At(p, "off") => code[p] = "none"
    /\ code[p] = "success" => ~early[p]
    /\ early[p] /\ ~At(p, "off") => proc[p].errCh \/ proc[p].exitFailed
    /\ early[p] /\ proc[p].pc \in {"stop", "shutdown", "exit"} => proc[p].exitFailed

HInv == IInv /\ \A p \in Proc : Modes[p] = {"headless"} => Reporting(p)

\* What a step of p leaves alone.
LEMMA OthersReport ==
    ASSUME HInv, IInv', NEW p \in Proc, Modes[p] = {"headless"} => Reporting(p)',
           \A q \in Proc : q # p => /\ proc'[q] = proc[q]
                                    /\ code'[q] = code[q] /\ early'[q] = early[q]
    PROVE  HInv'
<1>1. ASSUME NEW q \in Proc, q # p, Modes[q] = {"headless"} PROVE Reporting(q)'
  BY <1>1 DEF HInv, Reporting, At
<1> QED
  BY <1>1 DEF HInv

\* A step of p leaves the other processes alone.
LEMMA OneSteps ==
    ASSUME TypeOK, NEW p \in Proc,
           \/ \E m \in Modes[p] : Launch(p, m)
           \/ MainStep(p) \/ ServerStep(p) \/ ServeFails(p) \/ MonitorStep(p)
           \/ ForwarderStep(p) \/ TUIEnds(p) \/ CaughtSignal(p) \/ Killed(p)
    PROVE  \A q \in Proc : q # p => proc'[q] = proc[q] /\ code'[q] = code[q] /\ early'[q] = early[q]
<1>1. CASE (\E m \in Modes[p] : Launch(p, m)) \/ ServeFails(p) \/ CaughtSignal(p) \/ Killed(p)
  BY <1>1 DEF TypeOK, Launch, ServeFails, CaughtSignal, Killed
<1>2. CASE ServerStep(p) \/ MonitorStep(p) \/ ForwarderStep(p)
  BY <1>2 DEF TypeOK, ServerStep, Listen, SendError, MonitorStep, MonitorTakesError,
     MonitorStores, MonitorKills, ForwarderStep, ForwarderNotify, ForwarderTakesSignal,
     ForwarderStops, ForwarderQuits
<1>3. CASE TUIEnds(p)
  BY <1>3 DEF TypeOK, TUIEnds
<1>4. CASE MainStep(p)
  BY <1>4 DEF TypeOK, MainStep, ProbeAnswered, ProbeFails, StartScheduler, StartServer,
     Notify, SelectSignal, SelectError, Restore, RunTUI, RunReturns, Drain, StopScheduler,
     Shutdown, Exit
<1> QED
  BY <1>1, <1>2, <1>3, <1>4

\* Every step keeps the invariant.
LEMMA HeadlessStep ==
    ASSUME HInv, [Next]_vars
    PROVE  HInv'
<1>1. IInv'
  BY NextIInv DEF HInv
<1>2. CASE UNCHANGED vars
  BY <1>1, <1>2 DEF vars, HInv, Reporting, At
<1>3. SUFFICES ASSUME NEW p \in Proc,
          \/ \E m \in Modes[p] : Launch(p, m)
          \/ MainStep(p) \/ ServerStep(p) \/ ServeFails(p) \/ MonitorStep(p)
          \/ ForwarderStep(p) \/ TUIEnds(p) \/ CaughtSignal(p) \/ Killed(p)
      PROVE HInv'
  BY <1>2 DEF Next
<1>8. \A q \in Proc : q # p => proc'[q] = proc[q] /\ code'[q] = code[q] /\ early'[q] = early[q]
  BY <1>3, OneSteps DEF HInv, IInv
<1>24. CASE Modes[p] # {"headless"}
  BY <1>1, <1>8, <1>24, OthersReport
<1>25. SUFFICES ASSUME Modes[p] = {"headless"} PROVE HInv'
  BY <1>24
<1>4. Reporting(p) /\ Sound(proc[p]) /\ TypeOK
  BY <1>25 DEF HInv, IInv
<1>5. ~(MonitorStep(p) \/ ForwarderStep(p) \/ TUIEnds(p))
  BY <1>4 DEF Reporting, MonitorStep, MonitorTakesError, MonitorStores, MonitorKills, TUIEnds,
     ForwarderStep, ForwarderNotify, ForwarderTakesSignal, ForwarderStops, ForwarderQuits
<1>6. ~(ProbeAnswered(p) \/ ProbeFails(p) \/ RunTUI(p) \/ RunReturns(p))
  BY <1>4 DEF Reporting, At, ProbeAnswered, ProbeFails, RunTUI, RunReturns
<1>7. ASSUME Launch(p, "headless") PROVE HInv'
  <2>1. Reporting(p)'
    BY <1>7, <1>4 DEF Launch, Off, Reporting, At, TypeOK
  <2> QED
    BY <1>1, <1>8, <2>1, OthersReport
<1>9. CASE StartScheduler(p)
  <2>1. Reporting(p)'
    BY <1>9, <1>4 DEF StartScheduler, Reporting, At, TypeOK
  <2> QED
    BY <1>1, <1>8, <2>1, OthersReport
<1>10. CASE StartServer(p)
  <2>1. Reporting(p)'
    BY <1>10, <1>4 DEF StartServer, Reporting, At, TypeOK
  <2> QED
    BY <1>1, <1>8, <2>1, OthersReport
<1>11. CASE Notify(p)
  <2>1. Reporting(p)'
    BY <1>11, <1>4 DEF Notify, Reporting, At, TypeOK
  <2> QED
    BY <1>1, <1>8, <2>1, OthersReport
<1>12. CASE SelectSignal(p)
  <2>1. Reporting(p)'
    BY <1>12, <1>4 DEF SelectSignal, Reporting, At, TypeOK
  <2> QED
    BY <1>1, <1>8, <2>1, OthersReport
<1>13. CASE SelectError(p)
  <2>1. Reporting(p)'
    BY <1>13, <1>4 DEF SelectError, Reporting, At, TypeOK
  <2> QED
    BY <1>1, <1>8, <2>1, OthersReport
<1>14. CASE Restore(p)
  <2>1. Reporting(p)'
    BY <1>14, <1>4 DEF Restore, Reporting, At, TypeOK
  <2> QED
    BY <1>1, <1>8, <2>1, OthersReport
<1>15. CASE Drain(p)
  <2>1. Reporting(p)'
    BY <1>15, <1>4 DEF Drain, Reporting, At, TypeOK
  <2> QED
    BY <1>1, <1>8, <2>1, OthersReport
<1>16. CASE StopScheduler(p)
  <2>1. Reporting(p)'
    BY <1>16, <1>4 DEF StopScheduler, Reporting, At, TypeOK
  <2> QED
    BY <1>1, <1>8, <2>1, OthersReport
<1>17. CASE Shutdown(p)
  <2>1. Reporting(p)'
    BY <1>17, <1>4 DEF Shutdown, Reporting, At, TypeOK
  <2> QED
    BY <1>1, <1>8, <2>1, OthersReport
<1>18. CASE Exit(p)
  <2>1. Reporting(p)'
    BY <1>18, <1>4 DEF Exit, Reporting, At, TypeOK, Off
  <2> QED
    BY <1>1, <1>8, <2>1, OthersReport
<1>19. CASE Listen(p)
  <2>1. Reporting(p)'
    BY <1>19, <1>4 DEF Listen, Reporting, At, TypeOK, Sound, Off
  <2> QED
    BY <1>1, <1>8, <2>1, OthersReport
<1>20. CASE SendError(p)
  <2>1. Reporting(p)'
    BY <1>20, <1>4 DEF SendError, Reporting, At, TypeOK, Sound, Off
  <2> QED
    BY <1>1, <1>8, <2>1, OthersReport
<1>21. CASE ServeFails(p)
  <2>1. Reporting(p)'
    BY <1>21, <1>4 DEF ServeFails, Reporting, At, TypeOK
  <2> QED
    BY <1>1, <1>8, <2>1, OthersReport
<1>22. CASE CaughtSignal(p)
  <2>1. Reporting(p)'
    BY <1>22, <1>4 DEF CaughtSignal, Reporting, At, TypeOK
  <2> QED
    BY <1>1, <1>8, <2>1, OthersReport
<1>23. CASE Killed(p)
  <2>1. Reporting(p)'
    BY <1>23, <1>4 DEF Killed, Reporting, At, TypeOK, Off
  <2> QED
    BY <1>1, <1>8, <2>1, OthersReport
<1> QED
  BY <1>3, <1>25, <1>5, <1>6, <1>7, <1>9, <1>10, <1>11, <1>12, <1>13, <1>14, <1>15, <1>16,
     <1>17, <1>18, <1>19, <1>20, <1>21, <1>22, <1>23 DEF MainStep, ServerStep

\* A process that is started without a TUI, and whose server fails before main
\* has looked for an error for the last time, exits with a failure, signalled or
\* not, whatever other processes do.
THEOREM HeadlessReports == Spec => []HeadlessFailureReported
<1>1. Init => HInv
  BY InitIInv DEF Init, HInv, Reporting, At, Off
<1>2. HInv /\ [Next]_vars => HInv'
  BY HeadlessStep
<1>3. HInv => HeadlessFailureReported
  BY DEF HInv, Reporting, HeadlessFailureReported
<1> QED
  BY <1>1, <1>2, <1>3, PTL DEF Spec
=============================================================================
