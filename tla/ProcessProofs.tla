---------------------------- MODULE ProcessProofs ----------------------------
(***************************************************************************)
(* Theorems about the process.  App, for every traffic mode and number of  *)
(* clients: what the exit status says is true, and readiness is reported   *)
(* once.  Config, for every combination of layers and surroundings: the    *)
(* settings in force are the ones asked for, and a service that starts can *)
(* rely on them.  Process: the invariants of its parts hold together.      *)
(***************************************************************************)
EXTENDS Process, ServicesProofs

\* What Run has done by the time it is at each place.
Early == {"mkdir", "configure", "start", "bind", "unbind", "ready"}
Late  == {"stopAdmin", "stopService", "stop"}
Serving == {"serving", "draining", "ended"}
Down == service \in {"none", "ended"} /\ database # "open" /\ broke = "no"

\* The lifecycle state follows Run, so that each of its transitions is legal.
StateFollowsRun ==
    /\ run \in Early => state = "starting" /\ result = "none"
    /\ run = "select" => state = "ready" /\ result = "none"
    /\ run \in Late => state = "draining" /\ result = "none" /\ ctx = "cancelled"
    /\ ReturnReported

\* The service and the admin server are where Run has put them.
PartsFollowRun ==
    /\ run \in {"mkdir", "configure"} => service = "none"
    /\ run \in {"bind", "ready", "select"} /\ mode # "disabled" => service \in Serving
    /\ run \in {"mkdir", "configure", "start", "bind", "unbind"} => admin = "none"
    /\ run \in {"ready", "select"} => admin # "none"
    /\ run \in {"stopService", "stop"} => admin = "closed"
    /\ run = "start" => service = "configured"

\* The pool is open only while there is a service, and only a service that serves
\* or drains has clients.
ServiceHolds ==
    /\ service = "none" => database = "none" /\ broke = "no"
    /\ mode # "pooled" => database = "none"
    /\ service \in {"none", "configured", "ended"} => clients = 0
    /\ run = "stop" => Down

\* An orderly return, and what the exit status says of it.
ReturnClean ==
    /\ run = "returned" /\ result = "nil" => Down /\ admin = "closed" /\ ctx = "cancelled"
    /\ exit # "none" => run = "returned"
    /\ exit = "zero" => result = "nil"

AppInv == TypeOK /\ StateFollowsRun /\ PartsFollowRun /\ ServiceHolds /\ ReturnClean

\* The process starts with nothing open.
LEMMA InitAppInv == Init => AppInv
BY AppAssumption
   DEF Init, AppInv, TypeOK, StateFollowsRun, PartsFollowRun, ServiceHolds, ReturnClean, ReturnReported, Early,
       Late, Serving, Down, States

\* Each step of Run and of its environment keeps it.
LEMMA NextAppInv == AppInv /\ [Next]_vars => AppInv'
<1> SUFFICES ASSUME AppInv, [Next]_vars PROVE AppInv'
  OBVIOUS
<1> USE AppAssumption DEF Living, process, traffic, probes
<1>1. CASE MakeDataDir
  <2>1. TypeOK'
    BY <1>1 DEF MakeDataDir, Goto, Fail, Transition, Allowed, AppInv, TypeOK, States
  <2>2. StateFollowsRun'
    BY <1>1 DEF MakeDataDir, Goto, Fail, Transition, Allowed, AppInv, StateFollowsRun, ReturnReported, Early, Late
  <2>3. PartsFollowRun'
    BY <1>1 DEF MakeDataDir, Goto, Fail, Transition, Allowed, AppInv, TypeOK, PartsFollowRun, StateFollowsRun, ServiceHolds, Serving, Early, Late
  <2>4. ServiceHolds' /\ ReturnClean'
    BY <1>1 DEF MakeDataDir, Goto, Fail, Transition, Allowed, AppInv, TypeOK, PartsFollowRun, StateFollowsRun, ServiceHolds, ReturnClean, Serving, Early, Late, Down
  <2> QED
    BY <2>1, <2>2, <2>3, <2>4 DEF AppInv
<1>2. CASE Configure
  <2>1. TypeOK'
    BY <1>2 DEF Configure, Goto, Fail, Transition, Allowed, AppInv, TypeOK, States
  <2>2. StateFollowsRun'
    BY <1>2 DEF Configure, Goto, Fail, Transition, Allowed, AppInv, StateFollowsRun, ReturnReported, Early, Late
  <2>3. PartsFollowRun'
    BY <1>2 DEF Configure, Goto, Fail, Transition, Allowed, AppInv, TypeOK, PartsFollowRun, StateFollowsRun, ServiceHolds, Serving, Early, Late
  <2>4. ServiceHolds' /\ ReturnClean'
    BY <1>2 DEF Configure, Goto, Fail, Transition, Allowed, AppInv, TypeOK, PartsFollowRun, StateFollowsRun, ServiceHolds, ReturnClean, Serving, Early, Late, Down
  <2> QED
    BY <2>1, <2>2, <2>3, <2>4 DEF AppInv
<1>3. CASE Start
  <2>1. TypeOK'
    BY <1>3 DEF Start, Goto, Fail, Transition, Allowed, AppInv, TypeOK, States
  <2>2. StateFollowsRun'
    BY <1>3 DEF Start, Goto, Fail, Transition, Allowed, AppInv, StateFollowsRun, ReturnReported, Early, Late
  <2>3. PartsFollowRun'
    BY <1>3 DEF Start, Goto, Fail, Transition, Allowed, AppInv, TypeOK, PartsFollowRun, StateFollowsRun, ServiceHolds, Serving, Early, Late
  <2>4. ServiceHolds' /\ ReturnClean'
    BY <1>3 DEF Start, Goto, Fail, Transition, Allowed, AppInv, TypeOK, PartsFollowRun, StateFollowsRun, ServiceHolds, ReturnClean, Serving, Early, Late, Down
  <2> QED
    BY <2>1, <2>2, <2>3, <2>4 DEF AppInv
<1>4. CASE BindAdmin
  <2>1. TypeOK'
    BY <1>4 DEF BindAdmin, Goto, AppInv, TypeOK, States
  <2>2. StateFollowsRun'
    BY <1>4 DEF BindAdmin, Goto, AppInv, StateFollowsRun, ReturnReported, Early, Late
  <2>3. PartsFollowRun'
    BY <1>4 DEF BindAdmin, Goto, AppInv, TypeOK, PartsFollowRun, StateFollowsRun, ServiceHolds, Serving, Early, Late
  <2>4. ServiceHolds' /\ ReturnClean'
    BY <1>4 DEF BindAdmin, Goto, AppInv, TypeOK, PartsFollowRun, StateFollowsRun, ServiceHolds, ReturnClean, Serving, Early, Late, Down
  <2> QED
    BY <2>1, <2>2, <2>3, <2>4 DEF AppInv
<1>5. CASE BindAdminFails
  <2>1. TypeOK'
    BY <1>5 DEF BindAdminFails, Goto, Fail, Transition, Allowed, AppInv, TypeOK, States
  <2>2. StateFollowsRun'
    BY <1>5 DEF BindAdminFails, Goto, Fail, Transition, Allowed, AppInv, StateFollowsRun, ReturnReported, Early, Late
  <2>3. PartsFollowRun'
    BY <1>5 DEF BindAdminFails, Goto, Fail, Transition, Allowed, AppInv, TypeOK, PartsFollowRun, StateFollowsRun, ServiceHolds, Serving, Early, Late
  <2>4. ServiceHolds' /\ ReturnClean'
    BY <1>5 DEF BindAdminFails, Goto, Fail, Transition, Allowed, AppInv, TypeOK, PartsFollowRun, StateFollowsRun, ServiceHolds, ReturnClean, Serving, Early, Late, Down
  <2> QED
    BY <2>1, <2>2, <2>3, <2>4 DEF AppInv
<1>6. CASE Unbind
  <2>1. TypeOK'
    BY <1>6 DEF Unbind, Fail, Transition, Allowed, ServiceDown, AppInv, TypeOK, States
  <2>2. StateFollowsRun'
    BY <1>6 DEF Unbind, Fail, Transition, Allowed, ServiceDown, AppInv, StateFollowsRun, ReturnReported, Early, Late
  <2>3. PartsFollowRun'
    BY <1>6 DEF Unbind, Fail, Transition, Allowed, ServiceDown, AppInv, TypeOK, PartsFollowRun, StateFollowsRun, ServiceHolds, Serving, Early, Late
  <2>4. ServiceHolds' /\ ReturnClean'
    BY <1>6 DEF Unbind, Fail, Transition, Allowed, ServiceDown, AppInv, TypeOK, PartsFollowRun, StateFollowsRun, ServiceHolds, ReturnClean, Serving, Early, Late, Down
  <2> QED
    BY <2>1, <2>2, <2>3, <2>4 DEF AppInv
<1>7. CASE BecomeReady
  <2>1. TypeOK'
    BY <1>7 DEF BecomeReady, Transition, Allowed, AppInv, TypeOK, States
  <2>2. StateFollowsRun'
    BY <1>7 DEF BecomeReady, Transition, Allowed, AppInv, StateFollowsRun, ReturnReported, Early, Late
  <2>3. PartsFollowRun'
    BY <1>7 DEF BecomeReady, Transition, Allowed, AppInv, TypeOK, PartsFollowRun, StateFollowsRun, ServiceHolds, Serving, Early, Late
  <2>4. ServiceHolds' /\ ReturnClean'
    BY <1>7 DEF BecomeReady, Transition, Allowed, AppInv, TypeOK, PartsFollowRun, StateFollowsRun, ServiceHolds, ReturnClean, Serving, Early, Late, Down
  <2> QED
    BY <2>1, <2>2, <2>3, <2>4 DEF AppInv
<1>8. CASE ShutdownRequested
  <2>1. TypeOK'
    BY <1>8 DEF ShutdownRequested, Transition, Allowed, AppInv, TypeOK, States
  <2>2. StateFollowsRun'
    BY <1>8 DEF ShutdownRequested, Transition, Allowed, AppInv, StateFollowsRun, ReturnReported, Early, Late
  <2>3. PartsFollowRun'
    BY <1>8 DEF ShutdownRequested, Transition, Allowed, AppInv, TypeOK, PartsFollowRun, StateFollowsRun, ServiceHolds, Serving, Early, Late
  <2>4. ServiceHolds' /\ ReturnClean'
    BY <1>8 DEF ShutdownRequested, Transition, Allowed, AppInv, TypeOK, PartsFollowRun, StateFollowsRun, ServiceHolds, ReturnClean, Serving, Early, Late, Down
  <2> QED
    BY <2>1, <2>2, <2>3, <2>4 DEF AppInv
<1>9. CASE AdminServerFailed
  <2>1. TypeOK'
    BY <1>9 DEF AdminServerFailed, Fail, Transition, Allowed, AppInv, TypeOK, States
  <2>2. StateFollowsRun'
    BY <1>9 DEF AdminServerFailed, Fail, Transition, Allowed, AppInv, StateFollowsRun, ReturnReported, Early, Late
  <2>3. PartsFollowRun'
    BY <1>9 DEF AdminServerFailed, Fail, Transition, Allowed, AppInv, TypeOK, PartsFollowRun, StateFollowsRun, ServiceHolds, Serving, Early, Late
  <2>4. ServiceHolds' /\ ReturnClean'
    BY <1>9 DEF AdminServerFailed, Fail, Transition, Allowed, AppInv, TypeOK, PartsFollowRun, StateFollowsRun, ServiceHolds, ReturnClean, Serving, Early, Late, Down
  <2> QED
    BY <2>1, <2>2, <2>3, <2>4 DEF AppInv
<1>10. CASE StopAdmin
  <2>1. TypeOK'
    BY <1>10 DEF StopAdmin, Goto, Fail, Transition, Allowed, AppInv, TypeOK, States
  <2>2. StateFollowsRun'
    BY <1>10 DEF StopAdmin, Goto, Fail, Transition, Allowed, AppInv, StateFollowsRun, ReturnReported, Early, Late
  <2>3. PartsFollowRun'
    BY <1>10 DEF StopAdmin, Goto, Fail, Transition, Allowed, AppInv, TypeOK, PartsFollowRun, StateFollowsRun, ServiceHolds, Serving, Early, Late
  <2>4. ServiceHolds' /\ ReturnClean'
    BY <1>10 DEF StopAdmin, Goto, Fail, Transition, Allowed, AppInv, TypeOK, PartsFollowRun, StateFollowsRun, ServiceHolds, ReturnClean, Serving, Early, Late, Down
  <2> QED
    BY <2>1, <2>2, <2>3, <2>4 DEF AppInv
<1>11. CASE StopService
  <2>1. TypeOK'
    BY <1>11 DEF StopService, Goto, Fail, Transition, Allowed, ServiceDown, AppInv, TypeOK, States
  <2>2. StateFollowsRun'
    BY <1>11 DEF StopService, Goto, Fail, Transition, Allowed, ServiceDown, AppInv, StateFollowsRun, ReturnReported, Early, Late
  <2>3. PartsFollowRun'
    BY <1>11 DEF StopService, Goto, Fail, Transition, Allowed, ServiceDown, AppInv, TypeOK, PartsFollowRun, StateFollowsRun, ServiceHolds, Serving, Early, Late
  <2>4. ServiceHolds' /\ ReturnClean'
    BY <1>11 DEF StopService, Goto, Fail, Transition, Allowed, ServiceDown, AppInv, TypeOK, PartsFollowRun, StateFollowsRun, ServiceHolds, ReturnClean, Serving, Early, Late, Down
  <2> QED
    BY <2>1, <2>2, <2>3, <2>4 DEF AppInv
<1>12. CASE Stop
  <2>1. TypeOK'
    BY <1>12 DEF Stop, Transition, Allowed, AppInv, TypeOK, States
  <2>2. StateFollowsRun'
    BY <1>12 DEF Stop, Transition, Allowed, AppInv, StateFollowsRun, ReturnReported, Early, Late
  <2>3. PartsFollowRun'
    BY <1>12 DEF Stop, Transition, Allowed, AppInv, TypeOK, PartsFollowRun, StateFollowsRun, ServiceHolds, Serving, Early, Late
  <2>4. ServiceHolds' /\ ReturnClean'
    BY <1>12 DEF Stop, Transition, Allowed, AppInv, TypeOK, PartsFollowRun, StateFollowsRun, ServiceHolds, ReturnClean, Serving, Early, Late, Down
  <2> QED
    BY <2>1, <2>2, <2>3, <2>4 DEF AppInv
<1>13. CASE Exit
  <2>1. TypeOK'
    BY <1>13 DEF Exit, AppInv, TypeOK, States
  <2>2. StateFollowsRun'
    BY <1>13 DEF Exit, AppInv, StateFollowsRun, ReturnReported, Early, Late
  <2>3. PartsFollowRun'
    BY <1>13 DEF Exit, AppInv, TypeOK, PartsFollowRun, StateFollowsRun, ServiceHolds, Serving, Early, Late
  <2>4. ServiceHolds' /\ ReturnClean'
    BY <1>13 DEF Exit, AppInv, TypeOK, PartsFollowRun, StateFollowsRun, ServiceHolds, ReturnClean, Serving, Early, Late, Down, ReturnReported
  <2> QED
    BY <2>1, <2>2, <2>3, <2>4 DEF AppInv
<1>14. CASE Signal
  <2>1. TypeOK'
    BY <1>14 DEF Signal, AppInv, TypeOK, States
  <2>2. StateFollowsRun'
    BY <1>14 DEF Signal, AppInv, StateFollowsRun, ReturnReported, Early, Late
  <2>3. PartsFollowRun'
    BY <1>14 DEF Signal, AppInv, TypeOK, PartsFollowRun, StateFollowsRun, ServiceHolds, Serving, Early, Late
  <2>4. ServiceHolds' /\ ReturnClean'
    BY <1>14 DEF Signal, AppInv, TypeOK, PartsFollowRun, StateFollowsRun, ServiceHolds, ReturnClean, Serving, Early, Late, Down
  <2> QED
    BY <2>1, <2>2, <2>3, <2>4 DEF AppInv
<1>15. CASE AdminBreaks
  <2>1. TypeOK'
    BY <1>15 DEF AdminBreaks, AppInv, TypeOK, States
  <2>2. StateFollowsRun'
    BY <1>15 DEF AdminBreaks, AppInv, StateFollowsRun, ReturnReported, Early, Late
  <2>3. PartsFollowRun'
    BY <1>15 DEF AdminBreaks, AppInv, TypeOK, PartsFollowRun, StateFollowsRun, ServiceHolds, Serving, Early, Late
  <2>4. ServiceHolds' /\ ReturnClean'
    BY <1>15 DEF AdminBreaks, AppInv, TypeOK, PartsFollowRun, StateFollowsRun, ServiceHolds, ReturnClean, Serving, Early, Late, Down
  <2> QED
    BY <2>1, <2>2, <2>3, <2>4 DEF AppInv
<1>16. CASE AcceptClient
  <2>1. TypeOK'
    BY <1>16 DEF AcceptClient, AppInv, TypeOK, States
  <2>2. StateFollowsRun'
    BY <1>16 DEF AcceptClient, AppInv, StateFollowsRun, ReturnReported, Early, Late
  <2>3. PartsFollowRun'
    BY <1>16 DEF AcceptClient, AppInv, TypeOK, PartsFollowRun, StateFollowsRun, ServiceHolds, Serving, Early, Late
  <2>4. ServiceHolds' /\ ReturnClean'
    BY <1>16 DEF AcceptClient, AppInv, TypeOK, PartsFollowRun, StateFollowsRun, ServiceHolds, ReturnClean, Serving, Early, Late, Down
  <2> QED
    BY <2>1, <2>2, <2>3, <2>4 DEF AppInv
<1>17. CASE ClientLeaves
  <2>1. TypeOK'
    BY <1>17 DEF ClientLeaves, AppInv, TypeOK, States
  <2>2. StateFollowsRun'
    BY <1>17 DEF ClientLeaves, AppInv, StateFollowsRun, ReturnReported, Early, Late
  <2>3. PartsFollowRun'
    BY <1>17 DEF ClientLeaves, AppInv, TypeOK, PartsFollowRun, StateFollowsRun, ServiceHolds, Serving, Early, Late
  <2>4. ServiceHolds' /\ ReturnClean'
    BY <1>17 DEF ClientLeaves, AppInv, TypeOK, PartsFollowRun, StateFollowsRun, ServiceHolds, ReturnClean, Serving, Early, Late, Down
  <2> QED
    BY <2>1, <2>2, <2>3, <2>4 DEF AppInv
<1>18. CASE AcceptBreaks
  <2>1. TypeOK'
    BY <1>18 DEF AcceptBreaks, AppInv, TypeOK, States
  <2>2. StateFollowsRun'
    BY <1>18 DEF AcceptBreaks, AppInv, StateFollowsRun, ReturnReported, Early, Late
  <2>3. PartsFollowRun'
    BY <1>18 DEF AcceptBreaks, AppInv, TypeOK, PartsFollowRun, StateFollowsRun, ServiceHolds, Serving, Early, Late
  <2>4. ServiceHolds' /\ ReturnClean'
    BY <1>18 DEF AcceptBreaks, AppInv, TypeOK, PartsFollowRun, StateFollowsRun, ServiceHolds, ReturnClean, Serving, Early, Late, Down
  <2> QED
    BY <2>1, <2>2, <2>3, <2>4 DEF AppInv
<1>19. CASE ServiceDrains
  <2>1. TypeOK'
    BY <1>19 DEF ServiceDrains, AppInv, TypeOK, States
  <2>2. StateFollowsRun'
    BY <1>19 DEF ServiceDrains, AppInv, StateFollowsRun, ReturnReported, Early, Late
  <2>3. PartsFollowRun'
    BY <1>19 DEF ServiceDrains, AppInv, TypeOK, PartsFollowRun, StateFollowsRun, ServiceHolds, Serving, Early, Late
  <2>4. ServiceHolds' /\ ReturnClean'
    BY <1>19 DEF ServiceDrains, AppInv, TypeOK, PartsFollowRun, StateFollowsRun, ServiceHolds, ReturnClean, Serving, Early, Late, Down
  <2> QED
    BY <2>1, <2>2, <2>3, <2>4 DEF AppInv
<1>20. CASE ServiceEnds
  <2>1. TypeOK'
    BY <1>20 DEF ServiceEnds, AppInv, TypeOK, States
  <2>2. StateFollowsRun'
    BY <1>20 DEF ServiceEnds, AppInv, StateFollowsRun, ReturnReported, Early, Late
  <2>3. PartsFollowRun'
    BY <1>20 DEF ServiceEnds, AppInv, TypeOK, PartsFollowRun, StateFollowsRun, ServiceHolds, Serving, Early, Late
  <2>4. ServiceHolds' /\ ReturnClean'
    BY <1>20 DEF ServiceEnds, AppInv, TypeOK, PartsFollowRun, StateFollowsRun, ServiceHolds, ReturnClean, Serving, Early, Late, Down
  <2> QED
    BY <2>1, <2>2, <2>3, <2>4 DEF AppInv
<1>21. CASE ProbeEnds
  <2>1. TypeOK'
    BY <1>21 DEF ProbeEnds, AppInv, TypeOK, States
  <2>2. StateFollowsRun'
    BY <1>21 DEF ProbeEnds, AppInv, StateFollowsRun, ReturnReported, Early, Late
  <2>3. PartsFollowRun'
    BY <1>21 DEF ProbeEnds, AppInv, TypeOK, PartsFollowRun, StateFollowsRun, ServiceHolds, Serving, Early, Late
  <2>4. ServiceHolds' /\ ReturnClean'
    BY <1>21 DEF ProbeEnds, AppInv, TypeOK, PartsFollowRun, StateFollowsRun, ServiceHolds, ReturnClean, Serving, Early, Late, Down
  <2> QED
    BY <2>1, <2>2, <2>3, <2>4 DEF AppInv
<1>22. CASE ProbeTick
  <2>1. TypeOK'
    BY <1>22 DEF ProbeTick, AppInv, TypeOK, States
  <2>2. StateFollowsRun'
    BY <1>22 DEF ProbeTick, AppInv, StateFollowsRun, ReturnReported, Early, Late
  <2>3. PartsFollowRun'
    BY <1>22 DEF ProbeTick, AppInv, TypeOK, PartsFollowRun, StateFollowsRun, ServiceHolds, Serving, Early, Late
  <2>4. ServiceHolds' /\ ReturnClean'
    BY <1>22 DEF ProbeTick, AppInv, TypeOK, PartsFollowRun, StateFollowsRun, ServiceHolds, ReturnClean, Serving, Early, Late, Down
  <2> QED
    BY <2>1, <2>2, <2>3, <2>4 DEF AppInv
<1>23. CASE ProberStops
  <2>1. TypeOK'
    BY <1>23 DEF ProberStops, AppInv, TypeOK, States
  <2>2. StateFollowsRun'
    BY <1>23 DEF ProberStops, AppInv, StateFollowsRun, ReturnReported, Early, Late
  <2>3. PartsFollowRun'
    BY <1>23 DEF ProberStops, AppInv, TypeOK, PartsFollowRun, StateFollowsRun, ServiceHolds, Serving, Early, Late
  <2>4. ServiceHolds' /\ ReturnClean'
    BY <1>23 DEF ProberStops, AppInv, TypeOK, PartsFollowRun, StateFollowsRun, ServiceHolds, ReturnClean, Serving, Early, Late, Down
  <2> QED
    BY <2>1, <2>2, <2>3, <2>4 DEF AppInv
<1>24. CASE UNCHANGED vars
  BY <1>24 DEF vars, AppInv, TypeOK, StateFollowsRun, ReturnReported, PartsFollowRun, ServiceHolds, ReturnClean, Down
<1> QED
  BY <1>1, <1>2, <1>3, <1>4, <1>5, <1>6, <1>7, <1>8, <1>9, <1>10, <1>11, <1>12, <1>13, <1>14, <1>15, <1>16, <1>17, <1>18, <1>19, <1>20, <1>21, <1>22, <1>23, <1>24 DEF Next, RunStep, Environment, Terminated

\* In every reachable state the parts are where Run has put them.
THEOREM SpecAppInv == Spec => []AppInv
BY InitAppInv, NextAppInv, PTL DEF Spec

\* When Run returns, the lifecycle state says how it ended (app.go:64-173), in every
\* mode and with any number of clients.
THEOREM ReturnReportedHolds == Spec => []ReturnReported
BY SpecAppInv, PTL DEF AppInv, StateFollowsRun

\* Exit status 0 means an orderly stop (command.go:273-284): no client, no open
\* pool, no listener that failed unnoticed.
THEOREM CleanExitHolds == Spec => []CleanExit
<1>1. AppInv => CleanExit
  BY DEF AppInv, StateFollowsRun, ReturnReported, ServiceHolds, ReturnClean, CleanExit, Down
<1> QED
  BY <1>1, SpecAppInv, PTL

\* Together: the lifecycle state and the exit status say how the process ended.
THEOREM ExitTruthfulHolds == Spec => []ExitTruthful
BY ReturnReportedHolds, CleanExitHolds, PTL DEF ExitTruthful

\* Readiness begins once, with all listeners open, and ends with a signal or a
\* failed admin server.
THEOREM ReadyOnceHolds == Spec => ReadyOnce
<1> DEFINE Step ==
      /\ IsReady(state') => admin' # "none" /\ (mode # "disabled" => service' \notin {"none", "configured"})
      /\ IsReady(state) /\ ~IsReady(state') => ctx = "cancelled" \/ admin = "failed"
      /\ ~IsReady(state) /\ IsReady(state') => state = "starting"
<1>1. AppInv /\ [Next]_vars => [Step]_vars
  <2> SUFFICES ASSUME AppInv, Next, AppInv' PROVE Step
    BY NextAppInv
  <2> USE DEF Living, process, traffic, probes
  <2>1. mode' = mode
    BY Zenon DEF Next, RunStep, Environment, Terminated, vars, MakeDataDir, Configure, Start, BindAdmin, BindAdminFails, Unbind,
       BecomeReady, ShutdownRequested, AdminServerFailed, StopAdmin, StopService, Stop, Exit, Signal, AdminBreaks,
       AcceptClient, ClientLeaves, AcceptBreaks, ServiceDrains, ServiceEnds, ProbeEnds, ProbeTick,
       ProberStops
  <2>2. IsReady(state') => admin' # "none" /\ (mode # "disabled" => service' \notin {"none", "configured"})
    BY <2>1 DEF AppInv, TypeOK, StateFollowsRun, ReturnReported, PartsFollowRun, IsReady, Serving, Early, Late
  <2>3. \/ state' = state
        \/ run \in Early \cup Late \/ run = "returned"
        \/ ctx = "cancelled" \/ admin = "failed"
    BY Zenon DEF Next, RunStep, Environment, Terminated, vars, MakeDataDir, Configure, Start, BindAdmin, BindAdminFails, Unbind,
       BecomeReady, ShutdownRequested, AdminServerFailed, StopAdmin, StopService, Stop, Exit, Signal, AdminBreaks,
       AcceptClient, ClientLeaves, AcceptBreaks, ServiceDrains, ServiceEnds, ProbeEnds, ProbeTick,
       ProberStops, Goto, Fail, Early, Late
  <2>4. IsReady(state) /\ ~IsReady(state') => ctx = "cancelled" \/ admin = "failed"
    BY <2>3 DEF AppInv, StateFollowsRun, ReturnReported, IsReady
  <2>5. state' = state \/ state' = Transition(state, "ready") \/ ~IsReady(state')
    BY Zenon DEF Next, RunStep, Environment, Terminated, vars, MakeDataDir, Configure, Start, BindAdmin, BindAdminFails, Unbind,
       BecomeReady, ShutdownRequested, AdminServerFailed, StopAdmin, StopService, Stop, Exit, Signal, AdminBreaks,
       AcceptClient, ClientLeaves, AcceptBreaks, ServiceDrains, ServiceEnds, ProbeEnds, ProbeTick,
       ProberStops, Goto, Fail, Transition, IsReady
  <2>6. ~IsReady(state) /\ IsReady(state') => state = "starting"
    BY <2>5 DEF Transition, Allowed, IsReady, AppInv, TypeOK, States
  <2> QED
    BY <2>2, <2>4, <2>6
<1> QED
  BY <1>1, SpecAppInv, PTL DEF Spec, ReadyOnce
-----------------------------------------------------------------------------
(* The settings.                                                           *)

\* The value of a field after each layer.
FromFile(f) == IF f \in DOMAIN layers.file.sets THEN layers.file.sets[f] ELSE C!Default[f]
FromEnv(f) == IF f \in DOMAIN layers.env.sets THEN layers.env.sets[f] ELSE FromFile(f)
FromFlags(f) == IF f \in DOMAIN layers.flags THEN layers.flags[f] ELSE FromEnv(f)

\* The layers that have been read are the ones in force.
LayersSoFar ==
    /\ DOMAIN cfg = DOMAIN C!Default
    /\ loading = "file" => cfg = C!Default
    /\ loading = "env" => \A f \in DOMAIN C!Default : cfg[f] = FromFile(f)
    /\ loading = "flags" => \A f \in DOMAIN C!Default : cfg[f] = FromEnv(f)
    /\ loading = "managed" => \A f \in DOMAIN C!Default : cfg[f] = FromFlags(f)
    /\ C!LastLayerWins

\* The secrets are those that ResolveSecrets found for these settings.
SecretsFound ==
    /\ secrets = [admin |-> C!AdminSecret(cfg), client |-> C!ClientSecret(cfg), upstream |-> C!UpstreamSecret(cfg)]
    /\ ~C!LookupFails(cfg)
    /\ \A n \in DOMAIN secrets : secrets[n] # "refused"

\* The service that was constructed, and what its constructor saw.
ServiceBuilt ==
    /\ built \in {"none", "gateway", "relay"}
    /\ built # "none" => loading = "ready" /\ cfg.enabled = "true"
    /\ built = "gateway" => cfg.mode = "pooled" /\ cfg.clientTLS \in {"disabled", "required"}

ConfigInv ==
    /\ loading \in {"file", "env", "flags", "managed", "secrets", "configure", "ready", "exit"}
    /\ C!WellTyped(layers)
    /\ C!Typed(cfg, DOMAIN C!Default)
    /\ LayersSoFar
    /\ loading \in {"secrets", "configure", "ready"} => C!Validate(cfg)
    /\ loading \in {"configure", "ready"} => SecretsFound
    /\ ServiceBuilt

\* The defaults have the types of their fields.
LEMMA DefaultTyped ==
    /\ C!IntFields \cup C!BoolFields \subseteq DOMAIN C!Default
    /\ C!Typed(C!Default, DOMAIN C!Default)
BY DEF C!Default, C!Typed, C!IntFields, C!BoolFields

\* Putting one layer over the settings: each field comes from the layer or stays,
\* and keeps its type.
LEMMA OverlayEffect ==
    ASSUME NEW base, NEW layer, DOMAIN base = DOMAIN C!Default, C!Typed(base, DOMAIN C!Default),
           C!Typed(layer, DOMAIN layer)
    PROVE  /\ DOMAIN C!Overlay(base, layer) = DOMAIN C!Default
           /\ C!Typed(C!Overlay(base, layer), DOMAIN C!Default)
           /\ \A f \in DOMAIN C!Default :
                 C!Overlay(base, layer)[f] = IF f \in DOMAIN layer THEN layer[f] ELSE base[f]
BY DEF C!Overlay, C!Typed

\* A process that is given no settings has well-typed layers, too.
LEMMA NoSettingsTyped == C!WellTyped(NoSettings.layers)
BY Zenon DEF NoSettings, Nothing, C!WellTyped, C!Typed, C!FlagFields

\* Loading starts from the defaults.
LEMMA InitConfigInv == C!Init \/ C!InitFrom({NoSettings}) => ConfigInv
<1> SUFFICES ASSUME C!Init \/ C!InitFrom({NoSettings}) PROVE ConfigInv
  OBVIOUS
<1>1. C!WellTyped(layers)
  BY SettingsAssumption, NoSettingsTyped DEF C!Init, C!InitFrom
<1>2. loading = "file" /\ cfg = C!Default /\ built = "none"
  BY DEF C!Init, C!InitFrom
<1> QED BY <1>1, <1>2, DefaultTyped DEF ConfigInv, LayersSoFar, C!LastLayerWins, ServiceBuilt

\* Each step of Load, ResolveSecrets and the constructors keeps it.
LEMMA NextConfigInv == ConfigInv /\ [C!Next]_settings => ConfigInv'
<1> SUFFICES ASSUME ConfigInv, [C!Next]_settings PROVE ConfigInv'
  OBVIOUS
<1>0. DOMAIN cfg = DOMAIN C!Default /\ C!Typed(cfg, DOMAIN C!Default)
  BY DEF ConfigInv, LayersSoFar
<1>1. CASE C!Next /\ C!Exits
  <2>1. loading' = "exit" /\ UNCHANGED <<layers, around, cfg, secrets, built>>
    BY <1>1 DEF C!Exits, C!Goes
  <2>2. loading # "ready"
    BY <1>1 DEF C!Next, C!ReadFile, C!ApplyEnvironment, C!ApplyOverrides, C!ReadManaged, C!ResolveSecrets, C!Configure
  <2> QED BY <2>1, <2>2 DEF ConfigInv, LayersSoFar, C!LastLayerWins, ServiceBuilt
<1>2. CASE C!ReadFile /\ ~C!Exits
  <2>1. loading = "file" /\ loading' = "env" /\ cfg' = C!Overlay(cfg, layers.file.sets)
        /\ UNCHANGED <<layers, around, secrets, built>>
    BY <1>2 DEF C!ReadFile, C!Loads, C!Goes
  <2>2. /\ DOMAIN cfg' = DOMAIN C!Default /\ C!Typed(cfg', DOMAIN C!Default)
        /\ \A f \in DOMAIN C!Default :
              cfg'[f] = IF f \in DOMAIN layers.file.sets THEN layers.file.sets[f] ELSE cfg[f]
    BY <1>0, <2>1, OverlayEffect DEF ConfigInv, C!WellTyped
  <2>3. \A f \in DOMAIN C!Default : cfg'[f] = FromFile(f)'
    BY <2>1, <2>2 DEF ConfigInv, LayersSoFar, FromFile
  <2> QED BY <2>1, <2>2, <2>3 DEF ConfigInv, LayersSoFar, C!LastLayerWins, ServiceBuilt
<1>3. CASE C!ApplyEnvironment /\ ~C!Exits
  <2>1. loading = "env" /\ loading' = "flags" /\ cfg' = C!Overlay(cfg, layers.env.sets)
        /\ UNCHANGED <<layers, around, secrets, built>>
    BY <1>3 DEF C!ApplyEnvironment, C!Loads, C!Goes
  <2>2. /\ DOMAIN cfg' = DOMAIN C!Default /\ C!Typed(cfg', DOMAIN C!Default)
        /\ \A f \in DOMAIN C!Default :
              cfg'[f] = IF f \in DOMAIN layers.env.sets THEN layers.env.sets[f] ELSE cfg[f]
    BY <1>0, <2>1, OverlayEffect DEF ConfigInv, C!WellTyped
  <2>3. \A f \in DOMAIN C!Default : cfg'[f] = FromEnv(f)'
    BY <2>1, <2>2 DEF ConfigInv, LayersSoFar, FromEnv, FromFile
  <2> QED BY <2>1, <2>2, <2>3 DEF ConfigInv, LayersSoFar, C!LastLayerWins, ServiceBuilt
<1>4. CASE C!ApplyOverrides
  <2>1. loading = "flags" /\ loading' = "managed" /\ cfg' = C!Overlay(cfg, layers.flags)
        /\ UNCHANGED <<layers, around, secrets, built>>
    BY <1>4 DEF C!ApplyOverrides, C!Loads, C!Goes
  <2>2. /\ DOMAIN cfg' = DOMAIN C!Default /\ C!Typed(cfg', DOMAIN C!Default)
        /\ \A f \in DOMAIN C!Default :
              cfg'[f] = IF f \in DOMAIN layers.flags THEN layers.flags[f] ELSE cfg[f]
    BY <1>0, <2>1, OverlayEffect DEF ConfigInv, C!WellTyped
  <2>3. \A f \in DOMAIN C!Default : cfg'[f] = FromFlags(f)'
    BY <2>1, <2>2 DEF ConfigInv, LayersSoFar, FromFlags, FromEnv, FromFile
  <2> QED BY <2>1, <2>2, <2>3 DEF ConfigInv, LayersSoFar, C!LastLayerWins, ServiceBuilt
<1>5. CASE C!ReadManaged /\ ~C!Exits
  <2>1. loading = "managed" /\ loading' = "secrets" /\ UNCHANGED <<layers, around, secrets, built>>
    BY <1>5 DEF C!ReadManaged, C!Loads, C!Goes
  <2>2. /\ layers.managed.status \in {"read", "missing"} /\ C!Validate(cfg')
        /\ cfg' = IF layers.managed.status = "missing" THEN cfg ELSE C!Overlay(cfg, layers.managed.sets)
    BY <1>5 DEF C!ReadManaged, C!Loads, C!Goes, ConfigInv, C!WellTyped
  <2>3. /\ DOMAIN cfg' = DOMAIN C!Default /\ C!Typed(cfg', DOMAIN C!Default)
        /\ \A f \in DOMAIN C!Default :
              cfg'[f] = IF layers.managed.status = "read" /\ f \in DOMAIN layers.managed.sets
                        THEN layers.managed.sets[f] ELSE cfg[f]
    <3>1. CASE layers.managed.status = "missing"
      BY <1>0, <2>2, <3>1
    <3>2. CASE layers.managed.status = "read"
      BY <1>0, <2>2, <3>2, OverlayEffect DEF ConfigInv, C!WellTyped
    <3> QED BY <2>2, <3>1, <3>2
  <2>4. \A f \in DOMAIN C!Default : cfg[f] = FromFlags(f)
    BY <2>1 DEF ConfigInv, LayersSoFar
  <2>5. C!LastLayerWins'
    BY <2>1, <2>3, <2>4 DEF C!LastLayerWins, C!Sets, FromFlags, FromEnv, FromFile
  <2> QED BY <2>1, <2>2, <2>3, <2>5 DEF ConfigInv, LayersSoFar, ServiceBuilt
<1>6. CASE C!ResolveSecrets /\ ~C!Exits
  <2>1. loading = "secrets" /\ loading' = "configure" /\ UNCHANGED <<layers, around, cfg, built>>
    BY <1>6 DEF C!ResolveSecrets, C!Goes
  <2>2. SecretsFound'
    BY <1>6, <2>1 DEF C!ResolveSecrets, C!Goes, SecretsFound, C!AdminSecret, C!ClientSecret, C!UpstreamSecret, C!Looked,
       C!LookupFails, C!LookedUp
  <2> QED BY <2>1, <2>2 DEF ConfigInv, LayersSoFar, C!LastLayerWins, ServiceBuilt
<1>7. CASE C!Configure /\ ~C!Exits
  <2>1. loading = "configure" /\ loading' = "ready" /\ UNCHANGED <<layers, around, cfg, secrets>>
    BY <1>7 DEF C!Configure, C!Goes
  <2>2. SecretsFound'
    BY <2>1 DEF ConfigInv, SecretsFound, C!AdminSecret, C!ClientSecret, C!UpstreamSecret, C!Looked, C!LookupFails, C!LookedUp
  <2>3. cfg.enabled \in {"true", "false"}
    BY <1>0, DefaultTyped DEF C!Typed, C!BoolFields
  <2>4. ServiceBuilt'
    BY <1>7, <2>1, <2>3 DEF C!Configure, C!Goes, C!ClientTLSFails, ConfigInv, ServiceBuilt
  <2> QED BY <2>1, <2>2, <2>4 DEF ConfigInv, LayersSoFar, C!LastLayerWins
<1>8. CASE UNCHANGED settings
  BY <1>8 DEF settings, ConfigInv, LayersSoFar, C!LastLayerWins, SecretsFound, ServiceBuilt, FromFile, FromEnv, FromFlags,
     C!AdminSecret, C!ClientSecret, C!UpstreamSecret, C!Looked, C!LookupFails, C!LookedUp
<1> QED BY <1>1, <1>2, <1>3, <1>4, <1>5, <1>6, <1>7, <1>8 DEF C!Next

\* The part of Validate that a service relies on later.
LEMMA ValidateAccepts ==
    ASSUME NEW c, C!Validate(c)
    PROVE  /\ c.mysqlListen # c.adminListen /\ C!ShutdownDuration(c.shutdown) /\ ~C!LimitProblem(c)
           /\ C!ToLower(c.mode) = "pooled" => ~C!PooledProblem(c)
           /\ c.enabled = "true" => C!BoundedDuration(c.timeout)
<1>1. ~C!UpstreamProblem(c) => C!BoundedDuration(c.timeout)
  BY DEF C!UpstreamProblem
<1> QED BY <1>1 DEF C!Validate

\* What the constructors rely on follows from what Validate accepted.
LEMMA ConfigSound == ConfigInv => SettingsSound
<1> SUFFICES ASSUME ConfigInv PROVE C!LastLayerWins /\ C!LimitsUsable /\ C!NetworkProtected /\ C!SecretsResolved
  BY DEF SettingsSound, C!SettingsSound
<1>1. C!LastLayerWins
  BY DEF ConfigInv, LayersSoFar
<1>2. C!Typed(cfg, DOMAIN C!Default) /\ (loading = "ready" => C!Validate(cfg)) /\ ServiceBuilt
  BY DEF ConfigInv
<1>3. (\A f \in C!IntFields : cfg[f] \in Int) /\ \A f \in C!BoolFields : cfg[f] \in {"true", "false"}
  BY <1>2, DefaultTyped DEF C!Typed
<1>4. C!LimitsUsable
  <2> SUFFICES ASSUME loading = "ready" PROVE C!LimitsUsable
    BY DEF C!LimitsUsable
  <2>1. cfg.upstream \in Int /\ cfg.logical \in Int /\ cfg.queued \in Int
    BY <1>3 DEF C!IntFields
  <2>2. cfg.upstream \in 1..cfg.logical /\ cfg.queued >= 0
    BY <1>2, <2>1, ValidateAccepts DEF C!LimitProblem
  <2>3. C!ShutdownDuration(cfg.shutdown) /\ cfg.mysqlListen # cfg.adminListen
    BY <1>2, ValidateAccepts
  <2>4. built # "none" => C!BoundedDuration(cfg.timeout)
    BY <1>2, ValidateAccepts DEF ServiceBuilt
  <2> QED BY <2>2, <2>3, <2>4 DEF C!LimitsUsable
<1>5. C!NetworkProtected
  <2> SUFFICES ASSUME built = "gateway", ~C!IsLoopbackAddress(cfg.mysqlListen), cfg.insecure # "true"
               PROVE  cfg.clientTLS = "required"
    BY DEF C!NetworkProtected
  <2>1. cfg.insecure = "false"
    BY <1>3 DEF C!BoolFields
  <2>2. ~C!PooledProblem(cfg)
    <3>1. C!ToLower(cfg.mode) = "pooled"
      BY <1>2 DEF ServiceBuilt, C!ToLower
    <3> QED BY <1>2, <3>1, ValidateAccepts DEF ServiceBuilt
  <2>3. C!ToLower(cfg.clientTLS) = "required"
    BY <2>1, <2>2 DEF C!PooledProblem
  <2> QED BY <1>2, <2>3 DEF ServiceBuilt, C!ToLower
<1>6. C!SecretsResolved
  <2> SUFFICES ASSUME built # "none" PROVE C!SecretsResolved
    BY DEF C!SecretsResolved
  <2>1. SecretsFound /\ cfg.enabled = "true" /\ (built = "gateway" => cfg.mode = "pooled")
    BY DEF ConfigInv, ServiceBuilt
  <2>2. C!AdminSecret(cfg) # "refused" /\ C!ClientSecret(cfg) # "refused" /\ C!UpstreamSecret(cfg) # "refused"
    BY <2>1 DEF SecretsFound
  <2>3. around.upstream # "unreadable"
    BY <2>1, <2>2 DEF SecretsFound, C!LookupFails, C!LookedUp
  <2>4. C!UpstreamSecret(cfg) # "set" => cfg.allowEmpty = "true"
    BY <2>1, <2>2 DEF C!UpstreamSecret
  <2>5. built = "gateway" => C!ClientSecret(cfg) = "long"
    BY <2>1, <2>2 DEF C!ClientSecret, C!ToLower
  <2> QED BY <2>1, <2>3, <2>4, <2>5 DEF SecretsFound, C!SecretsResolved
<1> QED BY <1>1, <1>4, <1>5, <1>6

-----------------------------------------------------------------------------
(* The process.                                                            *)

\* Each part of the process keeps its invariant, whichever part the behaviour follows.
ProcessInv == AppInv /\ ListenerInv /\ RelayInv /\ ConfigInv

\* The parts start in order.
LEMMA InitProcess == ProcessInit => ProcessInv
<1> SUFFICES ASSUME ProcessInit PROVE ProcessInv
  OBVIOUS
<1>1. Init /\ ServicesInit /\ (C!Init \/ C!InitFrom({NoSettings}))
  BY DEF ProcessInit
<1> QED BY <1>1, InitAppInv, InitListenerInv, InitRelayInv, InitConfigInv DEF ProcessInv, ServicesInit

\* A step of one part leaves the others alone.
LEMMA NextProcess == ProcessInv /\ [ProcessNext]_<<part, vars, settings, servicesVars>> => ProcessInv'
<1> SUFFICES ASSUME ProcessInv, [ProcessNext]_<<part, vars, settings, servicesVars>> PROVE ProcessInv'
  OBVIOUS
<1>1. [Next]_vars
  BY DEF ProcessNext
<1>2. [ServicesNext]_servicesVars
  BY DEF ProcessNext
<1>3. [C!Next]_settings
  BY DEF ProcessNext, Loaded
<1>4. AppInv'
  BY <1>1, NextAppInv DEF ProcessInv
<1>5. ListenerInv' /\ RelayInv'
  BY <1>2, NextServices DEF ProcessInv
<1>6. ConfigInv'
  BY <1>3, NextConfigInv DEF ProcessInv
<1> QED BY <1>4, <1>5, <1>6 DEF ProcessInv

\* In every behaviour of the process the invariants of all parts hold.
THEOREM SpecProcess == ProcessSpec => []ProcessInv
BY InitProcess, NextProcess, PTL DEF ProcessSpec

\* For every combination of layers, secrets and files: the settings in force come
\* from the last layer that sets them, and a service starts only with usable limits,
\* protected or consented, and with its secrets (config.go, app.go:64-120).
THEOREM SettingsSoundHolds == ProcessSpec => []SettingsSound
BY ConfigSound, SpecProcess, PTL DEF ProcessInv

\* The variables of the run and of both services keep their types.
THEOREM ProcessTypesHold == ProcessSpec => []ProcessTypes
<1>1. ProcessInv => ProcessTypes
  BY DEF ProcessInv, AppInv, ListenerInv, RelayInv, ProcessTypes
<1> QED BY <1>1, SpecProcess, PTL
=============================================================================
