---------------------------- MODULE LifecycleProofs ----------------------------
(***************************************************************************)
(* That main releases everything once and on every path, and that until     *)
(* then the worker finds what it uses.  The properties speak of a few        *)
(* program points; the invariant says at each one what exists.               *)
(***************************************************************************)
EXTENDS Lifecycle, TLAPS

\* Where main may be while the thread that Start created runs and nothing is deleted.
Serving == {"setStarted", "clearStopped", "loop", "setStopped", "sleep"}

\* main's pointer is set exactly while there is a server.
ServerIsHeld ==
  /\ mSipServer <=> server = "live"
  /\ server = "none" <=> main = "new"
  /\ main \in Serving \cup {"log", "thread", "deleteSocket", "deleteLog", "free"} => server = "live"
  /\ main \in {"return", "exited"} => server = "freed"

\* The socket is there from the constructor on and the log from Start on, each until it
\* is deleted.
PartsExist ==
  /\ m_pUDPSocket = "null" <=> server # "live" \/ main \in {"deleteLog", "free"}
  /\ m_pDailyLog = "null" <=> server # "live" \/ main \in {"log", "free"}

\* There is a worker exactly if Thread::start succeeded, and its handle is given up with
\* the server.
WorkerIsStarted ==
  /\ m_started <=> worker # "none"
  /\ main \in {"new", "log", "thread"} => ~ m_started
  /\ main \in Serving => m_started
  /\ main = "cleanup" => (m_started <=> server = "live")
  /\ handle = "joinable" => m_started /\ server = "live"
  /\ worker = "crashed" => main \in {"deleteLog", "free", "return", "exited"}

Inv == TypeOK /\ ServerIsHeld /\ PartsExist /\ WorkerIsStarted

-------------------------------------------------------------------------------
LEMMA InitInv == Init => Inv
BY DEF Init, Inv, TypeOK, ServerIsHeld, PartsExist, WorkerIsStarted, Serving, Socket,
       MainAt, WorkerAt

\* What main's steps change.
LEMMA MainKeepsInv ==
  ASSUME Inv, Main
  PROVE  Inv'
<1> USE DEF Inv, ServerIsHeld, PartsExist, WorkerIsStarted, Serving, MainStep,
            flagVars, objectVars, threadVars
<1>1. CASE NewServer
  BY <1>1 DEF NewServer, TypeOK, Socket, MainAt
<1>2. CASE StartLog
  BY <1>2 DEF StartLog, TypeOK, Socket, MainAt
<1>3. CASE StartThread
  BY <1>3 DEF StartThread, TypeOK, Socket, MainAt, WorkerAt
<1>4. CASE StartThreadFails
  BY <1>4 DEF StartThreadFails, TypeOK, MainAt
<1>5. CASE SetStarted
  BY <1>5 DEF SetStarted, TypeOK, MainAt
<1>6. CASE ClearStopped
  BY <1>6 DEF ClearStopped, TypeOK, MainAt
<1>7. CASE LeaveLoop
  BY <1>7 DEF LeaveLoop, TypeOK, MainAt
<1>8. CASE Cleanup
  BY <1>8 DEF Cleanup, TypeOK, MainAt
<1>9. CASE SetStopped
  BY <1>9 DEF SetStopped, TypeOK, MainAt
<1>10. CASE StopSleeps
  BY <1>10 DEF StopSleeps, TypeOK, MainAt
<1>11. CASE DeleteSocket
  BY <1>11 DEF DeleteSocket, TypeOK, Socket, MainAt
<1>12. CASE DeleteLog
  BY <1>12 DEF DeleteLog, TypeOK, MainAt
<1>13. CASE FreeServer
  BY <1>13 DEF FreeServer, TypeOK, MainAt
<1>14. CASE Return
  BY <1>14 DEF Return, TypeOK, MainAt
<1> QED
  BY <1>1, <1>2, <1>3, <1>4, <1>5, <1>6, <1>7, <1>8, <1>9, <1>10, <1>11, <1>12, <1>13,
     <1>14 DEF Main

\* A step of the worker that is no crash moves the worker and nothing else.
LEMMA WorkerStepKeepsInv ==
  ASSUME Inv, NEW from \in WorkerAt \ {"none"}, NEW to \in WorkerAt \ {"none", "crashed"},
         WorkerStep(from, to), fd' \in Socket \cup {"null"}
  PROVE  Inv'
BY DEF WorkerStep, Inv, TypeOK, ServerIsHeld, PartsExist, WorkerIsStarted,
       flagVars, objectVars, threadVars

LEMMA WorkerKeepsInv ==
  ASSUME Inv, Working \/ Receive
  PROVE  Inv'
<1>1. fd \in Socket \cup {"null"} /\ m_pUDPSocket \in Socket \cup {"null"}
  BY DEF Inv, TypeOK
<1>2. CASE Begin \/ TestStopped \/ CreateLog \/ ProcessDatagram \/ Sleep \/ Receive
  BY <1>1, <1>2, WorkerStepKeepsInv
     DEF Begin, TestStopped, CreateLog, ProcessDatagram, Sleep, Receive, WorkerAt
<1>3. CASE CallReceive \/ ReceiveFails
  BY <1>1, <1>3, WorkerStepKeepsInv DEF CallReceive, ReceiveFails, WorkerAt
<1>4. CASE Crash
  <2>1. main \in {"deleteLog", "free", "return"} /\ worker # "none"
    BY <1>4 DEF Crash, UsesDeleted, Inv, TypeOK, ServerIsHeld, PartsExist,
                WorkerIsStarted, MainAt, Serving
  <2> QED
    BY <1>4, <2>1 DEF Crash, Inv, TypeOK, ServerIsHeld, PartsExist, WorkerIsStarted,
                      WorkerAt, flagVars, objectVars, threadVars
<1> QED
  BY <1>2, <1>3, <1>4 DEF Working

\* A signal clears `started' and may wake the worker.
LEMMA SignalKeepsInv ==
  ASSUME Inv, Signal
  PROVE  Inv'
BY DEF Signal, Inv, TypeOK, ServerIsHeld, PartsExist, WorkerIsStarted, WorkerAt,
       flagVars, objectVars, threadVars

LEMMA StepKeepsInv == Inv /\ [Next]_vars => Inv'
<1> SUFFICES ASSUME Inv, [Next]_vars PROVE Inv'
  OBVIOUS
<1>1. CASE UNCHANGED vars
  BY <1>1 DEF Inv, TypeOK, ServerIsHeld, PartsExist, WorkerIsStarted, vars, flagVars,
              objectVars, threadVars
<1> QED
  BY <1>1, MainKeepsInv, WorkerKeepsInv, SignalKeepsInv DEF Next, Exited

LEMMA Invariance == Spec => []Inv
BY InitInv, StepKeepsInv, PTL DEF Spec

-------------------------------------------------------------------------------
(* The properties. *)

\* The program counters, flags and pointers of both threads stay what they may be:
\* no pointer is left dangling where it is null in the code.
THEOREM LifecycleTyping == Spec => []TypeOK
<1>1. Inv => TypeOK
  BY DEF Inv
<1> QED
  BY <1>1, Invariance, PTL

\* Main never stops, deletes or frees a server that is not there.
THEOREM NoDoubleDelete == Spec => []MainUsesLiveServer
<1>1. Inv => MainUsesLiveServer
  BY DEF Inv, MainUsesLiveServer, ServerIsHeld, PartsExist, TypeOK, Serving
<1> QED
  BY <1>1, Invariance, PTL

\* Whatever fails at the start, the worker finds log and socket until main deletes them.
THEOREM WorkerIsSafeWhileServing == Spec => []NoCrashBeforeCleanup
<1>1. Inv => NoCrashBeforeCleanup
  BY DEF Inv, NoCrashBeforeCleanup, WorkerIsStarted
<1> QED
  BY <1>1, Invariance, PTL

\* The process ends with nothing of main's left, after a failed start as after Stop.
THEOREM EverythingIsReleased == Spec => []ReleasedAtExit
<1>1. Inv => ReleasedAtExit
  BY DEF Inv, ReleasedAtExit, ServerIsHeld, PartsExist, WorkerIsStarted
<1> QED
  BY <1>1, Invariance, PTL
===============================================================================
