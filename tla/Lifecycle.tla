------------------------------- MODULE Lifecycle -------------------------------
(***************************************************************************)
(* The process: main() and its signal handler, SIPServer::Start, Stop and   *)
(* the destructor on the main thread, and SIPServer::run on the worker.     *)
(*                                                                         *)
(* The two threads share the SIPServer object without a lock: the plain     *)
(* bool m_bStopped and the pointers m_pUDPSocket and m_pDailyLog.  One      *)
(* action is one access to shared state; m_bStopped is re-read in memory on *)
(* every pass, the build being -g without optimisation.  What the worker    *)
(* does with a datagram is the subject of SIPServer.                        *)
(***************************************************************************)
CONSTANT SleepSuffices \* do the 200 ms in Stop let every worker that is not blocked finish

ASSUME SleepSufficesAssumption == SleepSuffices \in BOOLEAN

VARIABLES
  started,      \* main.cpp: cleared by the signal handler
  mSipServer,   \* main.cpp: is the pointer set
  server,       \* the SIPServer object: "none", "live", "freed"
  m_pUDPSocket, \* "null", or what its socket is: "failed", "unbound", "bound"
  m_pDailyLog,  \* "null" or "live"
  m_bStopped, m_bStarted,
  main,         \* where the main thread is
  m_started,    \* Thread: does it have a thread
  handle,       \* the pthread: "none", "joinable" or "detached"
  worker,       \* where the worker thread is
  fd            \* the socket the worker's recvfrom waits on

flagVars   == <<m_bStopped, m_bStarted>>
objectVars == <<mSipServer, server, m_pUDPSocket, m_pDailyLog>>
threadVars == <<m_started, handle>>
vars == <<started, objectVars, flagVars, threadVars, main, worker, fd>>

Socket == {"failed", "unbound", "bound"}

MainAt == {"new", "log", "thread", "setStarted", "clearStopped", "loop", "cleanup",
           "setStopped", "sleep", "deleteSocket", "deleteLog", "free",
           "return", "exited"}
WorkerAt == {"none", "begin", "test", "createLog", "call", "receive", "process",
             "sleep", "done", "crashed"}

TypeOK ==
  /\ {started, mSipServer, m_bStopped, m_bStarted, m_started} \subseteq BOOLEAN
  /\ handle \in {"none", "joinable", "detached"}
  /\ server \in {"none", "live", "freed"}
  /\ m_pUDPSocket \in Socket \cup {"null"}
  /\ m_pDailyLog \in {"null", "live"}
  /\ main \in MainAt
  /\ worker \in WorkerAt
  /\ fd \in Socket \cup {"null"}

Init ==
  /\ started = TRUE
  /\ mSipServer = FALSE
  /\ server = "none"
  /\ m_pUDPSocket = "null"
  /\ m_pDailyLog = "null"
  /\ m_bStopped = TRUE
  /\ m_bStarted = FALSE
  /\ m_started = FALSE
  /\ handle = "none"
  /\ main = "new"
  /\ worker = "none"
  /\ fd = "null"

-------------------------------------------------------------------------------
(* The main thread. *)

MainStep(from, to) == main = from /\ main' = to

\* new SIPServer().  UDPSocket's constructor catches its own "Socket open error",
\* so the object is complete whether or not socket() and bind() worked.
NewServer ==
  /\ MainStep("new", "log")
  /\ mSipServer' = TRUE
  /\ server' = "live"
  /\ m_pUDPSocket' \in Socket
  /\ UNCHANGED <<started, m_pDailyLog, flagVars, threadVars, worker, fd>>

\* (mutant: no Clogger when logging is off)
StartLog_Off ==
  /\ MainStep("log", "thread")
  /\ UNCHANGED <<started, objectVars, flagVars, threadVars, worker, fd>>

StartLog ==
  /\ MainStep("log", "thread")
  /\ m_pDailyLog' = "live"
  /\ UNCHANGED <<started, mSipServer, server, m_pUDPSocket, flagVars, threadVars, worker, fd>>

\* pthread_create: from here on the worker runs.
StartThread ==
  /\ MainStep("thread", "setStarted")
  /\ worker' = "begin"
  /\ m_started' = TRUE
  /\ handle' = "joinable"
  /\ UNCHANGED <<started, objectVars, flagVars, fd>>

\* (mutant: the pointer is cleared but the server is not deleted)
StartThreadFails_Leaks ==
  /\ MainStep("thread", "cleanup")
  /\ mSipServer' = FALSE
  /\ UNCHANGED <<started, server, m_pUDPSocket, m_pDailyLog, flagVars, threadVars, worker, fd>>

\* Start returns kFailure and StartSipProxyService deletes the server.
StartThreadFails ==
  /\ MainStep("thread", "deleteSocket")
  /\ UNCHANGED <<started, objectVars, flagVars, threadVars, worker, fd>>

SetStarted ==
  /\ MainStep("setStarted", "clearStopped")
  /\ m_bStarted' = TRUE
  /\ UNCHANGED <<started, objectVars, threadVars, m_bStopped, worker, fd>>

ClearStopped ==
  /\ MainStep("clearStopped", "loop")
  /\ m_bStopped' = FALSE
  /\ UNCHANGED <<started, objectVars, threadVars, m_bStarted, worker, fd>>

LeaveLoop ==
  /\ MainStep("loop", "cleanup")
  /\ ~ started
  /\ UNCHANGED <<started, objectVars, flagVars, threadVars, worker, fd>>

\* cleanup_and_exit: nothing to do when Start failed, Stop otherwise.
Cleanup ==
  /\ IF mSipServer
     THEN /\ MainStep("cleanup", IF m_bStarted THEN "setStopped" ELSE "deleteSocket")
          /\ m_bStarted' = FALSE
     ELSE MainStep("cleanup", "return") /\ UNCHANGED m_bStarted
  /\ UNCHANGED <<started, objectVars, threadVars, m_bStopped, worker, fd>>

SetStopped ==
  /\ MainStep("setStopped", "sleep")
  /\ m_bStopped' = TRUE
  /\ UNCHANGED <<started, objectVars, threadVars, m_bStarted, worker, fd>>

\* (mutant: Stop joins the worker)
StopSleeps_Joins ==
  /\ MainStep("sleep", "deleteSocket")
  /\ worker = "done"
  /\ UNCHANGED <<started, objectVars, flagVars, threadVars, worker, fd>>

\* Stop does not join the worker, it sleeps.
StopSleeps ==
  /\ MainStep("sleep", "deleteSocket")
  /\ SleepSuffices => worker \in {"receive", "done", "crashed"}
  /\ UNCHANGED <<started, objectVars, flagVars, threadVars, worker, fd>>

\* (mutant: m_pUDPSocket keeps its value after delete)
DeleteSocket_Dangling ==
  /\ MainStep("deleteSocket", "deleteLog")
  /\ m_pUDPSocket' = "dangling"
  /\ UNCHANGED <<started, mSipServer, server, m_pDailyLog, flagVars, threadVars, worker, fd>>

\* DeleteMemory, then the rest of the destructor and the object's memory.  After a
\* failed start main goes on to cleanup_and_exit.
DeleteSocket ==
  /\ MainStep("deleteSocket", "deleteLog")
  /\ m_pUDPSocket' = "null"
  /\ UNCHANGED <<started, mSipServer, server, m_pDailyLog, flagVars, threadVars, worker, fd>>

DeleteLog ==
  /\ MainStep("deleteLog", "free")
  /\ m_pDailyLog' = "null"
  /\ UNCHANGED <<started, mSipServer, server, m_pUDPSocket, flagVars, threadVars, worker, fd>>

\* (mutant: mSipServer keeps its value after delete)
FreeServer_Dangling ==
  /\ MainStep("free", IF worker = "none" THEN "cleanup" ELSE "return")
  /\ server' = "freed"
  /\ UNCHANGED <<started, mSipServer, m_pUDPSocket, m_pDailyLog, flagVars, threadVars, worker, fd>>

\* ~Thread detaches the thread that nobody has joined.
FreeServer ==
  /\ MainStep("free", IF worker = "none" THEN "cleanup" ELSE "return")
  /\ server' = "freed"
  /\ mSipServer' = FALSE
  /\ handle' = IF m_started THEN "detached" ELSE handle
  /\ UNCHANGED <<started, m_pUDPSocket, m_pDailyLog, flagVars, m_started, worker, fd>>

\* Returning from main ends the process and every thread in it.
Return ==
  /\ MainStep("return", "exited")
  /\ UNCHANGED <<started, objectVars, flagVars, threadVars, worker, fd>>

Main ==
  \/ NewServer \/ StartLog \/ StartThread \/ StartThreadFails \/ SetStarted
  \/ ClearStopped \/ LeaveLoop \/ Cleanup \/ SetStopped \/ StopSleeps
  \/ DeleteSocket \/ DeleteLog \/ FreeServer \/ Return

-------------------------------------------------------------------------------
(* The worker thread. *)

WorkerStep(from, to) ==
  /\ main # "exited"
  /\ worker = from
  /\ worker' = to
  /\ UNCHANGED <<started, objectVars, flagVars, threadVars, main>>

Begin == WorkerStep("begin", "test") /\ UNCHANGED fd

\* In freed memory m_bStopped may read as anything.
TestStopped ==
  /\ \/ (m_bStopped \/ server = "freed") /\ WorkerStep("test", "done")
     \/ (~ m_bStopped \/ server = "freed") /\ WorkerStep("test", "createLog")
  /\ UNCHANGED fd

CreateLog == WorkerStep("createLog", "call") /\ UNCHANGED fd

CallReceive == WorkerStep("call", "receive") /\ fd' = m_pUDPSocket

\* A datagram, or an empty one; close() in another thread does not wake recvfrom.
Receive ==
  /\ fd = "bound"
  /\ WorkerStep("receive", "process") \/ WorkerStep("receive", "sleep")
  /\ UNCHANGED fd

\* recvfrom on socket -1 (never opened, or closed by main) fails, and the loop goes on without a pause.
ReceiveFails ==
  /\ fd \in {"failed", "null"}
  /\ WorkerStep("receive", "test")
  /\ UNCHANGED fd

ProcessDatagram == WorkerStep("process", "sleep") /\ UNCHANGED fd

Sleep == WorkerStep("sleep", "test") /\ UNCHANGED fd

\* What the worker is about to use and main has deleted: the object itself, or
\* through it the log or the socket.
UsesDeleted ==
  \/ worker \in {"begin", "test", "createLog", "call", "process"} /\ server = "freed"
  \/ worker \in {"begin", "createLog", "process"} /\ m_pDailyLog = "null"
  \/ worker \in {"call", "process"} /\ m_pUDPSocket = "null"

\* Then the worker either goes on, the memory being there still, or it gets SIGSEGV,
\* whose handler only clears `started', so that the faulting instruction runs again
\* and again.
Crash ==
  /\ main # "exited"
  /\ UsesDeleted
  /\ worker' = "crashed"
  /\ started' = FALSE
  /\ UNCHANGED <<objectVars, flagVars, threadVars, main, fd>>

Working ==
  \/ Begin \/ TestStopped \/ CreateLog \/ CallReceive \/ ReceiveFails
  \/ ProcessDatagram \/ Sleep \/ Crash

-------------------------------------------------------------------------------
\* SIGINT, SIGTERM, ... may be delivered to either thread, and one that finds the
\* worker in recvfrom makes it return EINTR.
Signal ==
  /\ main # "exited"
  /\ started' = FALSE
  /\ worker' \in IF worker = "receive" THEN {"receive", "test"} ELSE {worker}
  /\ UNCHANGED <<objectVars, flagVars, threadVars, main, fd>>

Exited == main = "exited" /\ UNCHANGED vars

Next == Main \/ Working \/ Receive \/ Signal \/ Exited

\* Both threads are scheduled; nothing forces a datagram or a signal to come.
Spec == Init /\ [][Next]_vars /\ WF_vars(Main) /\ WF_vars(Working)

-------------------------------------------------------------------------------
(* Properties. *)

\* Main uses and deletes the server only while it exists: no path through a failed
\* start, Stop and cleanup_and_exit deletes it twice.
MainUsesLiveServer ==
  /\ main \in {"setStopped", "sleep", "deleteSocket", "deleteLog", "free"} => server = "live"
  /\ main = "cleanup" /\ mSipServer => server = "live" /\ m_pDailyLog = "live"

\* Until main cleans up, the worker finds the log and the socket it uses.
NoCrashBeforeCleanup ==
  worker = "crashed" => main \in {"deleteLog", "free", "return", "exited"}

\* When the process ends, on any path, main has released what it allocated, the
\* thread included.
ReleasedAtExit ==
  main = "exited" =>
    /\ ~ mSipServer /\ server = "freed" /\ m_pUDPSocket = "null" /\ m_pDailyLog = "null"
    /\ handle # "joinable"

\* A signal ends the process, also when the worker is blocked in recvfrom for good.
ExitsOnSignal == ~ started ~> main = "exited"

\* Once main is in its loop the proxy serves: the worker has not ended.
\* (README.md, "Start Your Server ... Now Flow is: UAC -> YOU -> UAS".)
ServesOnceStarted == main = "loop" => worker # "done"

\* main gets to its loop only with a socket that can receive.
\* (main.cpp, "Cleanup and exit if initialization fails".)
InitializedOrExited == main = "loop" => m_pUDPSocket = "bound"

\* Termination is graceful: the worker never uses what main has deleted.
\* (main.cpp, "handle termination and critical errors gracefully".)
NoUseAfterDelete == worker # "crashed"
===============================================================================
