------------------------------- MODULE ServerLog -------------------------------
(***************************************************************************)
(* The log in the hands of its two users: main, which creates it in Start,  *)
(* writes to it in Stop and in DeleteMemory and deletes it, and the worker, *)
(* which calls CreateLog once a pass, before it receives, and writes the    *)
(* entries of the datagram it got.  The worker's use of a log that main has *)
(* deleted is the subject of Lifecycle: here it stops with the log.         *)
(***************************************************************************)
EXTENDS Clogger

CONSTANT MaxEntries \* bound of the entries one datagram makes

ASSUME MaxEntriesAssumption == MaxEntries \in Nat

VARIABLES
  main,      \* where main is between two calls of the log
  worker,    \* where the worker is between two calls of the log
  todo,      \* the entries the worker has yet to write for its datagram
  m_bStopped

vars == <<logVars, main, worker, todo, m_bStopped>>

MainAt   == {"create", "thread", "serve", "call", "stop", "end", "delete", "done"}
WorkerAt == {"none", "begin", "test", "receive", "write", "sleep", "done"}

TypeOK ==
  /\ LogTypeOK
  /\ main \in MainAt
  /\ worker \in WorkerAt
  /\ todo \in 0 .. MaxEntries
  /\ m_bStopped \in BOOLEAN

Init ==
  /\ LogInit
  /\ main = "create"
  /\ worker = "none"
  /\ todo = 0
  /\ m_bStopped = TRUE

MainStep(from, to) ==
  /\ main = from /\ at["main"] = "out"
  /\ main' = to
  /\ UNCHANGED todo

StartLog == MainStep("create", "thread") /\ CreateLog("main") /\ UNCHANGED <<worker, m_bStopped>>

\* m_bStopped may be cleared after the worker has read it: Lifecycle.
StartThread ==
  /\ MainStep("thread", "serve")
  /\ worker' = "begin"
  /\ m_bStopped' = FALSE
  /\ UNCHANGED logVars

\* Without a thread Start says so, and the server is deleted.
StartThreadFails == MainStep("thread", "end") /\ WriteLog("main") /\ UNCHANGED <<worker, m_bStopped>>

\* (mutant: the signal is logged before Stop is)
StopCalled_Logged == MainStep("serve", "call") /\ WriteLog("main") /\ UNCHANGED <<worker, m_bStopped>>

\* A signal makes main call Stop.
StopCalled == MainStep("serve", "call") /\ UNCHANGED <<logVars, worker, m_bStopped>>

StopBegins == MainStep("call", "stop") /\ WriteLog("main") /\ UNCHANGED <<worker, m_bStopped>>

SetStopped ==
  /\ MainStep("stop", "end")
  /\ m_bStopped' = TRUE
  /\ UNCHANGED <<logVars, worker>>

WriteEnd == MainStep("end", "delete") /\ WriteLog("main") /\ UNCHANGED <<worker, m_bStopped>>

DeleteMemory == MainStep("delete", "done") /\ DeleteLog /\ UNCHANGED <<worker, m_bStopped>>

MainInLogger == InLogger("main") /\ UNCHANGED <<main, worker, todo, m_bStopped>>

Main ==
  \/ StartLog \/ StartThread \/ StartThreadFails \/ StopCalled \/ StopBegins \/ SetStopped
  \/ WriteEnd \/ DeleteMemory \/ MainInLogger

-------------------------------------------------------------------------------
WorkerStep(from, to) ==
  /\ main # "done"
  /\ worker = from /\ at["worker"] = "out"
  /\ worker' = to
  /\ UNCHANGED <<main, m_bStopped>>

RunBegins == WorkerStep("begin", "test") /\ WriteLog("worker") /\ UNCHANGED todo

LeaveLoop == m_bStopped /\ WorkerStep("test", "done") /\ UNCHANGED <<logVars, todo>>

Rotate == ~ m_bStopped /\ WorkerStep("test", "receive") /\ CreateLog("worker") /\ UNCHANGED todo

\* However long it takes: nothing makes a datagram come.
Receive ==
  /\ WorkerStep("receive", "write")
  /\ todo' \in 0 .. MaxEntries
  /\ UNCHANGED logVars

\* recvfrom returns -1: the pass ends without an entry and without the pause.
ReceiveFails == WorkerStep("receive", "test") /\ UNCHANGED <<logVars, todo>>

WriteEntry ==
  /\ todo > 0
  /\ WorkerStep("write", "write")
  /\ WriteLog("worker")
  /\ todo' = todo - 1

Processed == todo = 0 /\ WorkerStep("write", "sleep") /\ UNCHANGED <<logVars, todo>>

Sleep == WorkerStep("sleep", "test") /\ UNCHANGED <<logVars, todo>>

WorkerInLogger ==
  /\ main # "done"
  /\ InLogger("worker")
  /\ UNCHANGED <<main, worker, todo, m_bStopped>>

Working ==
  \/ RunBegins \/ LeaveLoop \/ Rotate \/ WriteEntry \/ Processed \/ Sleep \/ WorkerInLogger

-------------------------------------------------------------------------------
TimePasses == Tick /\ UNCHANGED <<main, worker, todo, m_bStopped>>

Exited == main = "done" /\ UNCHANGED vars

Next == Main \/ Working \/ Receive \/ ReceiveFails \/ TimePasses \/ Exited

\* Main and the worker are scheduled, but the call of Stop is a signal's, which
\* need not come.  The worker leaves the lock alone for 100 ms in every pass and
\* while it waits for a datagram, so that main gets it in the end.
Spec ==
  /\ Init /\ [][Next]_vars
  /\ WF_vars(Main /\ main # "serve") /\ WF_vars(MainInLogger)
  /\ SF_vars(StopBegins) /\ SF_vars(WriteEnd)
  /\ WF_vars(Working)

-------------------------------------------------------------------------------
(* Properties. *)

\* There is one file at a time, that of the hour CreateLog recorded last, but for
\* the time a rotation takes: none is left open and none is closed twice.
OneFileOpen ==
  /\ handles = IF m_fp = NULL THEN 0 ELSE 1
  /\ m_fp \notin {NULL, m_nHour} => \E t \in Thread : at[t] = "close"

\* An entry goes to a file that is open, and nothing its file is named after was read
\* later than the hour the entry shows: not when a rotation comes between its stamp and
\* its writing, and not when the other thread's conversion runs into its own.
\* (Earlier than the entry the file may be: it is changed before recvfrom only.)
NoEarlyEntry == \A l \in lines : l.file # NULL /\ \A f \in Field : l.file[f] <= l.stamp

\* No field of the recorded date and hour is ever replaced by one that was read earlier,
\* though CreateLog copies them from an object that WriteLog in the other thread
\* overwrites meanwhile.  (The fields may come from two readings: a pass that copies
\* the new hour and then the old day, at midnight, while Stop writes its entry, records
\* an hour that is long past, or one that is yet to come, until the next pass.)
HourNeverGoesBack == [][m_nHour # NULL => \A f \in Field : m_nHour'[f] >= m_nHour[f]]_vars

\* Until Stop writes its entry, what is recorded is one hour that the clock has shown,
\* so that until then it is the hour itself that never goes back.
OneHourWhileServing ==
  m_nHour # NULL /\ main \in {"create", "thread", "serve", "call"} =>
    \E h \in Hour : \A f \in Field : m_nHour[f] = h

\* While the last file could be opened no entry is dropped, not even one written
\* while the other thread changes the file.
LostOnlyAfterFailure == LoggingEnabled /\ lost => failed

\* Every call of the log returns, unless the log is deleted under it.
CallsReturn == \A t \in Thread : at[t] # "out" ~> at[t] = "out" \/ main = "done"

\* The process is not kept from ending by the log once Stop is called.
StopReturns == main \in {"call", "stop", "end", "delete"} ~> main = "done"

\* A pass that begins in the last hour changes over to its file before it waits
\* for the next datagram, unless the server stops.
PicksUpHour ==
  LoggingEnabled /\ clock = MaxHour /\ worker = "sleep"
    ~> \/ m_nHour # NULL /\ \A f \in Field : Calendar[m_nHour[f]][f] = Calendar[MaxHour][f]
       \/ main \notin {"serve", "call", "stop"}
===============================================================================
