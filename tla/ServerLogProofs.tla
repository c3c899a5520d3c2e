---------------------------- MODULE ServerLogProofs ----------------------------
(***************************************************************************)
(* The safety properties of the log for any number of hours and entries,    *)
(* any fields of struct tm and any calendar, with or without logging.       *)
(*                                                                         *)
(* The argument: only one thread is ever in CreateLog, main until it has    *)
(* started the worker and the worker from then on.  The file is changed     *)
(* under the lock, so that an entry on its way to a file was stamped after  *)
(* the file's hour was recorded; and a field is recorded only when nothing   *)
(* that was read before the last one is still on its way into the static    *)
(* result of localtime, as whoever holds such a reading holds the lock and   *)
(* keeps the rotation waiting.  All of this is said field by field, since    *)
(* both threads write and copy the static result that way; it is one hour   *)
(* that is recorded as long as only one of them is in the log.              *)
(***************************************************************************)
EXTENDS ServerLog, TLAPS

\* Where a thread is in CreateLog, from its reading of the clock to its record of it.
ReadsHour == {"convertHour", "copyHour", "record"}
\* Where it is in WriteLog, behind the lock.
WritesEntry == {"convert", "copy", "append"}
Rotation == ReadsHour \cup {"close", "open", "opened"}
\* Where a thread holds the lock.
Locked == WritesEntry \cup {"open"}

\* Thread t has written, or copied, field f in the call it is in.
Converted(t, f) ==
  \/ at[t] \in {"convertHour", "convert"} /\ f \notin left[t]
  \/ at[t] \in {"copyHour", "copy"}
Copied(t, f) ==
  \/ at[t] \in {"copyHour", "copy"} /\ f \notin left[t]
  \/ at[t] \in {"record", "append"}

\* Main rotates before there is a worker, and is not in the log while it waits.
MainRotatesFirst ==
  /\ at["main"] \in Rotation => main = "thread"
  /\ main \in {"create", "thread"} => worker = "none" /\ at["worker"] = "out"
  /\ main \in {"create", "serve", "call", "done"} => at["main"] = "out"

OneRotates ==
  \A t, u \in Thread : at[t] \in Rotation /\ at[u] \in Rotation => t = u

LockHeld == \A t \in Thread : m_lock = t <=> at[t] \in Locked

\* Every conversion and every copy starts with all the fields to do.
AllLeft ==
  \A t \in Thread : at[t] \notin {"convertHour", "copyHour", "convert", "copy"} => left[t] = Field

\* Nothing was read later than the clock.
PastTimes ==
  /\ \A t \in Thread : now[t] # NULL => now[t] <= clock
  /\ \A f \in Field : tm[f] # NULL => tm[f] <= clock
  /\ \A t \in Thread, f \in Field : local_tm[t][f] # NULL => local_tm[t][f] <= clock
  /\ m_nHour # NULL => \A f \in Field : m_nHour[f] <= clock
  /\ m_fp # NULL => \A f \in Field : m_fp[f] <= clock

\* What is about to be used is there.
Present ==
  \A t \in Thread :
    /\ at[t] \in ReadsHour \cup WritesEntry => now[t] # NULL
    /\ \A f \in Field : /\ Converted(t, f) => tm[f] # NULL
                        /\ Copied(t, f) => local_tm[t][f] # NULL
    /\ at[t] \in {"close", "open", "opened"} => m_nHour # NULL
    /\ at[t] = "open" => m_fp = NULL
    /\ at[t] \in WritesEntry => m_fp # NULL \/ main = "done"

\* What a call has read is not older than anything the file that is open is named after.
FreshForFile ==
  m_fp # NULL =>
    \A t \in Thread, f, g \in Field :
      /\ at[t] \in ReadsHour \cup WritesEntry => m_fp[g] <= now[t]
      /\ at[t] \in WritesEntry /\ Converted(t, f) => m_fp[g] <= tm[f]
      /\ at[t] \in WritesEntry /\ Copied(t, f) => m_fp[g] <= local_tm[t][f]

\* Nor than the field of the recorded hour that it may replace, in CreateLog itself or by
\* way of the static result.
FreshForRecord ==
  m_nHour # NULL =>
    \A t \in Thread, f \in Field :
      /\ at[t] \in ReadsHour => m_nHour[f] <= now[t]
      /\ at[t] \in ReadsHour /\ Converted(t, f) => m_nHour[f] <= tm[f]
      /\ at[t] \in ReadsHour /\ Copied(t, f) => m_nHour[f] <= local_tm[t][f]
      /\ at[t] \in WritesEntry => m_nHour[f] <= now[t] \/ \E u \in Thread : at[u] = "close"

LogInv ==
  /\ LogTypeOK /\ OneFileOpen /\ NoEarlyEntry
  /\ LockHeld /\ AllLeft /\ PastTimes /\ Present /\ FreshForFile /\ FreshForRecord

\* No hour is recorded before the log is created.
NoHourYet == main = "create" => m_nHour = NULL

\* Without a file and without a failure the file is being changed, or not yet made.
FileIsThere ==
  LoggingEnabled /\ m_fp = NULL /\ main \notin {"create", "done"} =>
    \/ failed
    \/ \E t \in Thread : at[t] = "open"
    \/ at["main"] = "close"
    \/ at["main"] \in ReadsHour /\ m_nHour = NULL

\* Until Stop writes its entry nobody else writes or copies the static result of a call.
Serving == {"create", "thread", "serve", "call"}

OwnReading ==
  main \in Serving =>
    \A t \in Thread, f \in Field :
      /\ Converted(t, f) => tm[f] = now[t]
      /\ Copied(t, f) => local_tm[t][f] = now[t]

ControlTypeOK ==
  /\ main \in MainAt
  /\ worker \in WorkerAt
  /\ todo \in 0 .. MaxEntries
  /\ m_bStopped \in BOOLEAN

Inv ==
  /\ ControlTypeOK /\ MainRotatesFirst /\ LogInv
  /\ NoHourYet /\ FileIsThere /\ LostOnlyAfterFailure
  /\ OwnReading /\ OneHourWhileServing

-------------------------------------------------------------------------------
\* A step of the log by thread t, which is not deleted yet.
LogStep(t) ==
  \/ CreateLog(t) \/ localtime(t) \/ CopyResult(t) \/ RecordHour(t) \/ CloseOldLog(t)
  \/ CreateHourLog(t) \/ WriteLog(t) \/ Append(t)

\* Whoever is in the log is there for the last of its calls.
LEMMA InLoggerIsInside ==
  ASSUME NEW t \in Thread, InLogger(t)
  PROVE  at[t] # "out" /\ LogStep(t)
BY DEF InLogger, LogStep, localtime, CopyResult, OneField, RecordHour, CloseOldLog, CreateHourLog,
       Append, Goto

\* What a step of the two threads means to the log.
LEMMA StepCases ==
  ASSUME MainRotatesFirst, LogTypeOK, [Next]_vars
  PROVE  \/ /\ UNCHANGED logVars
            /\ main = "done" <=> main' = "done"
            /\ main = "create" <=> main' = "create"
            /\ main \in Serving \/ main' \notin Serving
         \/ Tick /\ main' = main
         \/ DeleteLog /\ main' = "done"
         \/ \E t \in Thread :
              /\ LogStep(t)
              /\ main # "done" /\ main' # "done" /\ main' # "create"
              /\ main \in Serving \/ main' \notin Serving
              /\ main = "create" => CreateLog(t)
              /\ main \in {"create", "thread"} => t = "main"
              /\ main \in {"serve", "call"} /\ t = "main" => main' \notin Serving
<1> USE DEF Serving
<1>1. CASE UNCHANGED vars
  BY <1>1 DEF vars
<1>2. CASE Main
  <2>1. CASE StartLog \/ StartThreadFails \/ StopBegins \/ WriteEnd
    BY <2>1 DEF StartLog, StartThreadFails, StopBegins, WriteEnd, MainStep, LogStep, Thread
  <2>2. CASE StartThread \/ StopCalled \/ SetStopped
    BY <2>2 DEF StartThread, StopCalled, SetStopped, MainStep
  <2>3. CASE DeleteMemory
    BY <2>3 DEF DeleteMemory, MainStep
  <2>4. CASE MainInLogger
    <3>1. LogStep("main") /\ at["main"] # "out" /\ main' = main
      BY <2>4, InLoggerIsInside DEF MainInLogger, Thread
    <3>2. main \notin {"create", "serve", "call", "done"}
      BY <3>1 DEF MainRotatesFirst
    <3> QED
      BY <3>1, <3>2 DEF Thread
  <2> QED
    BY <1>2, <2>1, <2>2, <2>3, <2>4 DEF Main
<1>3. CASE Working
  <2>1. CASE RunBegins \/ Rotate \/ WriteEntry
    BY <2>1 DEF RunBegins, Rotate, WriteEntry, WorkerStep, LogStep, Thread, MainRotatesFirst
  <2>2. CASE LeaveLoop \/ Processed \/ Sleep
    BY <2>2 DEF LeaveLoop, Processed, Sleep, WorkerStep
  <2>3. CASE WorkerInLogger
    <3>1. LogStep("worker") /\ at["worker"] # "out" /\ main # "done" /\ main' = main
      BY <2>3, InLoggerIsInside DEF WorkerInLogger, Thread
    <3>2. main \notin {"create", "thread"}
      BY <3>1 DEF MainRotatesFirst
    <3> QED
      BY <3>1, <3>2 DEF Thread
  <2> QED
    BY <1>3, <2>1, <2>2, <2>3 DEF Working
<1>4. CASE Receive \/ ReceiveFails
  BY <1>4 DEF Receive, ReceiveFails, WorkerStep
<1>5. CASE TimePasses
  BY <1>5 DEF TimePasses
<1>6. CASE Exited
  BY <1>6 DEF Exited, vars
<1> QED
  BY <1>1, <1>2, <1>3, <1>4, <1>5, <1>6 DEF Next
-------------------------------------------------------------------------------
(* Control. *)

LEMMA MainRotatesAlone == MainRotatesFirst => OneRotates
BY DEF MainRotatesFirst, OneRotates, Thread, Rotation, ReadsHour

\* Dealing with one field: where it leaves thread t and what is then done.
LEMMA OneFieldMoves ==
  ASSUME LogTypeOK, NEW t \in Thread, NEW f \in Field, NEW a \in At, NEW b \in At, a # b,
         OneField(t, f, a, b)
  PROVE  /\ at[t] = a /\ at' \in [Thread -> At] /\ left' \in [Thread -> SUBSET Field]
         /\ \A u \in Thread \ {t} : at'[u] = at[u] /\ left'[u] = left[u]
         /\ \/ at'[t] = a /\ left'[t] = left[t] \ {f}
            \/ at'[t] = b /\ left[t] = {f} /\ left'[t] = Field
<1>1. at[t] = a /\ at \in [Thread -> At] /\ left \in [Thread -> SUBSET Field]
  BY DEF OneField, LogTypeOK
<1>2. CASE left[t] = {f}
  <2>1. at' = [at EXCEPT ![t] = b] /\ left' = [left EXCEPT ![t] = Field]
    BY <1>2 DEF OneField
  <2> QED
    BY <1>1, <1>2, <2>1
<1>3. CASE left[t] # {f}
  <2>1. at' = at /\ left' = [left EXCEPT ![t] = left[t] \ {f}]
    BY <1>3 DEF OneField
  <2>2. left[t] \ {f} \in SUBSET Field
    BY <1>1
  <2> QED
    BY <1>1, <2>1, <2>2
<1> QED
  BY <1>2, <1>3

\* Where the two steps that deal with a field take thread t from and to.
LEMMA FieldStepMoves ==
  ASSUME LogTypeOK, NEW t \in Thread, localtime(t) \/ CopyResult(t)
  PROVE  /\ at' \in [Thread -> At] /\ at[t] # "out"
         /\ \A u \in Thread \ {t} : at'[u] = at[u]
         /\ \/ at[t] \in ReadsHour /\ at'[t] \in ReadsHour
            \/ at[t] \in WritesEntry /\ at'[t] \in WritesEntry
<1> USE DEF At, ReadsHour, WritesEntry
<1>1. CASE localtime(t)
  <2>1. PICK f \in Field : \/ OneField(t, f, "convertHour", "copyHour")
                           \/ OneField(t, f, "convert", "copy")
    BY <1>1 DEF localtime
  <2> QED
    BY <2>1, OneFieldMoves
<1>2. CASE CopyResult(t)
  <2>1. PICK f \in Field : \/ OneField(t, f, "copyHour", "record")
                           \/ OneField(t, f, "copy", "append")
    BY <1>2 DEF CopyResult
  <2> QED
    BY <2>1, OneFieldMoves
<1> QED
  BY <1>1, <1>2

LEMMA InLoggerMoves ==
  ASSUME LogTypeOK, NEW t \in Thread, InLogger(t)
  PROVE  /\ at' \in [Thread -> At] /\ at[t] # "out"
         /\ \A u \in Thread \ {t} : at'[u] = at[u]
         /\ at'[t] \in Rotation => at[t] \in Rotation
<1> USE DEF Rotation, ReadsHour, WritesEntry
<1>1. CASE localtime(t) \/ CopyResult(t)
  BY <1>1, FieldStepMoves
<1>2. CASE ~ (localtime(t) \/ CopyResult(t))
  BY <1>2 DEF InLogger, RecordHour, CloseOldLog, CreateHourLog, WriteLog, Append, CanCall, Goto,
              LogTypeOK, At
<1> QED
  BY <1>1, <1>2

LEMMA WriteLogMoves ==
  ASSUME LogTypeOK, NEW t \in Thread, WriteLog(t)
  PROVE  /\ at' \in [Thread -> At] /\ at'[t] \notin Rotation
         /\ \A u \in Thread \ {t} : at'[u] = at[u]
BY DEF WriteLog, LogTypeOK, At, Rotation, ReadsHour

LEMMA CreateLogMoves ==
  ASSUME LogTypeOK, NEW t \in Thread, CreateLog(t)
  PROVE  \A u \in Thread \ {t} : at'[u] = at[u]
BY DEF CreateLog, Goto, LogTypeOK

\* The program counters of both threads.
LEMMA ControlStep ==
  ASSUME ControlTypeOK, MainRotatesFirst, LogTypeOK, [Next]_vars
  PROVE  ControlTypeOK' /\ MainRotatesFirst'
<1> USE DEF ControlTypeOK, MainRotatesFirst, MainAt, WorkerAt, logVars
<1>t. "main" \in Thread /\ "worker" \in Thread /\ "main" # "worker" /\ MaxEntries \in Nat
  BY MaxEntriesAssumption DEF Thread
<1>1. CASE UNCHANGED vars
  BY <1>1 DEF vars
<1>2. CASE StartLog
  BY <1>2, <1>t, CreateLogMoves DEF StartLog, MainStep
<1>3. CASE StartThread
  BY <1>3, <1>t DEF StartThread, MainStep, Rotation, ReadsHour
<1>4. CASE StartThreadFails
  BY <1>4, <1>t, WriteLogMoves DEF StartThreadFails, MainStep
<1>5. CASE StopBegins
  BY <1>5, <1>t, WriteLogMoves DEF StopBegins, MainStep
<1>6. CASE SetStopped \/ StopCalled
  BY <1>6 DEF SetStopped, StopCalled, MainStep
<1>7. CASE WriteEnd
  BY <1>7, <1>t, WriteLogMoves DEF WriteEnd, MainStep
<1>8. CASE DeleteMemory
  BY <1>8 DEF DeleteMemory, MainStep, DeleteLog
<1>9. CASE MainInLogger
  BY <1>9, <1>t, InLoggerMoves DEF MainInLogger
<1>10. CASE RunBegins
  BY <1>10, <1>t, WriteLogMoves DEF RunBegins, WorkerStep
<1>11. CASE LeaveLoop \/ Processed \/ Sleep \/ Receive \/ ReceiveFails
  BY <1>11 DEF LeaveLoop, Processed, Sleep, Receive, ReceiveFails, WorkerStep
<1>12. CASE Rotate
  BY <1>12, <1>t, CreateLogMoves DEF Rotate, WorkerStep
<1>13. CASE WriteEntry
  BY <1>13, <1>t, WriteLogMoves DEF WriteEntry, WorkerStep
<1>14. CASE WorkerInLogger
  BY <1>14, <1>t, InLoggerMoves DEF WorkerInLogger
<1>15. CASE TimePasses \/ Exited
  BY <1>15 DEF TimePasses, Tick, Exited, vars
<1> QED
  BY <1>1, <1>2, <1>3, <1>4, <1>5, <1>6, <1>7, <1>8, <1>9, <1>10, <1>11, <1>12, <1>13,
     <1>14, <1>15 DEF Next, Main, Working
-------------------------------------------------------------------------------
(* The log. *)

LEMMA Times ==
  Hour \subseteq Nat /\ NULL \notin Hour /\ NULL \notin Thread /\ NULL \notin [Field -> Hour]
BY NULLAssumption, MaxHourAssumption DEF Hour

\* What thread t has written and copied is as it was if t has not moved.
LEMMA SameProgress ==
  ASSUME NEW t \in Thread, at'[t] = at[t], left'[t] = left[t], NEW f \in Field
  PROVE  (Converted(t, f)' <=> Converted(t, f)) /\ (Copied(t, f)' <=> Copied(t, f))
BY DEF Converted, Copied

\* A call starts with nothing written and nothing copied.
LEMMA NoProgress ==
  ASSUME NEW t \in Thread, left'[t] = Field, at'[t] \notin {"copyHour", "copy", "record", "append"},
         NEW f \in Field
  PROVE  ~ Converted(t, f)' /\ ~ Copied(t, f)'
BY DEF Converted, Copied

LEMMA CreateLogKeeps ==
  ASSUME LogInv, NEW t \in Thread, CreateLog(t), main # "done", main' # "done"
  PROVE  LogInv'
<1>1. UNCHANGED <<clock, tm, local_tm, left, m_nHour, m_fp, handles, failed, m_lock, lost, lines>>
  BY DEF CreateLog, ReadClock, timeVars, tmVars, fileVars, linesVars
<1>2. /\ at[t] = "out" /\ at' = [at EXCEPT ![t] = at'[t]] /\ at'[t] \in {"out", "convertHour"}
      /\ at'[t] = "out" => now' = now
      /\ at'[t] = "convertHour" => now' = [now EXCEPT ![t] = clock]
  BY DEF CreateLog, Goto, ReadClock, LogInv, LogTypeOK, timeVars
<1>3. /\ left[t] = Field /\ clock \in Hour
      /\ \A u \in Thread \ {t} : at'[u] = at[u] /\ now'[u] = now[u]
      /\ at'[t] = "convertHour" => now'[t] = clock
  BY <1>2 DEF LogInv, LogTypeOK, AllLeft
<1>4. LogTypeOK'
  <2>1. now' \in [Thread -> Reading] /\ at' \in [Thread -> At]
    BY <1>2 DEF LogInv, LogTypeOK, Reading, At
  <2> QED
    BY <1>1, <2>1 DEF LogInv, LogTypeOK
<1>5. LockHeld' /\ AllLeft' /\ OneFileOpen' /\ NoEarlyEntry'
  BY <1>1, <1>2, <1>3 DEF LogInv, LogTypeOK, LockHeld, Locked, WritesEntry, AllLeft, OneFileOpen,
                         NoEarlyEntry
<1>6. PastTimes'
  BY <1>1, <1>2, <1>3, Times DEF LogInv, PastTimes
<1>7. \A u \in Thread, f \in Field : /\ Converted(u, f)' => u # t /\ Converted(u, f)
                                     /\ Copied(u, f)' => u # t /\ Copied(u, f)
  BY <1>1, <1>2, <1>3, SameProgress, NoProgress
<1>8. Present'
  BY <1>1, <1>2, <1>3, <1>7, Times DEF LogInv, Present, ReadsHour, WritesEntry
<1>9. FreshForFile'
  BY <1>1, <1>2, <1>3, <1>7 DEF LogInv, FreshForFile, PastTimes, ReadsHour, WritesEntry
<1>10. FreshForRecord'
  BY <1>1, <1>2, <1>3, <1>7 DEF LogInv, FreshForRecord, PastTimes, ReadsHour, WritesEntry
<1> QED
  BY <1>4, <1>5, <1>6, <1>8, <1>9, <1>10 DEF LogInv

LEMMA LocaltimeKeeps ==
  ASSUME LogInv, OneRotates, NEW t \in Thread, localtime(t), main # "done", main' # "done"
  PROVE  LogInv'
<1>1. UNCHANGED <<clock, local_tm, now, m_nHour, m_fp, handles, failed, m_lock, lost, lines>>
  BY DEF localtime, fileVars, linesVars
<1>2. PICK f \in Field : /\ \/ OneField(t, f, "convertHour", "copyHour")
                            \/ OneField(t, f, "convert", "copy")
                         /\ tm' = [tm EXCEPT ![f] = now[t]]
  BY DEF localtime
<1>3. /\ at' \in [Thread -> At] /\ left' \in [Thread -> SUBSET Field]
      /\ \A u \in Thread \ {t} : at'[u] = at[u] /\ left'[u] = left[u]
      /\ at[t] \in {"convertHour", "convert"}
      /\ \/ at'[t] = at[t] /\ left'[t] = left[t] \ {f}
         \/ /\ at[t] = "convertHour" => at'[t] = "copyHour"
            /\ at[t] = "convert" => at'[t] = "copy"
            /\ left[t] = {f} /\ left'[t] = Field
  BY <1>2, OneFieldMoves DEF LogInv, At
<1>4. now[t] \in Hour /\ now[t] <= clock
  BY <1>3 DEF LogInv, LogTypeOK, Reading, Present, PastTimes, ReadsHour, WritesEntry
<1>5. /\ tm' \in [Field -> Reading] /\ tm'[f] = now[t]
      /\ \A g \in Field \ {f} : tm'[g] = tm[g]
  BY <1>2, <1>4 DEF LogInv, LogTypeOK, Reading
<1>6. LogTypeOK'
  BY <1>1, <1>3, <1>5 DEF LogInv, LogTypeOK
<1>7. \A u \in Thread : /\ at'[u] \in ReadsHour <=> at[u] \in ReadsHour
                        /\ at'[u] \in WritesEntry <=> at[u] \in WritesEntry
                        /\ \A s \in {"close", "open", "opened"} : at'[u] = s <=> at[u] = s
  BY <1>3 DEF ReadsHour, WritesEntry
<1>8. LockHeld' /\ AllLeft' /\ OneFileOpen' /\ NoEarlyEntry'
  BY <1>1, <1>3, <1>7 DEF LogInv, LockHeld, Locked, AllLeft, OneFileOpen, NoEarlyEntry
<1>9. PastTimes'
  BY <1>1, <1>4, <1>5 DEF LogInv, PastTimes
<1>10. \A u \in Thread, g \in Field :
         /\ Converted(u, g)' => (u = t /\ g = f) \/ Converted(u, g)
         /\ Copied(u, g)' => Copied(u, g)
  BY <1>3 DEF Converted, Copied
<1>11. Present'
  BY <1>1, <1>4, <1>5, <1>7, <1>10, Times DEF LogInv, Present
<1>12. FreshForFile'
  BY <1>1, <1>3, <1>5, <1>7, <1>10 DEF LogInv, FreshForFile, ReadsHour, WritesEntry
\* Field f of the static result is not older than the record that u is about to replace:
\* t is u itself or, holding the lock for an entry, finds the rotation before "close".
<1>13. ASSUME m_nHour # NULL, NEW u \in Thread, at[u] \in ReadsHour
       PROVE  m_nHour[f] <= now[t]
  <2>1. CASE at[t] = "convertHour"
    BY <1>13, <2>1 DEF LogInv, FreshForRecord, ReadsHour
  <2>2. CASE at[t] = "convert"
    <3>1. ~ \E v \in Thread : at[v] = "close"
      BY <1>13 DEF OneRotates, Rotation, ReadsHour
    <3> QED
      BY <1>13, <2>2, <3>1 DEF LogInv, FreshForRecord, WritesEntry
  <2> QED
    BY <1>3, <2>1, <2>2
<1>14. FreshForRecord'
  BY <1>1, <1>5, <1>7, <1>10, <1>13 DEF LogInv, FreshForRecord
<1> QED
  BY <1>6, <1>8, <1>9, <1>11, <1>12, <1>14 DEF LogInv

LEMMA CopyResultKeeps ==
  ASSUME LogInv, NEW t \in Thread, CopyResult(t), main # "done", main' # "done"
  PROVE  LogInv'
<1>1. UNCHANGED <<clock, tm, now, m_nHour, m_fp, handles, failed, m_lock, lost, lines>>
  BY DEF CopyResult, fileVars, linesVars
<1>2. PICK f \in Field : /\ \/ OneField(t, f, "copyHour", "record")
                            \/ OneField(t, f, "copy", "append")
                         /\ local_tm' = [local_tm EXCEPT ![t][f] = tm[f]]
  BY DEF CopyResult
<1>3. /\ at' \in [Thread -> At] /\ left' \in [Thread -> SUBSET Field]
      /\ \A u \in Thread \ {t} : at'[u] = at[u] /\ left'[u] = left[u]
      /\ at[t] \in {"copyHour", "copy"}
      /\ \/ at'[t] = at[t] /\ left'[t] = left[t] \ {f}
         \/ /\ at[t] = "copyHour" => at'[t] = "record"
            /\ at[t] = "copy" => at'[t] = "append"
            /\ left[t] = {f} /\ left'[t] = Field
  BY <1>2, OneFieldMoves DEF LogInv, At
<1>4. tm[f] \in Hour /\ tm[f] <= clock /\ Converted(t, f)
  BY <1>3 DEF LogInv, LogTypeOK, Reading, Present, PastTimes, Converted
<1>5. /\ local_tm' \in [Thread -> [Field -> Reading]] /\ local_tm'[t][f] = tm[f]
      /\ \A u \in Thread, g \in Field : (u = t /\ g = f) \/ local_tm'[u][g] = local_tm[u][g]
  BY <1>2, <1>4 DEF LogInv, LogTypeOK, Reading
<1>6. LogTypeOK'
  BY <1>1, <1>3, <1>5 DEF LogInv, LogTypeOK
<1>7. \A u \in Thread : /\ at'[u] \in ReadsHour <=> at[u] \in ReadsHour
                        /\ at'[u] \in WritesEntry <=> at[u] \in WritesEntry
                        /\ \A s \in {"close", "open", "opened"} : at'[u] = s <=> at[u] = s
  BY <1>3 DEF ReadsHour, WritesEntry
<1>8. LockHeld' /\ AllLeft' /\ OneFileOpen' /\ NoEarlyEntry'
  BY <1>1, <1>3, <1>7 DEF LogInv, LockHeld, Locked, AllLeft, OneFileOpen, NoEarlyEntry
<1>9. PastTimes'
  BY <1>1, <1>4, <1>5 DEF LogInv, PastTimes
<1>10. \A u \in Thread, g \in Field :
         /\ Converted(u, g)' => Converted(u, g)
         /\ Copied(u, g)' => (u = t /\ g = f) \/ Copied(u, g)
  BY <1>3 DEF Converted, Copied
<1>11. Present'
  BY <1>1, <1>4, <1>5, <1>7, <1>10, Times DEF LogInv, Present
<1>12. FreshForFile'
  BY <1>1, <1>4, <1>5, <1>7, <1>10 DEF LogInv, FreshForFile
<1>13. FreshForRecord'
  BY <1>1, <1>4, <1>5, <1>7, <1>10 DEF LogInv, FreshForRecord
<1> QED
  BY <1>6, <1>8, <1>9, <1>11, <1>12, <1>13 DEF LogInv

\* The call's own reading and copy are gone with it; no field of the record is replaced by
\* an older one.
LEMMA RecordHourKeeps ==
  ASSUME LogInv, OneRotates, NEW t \in Thread, RecordHour(t), main # "done", main' # "done"
  PROVE  LogInv' /\ (m_nHour # NULL => \A f \in Field : m_nHour'[f] >= m_nHour[f])
<1>1. UNCHANGED <<clock, tm, left, m_fp, handles, failed, m_lock, lost, lines>>
  BY DEF RecordHour, Forget, fileVars, linesVars
<1>2. /\ at[t] = "record" /\ at' = [at EXCEPT ![t] = at'[t]]
      /\ \/ at'[t] = "close" /\ m_nHour' = local_tm[t]
         \/ at'[t] = "out" /\ m_nHour' = m_nHour /\ m_nHour # NULL
      /\ now' = [now EXCEPT ![t] = NULL] /\ local_tm' = [local_tm EXCEPT ![t] = Nothing]
  BY DEF RecordHour, Goto, Forget, needNewLog, LogInv, LogTypeOK
<1>3. /\ \A u \in Thread \ {t} :
           at'[u] = at[u] /\ now'[u] = now[u] /\ local_tm'[u] = local_tm[u]
      /\ now'[t] = NULL /\ \A f \in Field : local_tm'[t][f] = NULL
      /\ now' \in [Thread -> Reading] /\ local_tm' \in [Thread -> [Field -> Reading]]
      /\ at' \in [Thread -> At]
  BY <1>2 DEF LogInv, LogTypeOK, Reading, Nothing, At
<1>4. local_tm[t] \in [Field -> Hour] /\ left[t] = Field
  BY <1>2 DEF LogInv, LogTypeOK, Present, AllLeft, Copied, Reading
<1>5. m_nHour # NULL => m_nHour \in [Field -> Hour]
  BY DEF LogInv, LogTypeOK
<1>6. /\ m_nHour' \in [Field -> Hour]
      /\ \A f \in Field : m_nHour'[f] <= clock
      /\ m_nHour # NULL => \A f \in Field : m_nHour'[f] >= m_nHour[f]
  <2>1. CASE m_nHour' = local_tm[t]
    <3>1. \A f \in Field : local_tm[t][f] <= clock
      BY <1>4, Times DEF LogInv, PastTimes
    <3>2. m_nHour # NULL => \A f \in Field : local_tm[t][f] >= m_nHour[f]
      BY <1>2, <1>4, <1>5, Times DEF LogInv, FreshForRecord, Copied, ReadsHour
    <3> QED
      BY <1>4, <2>1, <3>1, <3>2
  <2>2. CASE m_nHour' = m_nHour /\ m_nHour # NULL
    <3>1. \A f \in Field : m_nHour[f] \in Nat /\ m_nHour[f] <= clock
      BY <1>5, <2>2, Times DEF LogInv, PastTimes
    <3> QED
      BY <1>5, <2>2, <3>1
  <2> QED
    BY <1>2, <2>1, <2>2
<1>7. LogTypeOK'
  BY <1>1, <1>3, <1>6 DEF LogInv, LogTypeOK
<1>8. \A u \in Thread : at[u] # "close" /\ (at[u] \in Rotation => u = t)
  BY <1>2 DEF OneRotates, Rotation, ReadsHour
<1>9. OneFileOpen'
  <2>1. m_fp \in {NULL, m_nHour}
    BY <1>8 DEF LogInv, OneFileOpen
  <2> QED
    BY <1>1, <1>2, <2>1 DEF LogInv, OneFileOpen
<1>10. LockHeld' /\ AllLeft' /\ NoEarlyEntry'
  BY <1>1, <1>2, <1>3, <1>4 DEF LogInv, LockHeld, Locked, WritesEntry, AllLeft, NoEarlyEntry
<1>11. PastTimes'
  BY <1>1, <1>3, <1>6, Times DEF LogInv, PastTimes
<1>12. \A u \in Thread, f \in Field : /\ Converted(u, f)' => u # t /\ Converted(u, f)
                                      /\ Copied(u, f)' => u # t /\ Copied(u, f)
  BY <1>1, <1>2, <1>3 DEF Converted, Copied
<1>13. at'[t] \notin ReadsHour \cup WritesEntry /\ at'[t] # "open"
  BY <1>2 DEF ReadsHour, WritesEntry
<1>14. Present'
  <2>1. m_nHour' # NULL
    BY <1>6, Times
  <2> QED
    BY <1>1, <1>3, <1>12, <1>13, <2>1 DEF LogInv, Present
<1>15. FreshForFile'
  BY <1>1, <1>3, <1>12, <1>13 DEF LogInv, FreshForFile
<1>16. FreshForRecord'
  BY <1>1, <1>2, <1>3, <1>8, <1>12, <1>13 DEF LogInv, FreshForRecord, Rotation
<1> QED
  BY <1>6, <1>7, <1>9, <1>10, <1>11, <1>14, <1>15, <1>16 DEF LogInv

LEMMA CloseOldLogKeeps ==
  ASSUME LogInv, OneRotates, NEW t \in Thread, CloseOldLog(t), main # "done", main' # "done"
  PROVE  LogInv'
<1>1. UNCHANGED <<clock, tm, local_tm, left, now, m_nHour, failed, lost, lines>>
  BY DEF CloseOldLog, timeVars, tmVars, linesVars
<1>2. /\ m_lock = NULL /\ m_lock' = t /\ m_fp' = NULL
      /\ at[t] = "close" /\ at' = [at EXCEPT ![t] = "open"]
      /\ handles' = IF m_fp = NULL THEN handles ELSE handles - 1
  BY DEF CloseOldLog, closeLog, Goto
<1>3. /\ at' \in [Thread -> At] /\ at'[t] = "open"
      /\ \A u \in Thread \ {t} : at'[u] = at[u]
  BY <1>2 DEF LogInv, LogTypeOK, At
<1>4. \A u \in Thread : at[u] \notin Locked
  BY <1>2, Times DEF LogInv, LockHeld
<1>5. handles' = 0
  BY <1>2 DEF LogInv, OneFileOpen
<1>6. LogTypeOK'
  BY <1>1, <1>2, <1>3, <1>5 DEF LogInv, LogTypeOK
<1>7. LockHeld' /\ AllLeft'
  BY <1>1, <1>2, <1>3, <1>4, Times DEF LogInv, LockHeld, Locked, WritesEntry, AllLeft
<1>8. PastTimes' /\ NoEarlyEntry' /\ OneFileOpen' /\ FreshForFile'
  BY <1>1, <1>2, <1>5 DEF LogInv, PastTimes, NoEarlyEntry, OneFileOpen, FreshForFile
<1>9. \A u \in Thread, f \in Field : /\ Converted(u, f)' => u # t /\ Converted(u, f)
                                     /\ Copied(u, f)' => u # t /\ Copied(u, f)
  BY <1>1, <1>2, <1>3 DEF Converted, Copied
<1>10. \A u \in Thread \ {t} : at[u] \notin WritesEntry \cup Rotation
  BY <1>2, <1>4 DEF Locked, OneRotates, Rotation
<1>11. Present'
  <2>1. \A u \in Thread : at'[u] \notin WritesEntry
    BY <1>3, <1>10 DEF WritesEntry
  <2>2. m_nHour' # NULL /\ at'[t] \notin ReadsHour
    BY <1>1, <1>2, <1>3 DEF LogInv, Present, ReadsHour
  <2> QED
    BY <1>1, <1>2, <1>3, <1>9, <2>1, <2>2 DEF LogInv, Present
<1>12. FreshForRecord'
  BY <1>1, <1>3, <1>10 DEF FreshForRecord, Rotation, ReadsHour, WritesEntry
<1> QED
  BY <1>6, <1>7, <1>8, <1>11, <1>12 DEF LogInv

LEMMA CreateHourLogKeeps ==
  ASSUME LogInv, OneRotates, NEW t \in Thread, CreateHourLog(t), main # "done", main' # "done"
  PROVE  LogInv'
<1>1. UNCHANGED <<clock, tm, local_tm, left, now, m_nHour, lines>>
  BY DEF CreateHourLog, timeVars, tmVars
<1>2. /\ m_lock' = NULL /\ lost' = FALSE
      /\ at[t] = "open" /\ at' = [at EXCEPT ![t] = "opened"]
  BY DEF CreateHourLog, Goto
<1>3. /\ at' \in [Thread -> At] /\ at'[t] = "opened"
      /\ \A u \in Thread \ {t} : at'[u] = at[u]
  BY <1>2 DEF LogInv, LogTypeOK, At
<1>4. m_fp = NULL /\ m_lock = t /\ handles = 0 /\ m_nHour \in [Field -> Hour]
  BY <1>2 DEF LogInv, LogTypeOK, LockHeld, Locked, Present, OneFileOpen
<1>5. /\ failed' \in BOOLEAN
      /\ \/ m_fp' = m_nHour /\ handles' = 1
         \/ m_fp' = NULL /\ handles' = 0
  <2>1. PICK ok \in BOOLEAN :
          /\ failed' = ~ ok
          /\ m_fp' = IF ok THEN m_nHour ELSE NULL
          /\ handles' = IF ok THEN handles + 1 ELSE handles
    BY DEF CreateHourLog
  <2>2. failed' \in BOOLEAN
    BY <2>1, Zenon
  <2> QED
    BY <1>4, <2>1, <2>2
<1>6. \A u \in Thread \ {t} : at[u] \notin Locked \cup Rotation
  BY <1>2, <1>4 DEF LogInv, LockHeld, OneRotates, Rotation
<1>7. LogTypeOK'
  <2>1. {failed, lost}' \subseteq BOOLEAN
    BY <1>2, <1>5, Zenon
  <2>2. handles' \in Nat /\ m_fp' \in [Field -> Hour] \cup {NULL}
    BY <1>4, <1>5
  <2>3. LogTypeOK
    BY DEF LogInv
  <2> QED
    BY <1>1, <1>2, <1>3, <2>1, <2>2, <2>3 DEF LogTypeOK
<1>8. LockHeld' /\ AllLeft'
  BY <1>1, <1>2, <1>3, <1>6, Times DEF LogInv, LockHeld, Locked, WritesEntry, AllLeft
<1>9. PastTimes' /\ NoEarlyEntry'
  BY <1>1, <1>4, <1>5, Times DEF LogInv, LogTypeOK, PastTimes, NoEarlyEntry
<1>10. OneFileOpen'
  BY <1>1, <1>4, <1>5, Times DEF OneFileOpen
<1>11. \A u \in Thread : at'[u] \notin ReadsHour \cup WritesEntry \cup {"close", "open"}
  BY <1>3, <1>6 DEF Locked, Rotation, ReadsHour, WritesEntry
<1>12. FreshForFile' /\ FreshForRecord'
  BY <1>11 DEF FreshForFile, FreshForRecord
<1>13. Present'
  <2>1. m_nHour' # NULL
    BY <1>1, <1>4, Times
  <2>2. \A u \in Thread, f \in Field : ~ Converted(u, f)' /\ ~ Copied(u, f)'
    BY <1>11 DEF Converted, Copied, ReadsHour, WritesEntry
  <2> QED
    BY <1>11, <2>1, <2>2 DEF Present
<1> QED
  BY <1>7, <1>8, <1>9, <1>10, <1>12, <1>13 DEF LogInv

LEMMA WriteLogKeeps ==
  ASSUME LogInv, NEW t \in Thread, WriteLog(t), main # "done", main' # "done"
  PROVE  LogInv'
<1>1. UNCHANGED <<clock, tm, local_tm, left, m_nHour, m_fp, handles, failed, lines>>
  BY DEF WriteLog, ReadClock, timeVars, tmVars, fileVars
<1>2. at[t] \in {"out", "opened"} /\ m_lock = NULL /\ lost' \in BOOLEAN
  BY DEF WriteLog, CanCall, LogInv, LogTypeOK
<1>3. \/ /\ m_fp = NULL /\ m_lock' = m_lock /\ now' = now
         /\ at' = [at EXCEPT ![t] = "out"]
      \/ /\ m_fp # NULL /\ m_lock' = t /\ now' = [now EXCEPT ![t] = clock]
         /\ at' = [at EXCEPT ![t] = "convert"]
  BY DEF WriteLog, ReadClock, timeVars
<1>4. /\ at' \in [Thread -> At] /\ now' \in [Thread -> Reading] /\ left[t] = Field
      /\ clock \in Hour
      /\ \A u \in Thread \ {t} : at'[u] = at[u] /\ now'[u] = now[u]
      /\ \/ at'[t] = "out" /\ now'[t] = now[t]
         \/ at'[t] = "convert" /\ now'[t] = clock /\ m_fp # NULL
  <2>1. /\ at \in [Thread -> At] /\ now \in [Thread -> Reading] /\ clock \in Reading
        /\ {"out", "convert"} \subseteq At
    BY DEF LogInv, LogTypeOK, At, Reading
  <2>2. left[t] = Field /\ clock \in Hour
    BY <1>2 DEF LogInv, LogTypeOK, AllLeft
  <2> QED
    BY <1>3, <2>1, <2>2
<1>5. \A u \in Thread : at[u] \notin Locked
  BY <1>2, Times DEF LogInv, LockHeld
<1>6. LogTypeOK'
  BY <1>1, <1>2, <1>3, <1>4 DEF LogInv, LogTypeOK
<1>7. LockHeld' /\ AllLeft'
  BY <1>1, <1>2, <1>3, <1>4, <1>5, Times DEF LogInv, LockHeld, Locked, WritesEntry, AllLeft
<1>8. PastTimes' /\ NoEarlyEntry'
  BY <1>1, <1>4, Times DEF LogInv, PastTimes, NoEarlyEntry
<1>9. \A u \in Thread : at[u] = "close" <=> at'[u] = "close"
  BY <1>2, <1>4
<1>10. OneFileOpen'
  BY <1>1, <1>9 DEF LogInv, OneFileOpen
<1>11. \A u \in Thread, f \in Field : /\ Converted(u, f)' => u # t /\ Converted(u, f)
                                      /\ Copied(u, f)' => u # t /\ Copied(u, f)
  BY <1>1, <1>4, SameProgress, NoProgress
<1>12. Present'
  BY <1>1, <1>4, <1>11, Times DEF LogInv, Present, ReadsHour, WritesEntry
<1>13. FreshForFile'
  BY <1>1, <1>4, <1>11 DEF LogInv, FreshForFile, PastTimes, ReadsHour, WritesEntry
<1>14. FreshForRecord'
  BY <1>1, <1>4, <1>9, <1>11 DEF LogInv, FreshForRecord, PastTimes, ReadsHour, WritesEntry
<1> QED
  BY <1>6, <1>7, <1>8, <1>10, <1>12, <1>13, <1>14 DEF LogInv

LEMMA AppendKeeps ==
  ASSUME LogInv, NEW t \in Thread, Append(t), main # "done", main' # "done"
  PROVE  LogInv'
<1>1. UNCHANGED <<clock, tm, left, m_nHour, m_fp, handles, failed, lost>>
  BY DEF Append, Forget, fileVars
<1>2. /\ m_lock' = NULL
      /\ lines' = lines \cup {[file |-> m_fp, stamp |-> local_tm[t]["hour"]]}
      /\ at[t] = "append" /\ at' = [at EXCEPT ![t] = "out"]
      /\ now' = [now EXCEPT ![t] = NULL] /\ local_tm' = [local_tm EXCEPT ![t] = Nothing]
  BY DEF Append, Goto, Forget
<1>3. /\ \A u \in Thread \ {t} :
           at'[u] = at[u] /\ now'[u] = now[u] /\ local_tm'[u] = local_tm[u]
      /\ at'[t] = "out" /\ now'[t] = NULL /\ \A f \in Field : local_tm'[t][f] = NULL
      /\ now' \in [Thread -> Reading] /\ local_tm' \in [Thread -> [Field -> Reading]]
      /\ at' \in [Thread -> At]
  BY <1>2 DEF LogInv, LogTypeOK, Reading, Nothing, At
<1>4. m_lock = t /\ left[t] = Field /\ \A u \in Thread \ {t} : at[u] \notin Locked
  BY <1>2 DEF LogInv, LockHeld, Locked, WritesEntry, AllLeft
<1>5. /\ m_fp \in [Field -> Hour] /\ local_tm[t]["hour"] \in Hour
      /\ \A f \in Field : m_fp[f] <= local_tm[t]["hour"]
  <2>1. m_fp \in [Field -> Hour] /\ m_fp # NULL
    BY <1>2 DEF LogInv, LogTypeOK, Present, WritesEntry
  <2>2. Copied(t, "hour") /\ "hour" \in Field
    BY <1>2, CalendarAssumption DEF Copied
  <2> QED
    BY <1>2, <2>1, <2>2 DEF LogInv, LogTypeOK, Reading, Present, FreshForFile, WritesEntry
<1>6. LogTypeOK'
  BY <1>1, <1>2, <1>3, <1>5 DEF LogInv, LogTypeOK
<1>7. LockHeld' /\ AllLeft'
  BY <1>1, <1>2, <1>3, <1>4, Times DEF LogInv, LockHeld, Locked, WritesEntry, AllLeft
<1>8. PastTimes'
  BY <1>1, <1>3 DEF LogInv, PastTimes
<1>9. NoEarlyEntry'
  BY <1>2, <1>5, Times DEF LogInv, NoEarlyEntry
<1>10. \A u \in Thread : at[u] = "close" <=> at'[u] = "close"
  BY <1>2, <1>3
<1>11. OneFileOpen'
  BY <1>1, <1>10 DEF LogInv, OneFileOpen
<1>12. \A u \in Thread, f \in Field : /\ Converted(u, f)' => u # t /\ Converted(u, f)
                                      /\ Copied(u, f)' => u # t /\ Copied(u, f)
  BY <1>1, <1>3, <1>4, SameProgress, NoProgress
<1>13. Present'
  BY <1>1, <1>3, <1>12 DEF LogInv, Present, ReadsHour, WritesEntry
<1>14. at'[t] \notin ReadsHour \cup WritesEntry
  BY <1>3 DEF ReadsHour, WritesEntry
<1>15. FreshForFile'
  BY <1>1, <1>3, <1>12, <1>14 DEF LogInv, FreshForFile
<1>16. FreshForRecord'
  BY <1>1, <1>3, <1>10, <1>12, <1>14 DEF LogInv, FreshForRecord
<1> QED
  BY <1>6, <1>7, <1>8, <1>9, <1>11, <1>13, <1>15, <1>16 DEF LogInv

LEMMA DeleteLogKeeps ==
  ASSUME LogInv, DeleteLog, main' = "done"
  PROVE  LogInv'
<1>1. UNCHANGED <<clock, tm, local_tm, left, now, m_nHour, m_lock, at, failed, lost, lines>>
  BY DEF DeleteLog, timeVars, tmVars, linesVars
<1>2. m_fp' = NULL /\ handles' = 0
  BY DEF DeleteLog, closeLog, LogInv, OneFileOpen
<1> QED
  BY <1>1, <1>2 DEF LogInv, LogTypeOK, OneFileOpen, NoEarlyEntry, LockHeld, AllLeft, PastTimes,
                    Present, FreshForFile, FreshForRecord, Converted, Copied

LEMMA TickKeeps ==
  ASSUME LogInv, Tick, main' = main
  PROVE  LogInv'
<1>1. UNCHANGED <<tm, local_tm, left, now, m_nHour, m_fp, handles, failed, m_lock, at, lost, lines>>
  BY DEF Tick, tmVars, fileVars, linesVars
<1>2. clock' \in Hour /\ clock' = clock + 1 /\ clock \in Nat
  BY MaxHourAssumption DEF Tick, LogInv, LogTypeOK, Hour
<1>3. LogTypeOK'
  BY <1>1, <1>2 DEF LogInv, LogTypeOK
<1>4. PastTimes'
  <2>1. \A h \in Hour : h <= clock => h <= clock'
    BY <1>2, Times
  <2> QED
    BY <1>1, <2>1 DEF LogInv, LogTypeOK, Reading, PastTimes
<1>5. /\ OneFileOpen' /\ NoEarlyEntry' /\ LockHeld' /\ AllLeft' /\ Present'
      /\ FreshForFile' /\ FreshForRecord'
  BY <1>1 DEF LogInv, OneFileOpen, NoEarlyEntry, LockHeld, AllLeft, Present, FreshForFile,
              FreshForRecord, Converted, Copied
<1> QED
  BY <1>3, <1>4, <1>5 DEF LogInv

\* The step of either thread, and that it never records an older field.
LEMMA LogStepKeeps ==
  ASSUME ControlTypeOK, MainRotatesFirst, LogInv, [Next]_vars
  PROVE  LogInv' /\ (m_nHour # NULL => \A f \in Field : m_nHour'[f] >= m_nHour[f])
<1>1. OneRotates
  BY MainRotatesAlone
<1>2. m_nHour' = m_nHour => (m_nHour # NULL => \A f \in Field : m_nHour'[f] >= m_nHour[f])
  <2>1. m_nHour # NULL => \A f \in Field : m_nHour[f] \in Nat
    BY Times DEF LogInv, LogTypeOK
  <2> QED
    BY <2>1
<1>3. CASE UNCHANGED logVars /\ (main = "done" <=> main' = "done")
  <2>1. UNCHANGED <<clock, tm, local_tm, left, now, m_nHour, m_fp, handles, failed, m_lock, at,
                    lost, lines>>
    BY <1>3 DEF logVars, timeVars, tmVars, fileVars, linesVars
  <2>2. LogInv'
    BY <1>3, <2>1 DEF LogInv, LogTypeOK, OneFileOpen, NoEarlyEntry, LockHeld, AllLeft, PastTimes,
                      Present, FreshForFile, FreshForRecord, Converted, Copied
  <2> QED
    BY <1>2, <2>1, <2>2
<1>4. CASE Tick /\ main' = main
  BY <1>2, <1>4, TickKeeps DEF Tick
<1>5. CASE DeleteLog /\ main' = "done"
  BY <1>2, <1>5, DeleteLogKeeps DEF DeleteLog
<1>6. CASE \E t \in Thread : LogStep(t) /\ main # "done" /\ main' # "done"
  <2>1. PICK t \in Thread : LogStep(t) /\ main # "done" /\ main' # "done"
    BY <1>6
  <2>2. CASE CreateLog(t)
    BY <1>2, <2>1, <2>2, CreateLogKeeps DEF CreateLog
  <2>3. CASE localtime(t)
    BY <1>1, <1>2, <2>1, <2>3, LocaltimeKeeps DEF localtime
  <2>4. CASE CopyResult(t)
    BY <1>2, <2>1, <2>4, CopyResultKeeps DEF CopyResult
  <2>5. CASE RecordHour(t)
    BY <1>1, <2>1, <2>5, RecordHourKeeps
  <2>6. CASE CloseOldLog(t)
    BY <1>1, <1>2, <2>1, <2>6, CloseOldLogKeeps DEF CloseOldLog
  <2>7. CASE CreateHourLog(t)
    BY <1>1, <1>2, <2>1, <2>7, CreateHourLogKeeps DEF CreateHourLog
  <2>8. CASE WriteLog(t)
    BY <1>2, <2>1, <2>8, WriteLogKeeps DEF WriteLog
  <2>9. CASE Append(t)
    BY <1>2, <2>1, <2>9, AppendKeeps DEF Append
  <2> QED
    BY <2>1, <2>2, <2>3, <2>4, <2>5, <2>6, <2>7, <2>8, <2>9 DEF LogStep
<1> QED
  BY <1>3, <1>4, <1>5, <1>6, StepCases DEF LogInv

-------------------------------------------------------------------------------
(* One thread at a time in the log. *)

\* What its only user does to its reading and to the record.
LEMMA OnlyUserStep ==
  ASSUME LogInv, OwnReading, OneHourWhileServing, main \in Serving,
         NEW t \in Thread, LogStep(t), \A u \in Thread \ {t} : at[u] = "out"
  PROVE  OwnReading' /\ OneHourWhileServing'
<1> DEFINE Whole == m_nHour # NULL => \E h \in Hour : \A f \in Field : m_nHour[f] = h
<1>1. LogTypeOK /\ Whole /\ \A u \in Thread \ {t}, f \in Field : at'[u] = "out"
  <2>1. \A u \in Thread \ {t} : at'[u] = at[u]
    <3>1. CASE localtime(t) \/ CopyResult(t)
      BY <3>1, FieldStepMoves DEF LogInv
    <3>2. CASE ~ (localtime(t) \/ CopyResult(t))
      BY <3>2 DEF LogStep, CreateLog, RecordHour, CloseOldLog, CreateHourLog, WriteLog, Append,
                  Goto, LogInv, LogTypeOK
    <3> QED
      BY <3>1, <3>2
  <2> QED
    BY <2>1 DEF LogInv, OneHourWhileServing, Serving
<1> SUFFICES /\ \A f \in Field : /\ Converted(t, f)' => tm'[f] = now'[t]
                                 /\ Copied(t, f)' => local_tm'[t][f] = now'[t]
             /\ Whole'
  BY <1>1 DEF OwnReading, OneHourWhileServing, Converted, Copied
<1>2. \A f \in Field : /\ Converted(t, f) => tm[f] = now[t]
                       /\ Copied(t, f) => local_tm[t][f] = now[t]
  BY DEF OwnReading
<1>3. CASE localtime(t)
  <2>1. PICK f \in Field : /\ \/ OneField(t, f, "convertHour", "copyHour")
                              \/ OneField(t, f, "convert", "copy")
                           /\ tm' = [tm EXCEPT ![f] = now[t]]
    BY <1>3 DEF localtime
  <2>2. /\ UNCHANGED <<now, local_tm, m_nHour>> /\ tm'[f] = now[t]
        /\ \A g \in Field \ {f} : tm'[g] = tm[g]
    BY <1>1, <1>3, <2>1 DEF localtime, LogTypeOK
  <2>3. \A g \in Field : Converted(t, g)' => g = f \/ Converted(t, g)
    BY <1>1, <2>1, OneFieldMoves DEF Converted, At
  <2>4. \A g \in Field : ~ Copied(t, g)'
    BY <1>1, <2>1, OneFieldMoves DEF Copied, At
  <2> QED
    BY <1>1, <1>2, <2>2, <2>3, <2>4
<1>4. CASE CopyResult(t)
  <2>1. PICK f \in Field : /\ \/ OneField(t, f, "copyHour", "record")
                              \/ OneField(t, f, "copy", "append")
                           /\ local_tm' = [local_tm EXCEPT ![t][f] = tm[f]]
    BY <1>4 DEF CopyResult
  <2>2. /\ UNCHANGED <<now, tm, m_nHour>> /\ local_tm'[t][f] = tm[f]
        /\ \A g \in Field \ {f} : local_tm'[t][g] = local_tm[t][g]
    BY <1>1, <1>4, <2>1 DEF CopyResult, LogTypeOK
  <2>3. /\ Converted(t, f)
        /\ \A g \in Field : /\ Converted(t, g)' => Converted(t, g)
                            /\ Copied(t, g)' => g = f \/ Copied(t, g)
    BY <1>1, <2>1, OneFieldMoves DEF Converted, Copied, At
  <2> QED
    BY <1>1, <1>2, <2>2, <2>3
<1>5. CASE RecordHour(t)
  <2>1. /\ at[t] = "record" /\ at'[t] \in {"close", "out"} /\ left'[t] = Field
        /\ m_nHour' = local_tm[t] \/ m_nHour' = m_nHour
    BY <1>1, <1>5 DEF RecordHour, Goto, Forget, LogTypeOK, LogInv, AllLeft
  <2>2. now[t] \in Hour /\ \A f \in Field : local_tm[t][f] = now[t]
    BY <1>1, <1>2, <2>1 DEF LogInv, LogTypeOK, Reading, Present, ReadsHour, Copied
  <2>3. Whole'
    BY <1>1, <2>1, <2>2
  <2> QED
    BY <2>1, <2>3, NoProgress
<1>6. CASE CreateLog(t) \/ CloseOldLog(t) \/ CreateHourLog(t) \/ WriteLog(t) \/ Append(t)
  <2>1. m_nHour' = m_nHour
    BY <1>6 DEF CreateLog, CloseOldLog, CreateHourLog, WriteLog, Append
  <2>2. left' = left
    BY <1>6 DEF CreateLog, ReadClock, CloseOldLog, CreateHourLog, WriteLog, Append, Forget,
                timeVars, tmVars
  <2>3. /\ at[t] \in {"out", "close", "open", "opened", "append"}
        /\ at'[t] \in {"out", "convertHour", "open", "opened", "convert"}
    BY <1>1, <1>6 DEF CreateLog, CloseOldLog, CreateHourLog, WriteLog, CanCall, Append, Goto,
                      LogTypeOK
  <2>4. left'[t] = Field
    BY <2>2, <2>3 DEF LogInv, AllLeft
  <2> QED
    BY <1>1, <2>1, <2>3, <2>4, NoProgress
<1> QED
  BY <1>3, <1>4, <1>5, <1>6 DEF LogStep

LEMMA WholeStep ==
  ASSUME Inv, [Next]_vars
  PROVE  OwnReading' /\ OneHourWhileServing'
<1>1. OwnReading /\ OneHourWhileServing /\ LogInv /\ MainRotatesFirst
  BY DEF Inv
<1>2. CASE UNCHANGED <<tmVars, now, m_nHour, at>> /\ (main \in Serving \/ main' \notin Serving)
  BY <1>1, <1>2 DEF OwnReading, OneHourWhileServing, Serving, Converted, Copied, tmVars
<1>3. CASE main' \notin Serving
  BY <1>3 DEF OwnReading, OneHourWhileServing, Serving
<1>4. CASE /\ main' \in Serving
           /\ \E t \in Thread :
                /\ LogStep(t)
                /\ main \in Serving
                /\ main \in {"create", "thread"} => t = "main"
                /\ main \in {"serve", "call"} => t # "main"
  <2>1. PICK t \in Thread :
                /\ LogStep(t)
                /\ main \in Serving
                /\ main \in {"create", "thread"} => t = "main"
                /\ main \in {"serve", "call"} => t # "main"
    BY <1>4
  <2>2. \A u \in Thread \ {t} : at[u] = "out"
    BY <1>1, <2>1 DEF MainRotatesFirst, Serving, Thread
  <2> QED
    BY <1>1, <2>1, <2>2, OnlyUserStep
<1>5. CASE Tick /\ main' = main
  BY <1>2, <1>3, <1>5 DEF Tick
<1>6. CASE DeleteLog /\ main' = "done"
  BY <1>3, <1>6 DEF Serving
<1>7. CASE UNCHANGED logVars /\ (main \in Serving \/ main' \notin Serving)
  BY <1>2, <1>7 DEF logVars, timeVars
<1> QED
  BY <1>1, <1>3, <1>4, <1>5, <1>6, <1>7, StepCases DEF LogInv

-------------------------------------------------------------------------------
(* Lost entries. *)

\* What t's step does for a file that is not there.
LEMMA FileStep ==
  ASSUME Inv, OneRotates, NEW t \in Thread, LogStep(t), main # "done",
         main = "create" => CreateLog(t),
         main \in {"create", "thread"} => t = "main"
  PROVE  FileIsThere'
<1> SUFFICES ASSUME LoggingEnabled, m_fp' = NULL
             PROVE  \/ failed'
                    \/ \E u \in Thread : at'[u] = "open"
                    \/ at'["main"] = "close"
                    \/ at'["main"] \in ReadsHour /\ m_nHour' = NULL
  BY DEF FileIsThere
<1>1. LogTypeOK /\ "main" \in Thread /\ NULL \notin Hour
  BY NULLAssumption DEF Inv, LogInv, Thread
<1>2. CASE main = "create"
  <2>1. CreateLog("main") /\ m_nHour = NULL
    BY <1>2 DEF Inv, NoHourYet
  <2> QED
    BY <1>1, <2>1 DEF CreateLog, Goto, LogTypeOK, ReadsHour
<1>3. CASE main # "create" /\ m_fp = NULL
  <2>1. \/ failed
        \/ \E u \in Thread : at[u] = "open"
        \/ at["main"] = "close"
        \/ at["main"] \in ReadsHour /\ m_nHour = NULL
    BY <1>3 DEF Inv, FileIsThere
  <2>2. CASE CreateLog(t)
    BY <1>1, <2>1, <2>2 DEF CreateLog, Goto, LogTypeOK, fileVars, ReadsHour
  <2>3. CASE localtime(t) \/ CopyResult(t)
    <3>1. UNCHANGED <<failed, m_nHour>>
      BY <2>3 DEF localtime, CopyResult, fileVars
    <3> QED
      BY <1>1, <2>1, <2>3, <3>1, FieldStepMoves DEF ReadsHour, WritesEntry
  <2>4. CASE RecordHour(t)
    <3>1. at[t] = "record"
      BY <2>4 DEF RecordHour, Goto
    <3>2. at["main"] \in Rotation => t = "main"
      BY <1>1, <3>1 DEF OneRotates, Rotation, ReadsHour
    <3> QED
      BY <1>1, <2>1, <2>4, <3>1, <3>2
         DEF RecordHour, needNewLog, Goto, LogTypeOK, fileVars, Rotation, ReadsHour
  <2>5. CASE CloseOldLog(t)
    BY <1>1, <2>5 DEF CloseOldLog, Goto, LogTypeOK
  <2>6. CASE CreateHourLog(t)
    <3>1. m_nHour # NULL
      BY <2>6 DEF CreateHourLog, Goto, Inv, LogInv, Present
    <3> QED
      BY <2>6, <3>1 DEF CreateHourLog
  <2>7. CASE WriteLog(t)
    BY <1>1, <2>1, <2>7 DEF WriteLog, CanCall, LogTypeOK, fileVars, ReadsHour
  <2>8. CASE Append(t)
    BY <1>1, <2>1, <2>8 DEF Append, Goto, LogTypeOK, fileVars, ReadsHour
  <2> QED
    BY <2>2, <2>3, <2>4, <2>5, <2>6, <2>7, <2>8 DEF LogStep
<1>4. CASE m_fp # NULL
  <2>1. CASE CloseOldLog(t)
    BY <1>1, <2>1 DEF CloseOldLog, Goto, LogTypeOK
  <2>2. CASE CreateHourLog(t)
    BY <1>4, <2>2 DEF CreateHourLog, Goto, Inv, LogInv, Present
  <2> QED
    BY <1>4, <2>1, <2>2
       DEF LogStep, CreateLog, localtime, CopyResult, RecordHour, WriteLog, Append, fileVars
<1> QED
  BY <1>2, <1>3, <1>4

\* Whoever writes while there is no file does so after a failure.
LEMMA WriterFindsFile ==
  ASSUME Inv, LoggingEnabled, m_fp = NULL, main \notin {"create", "done"},
         NEW t \in Thread, WriteLog(t), main = "thread" => t = "main"
  PROVE  failed
<1>1. at[t] \in {"out", "opened"} /\ m_lock = NULL
  BY DEF WriteLog, CanCall
<1>2. \A u \in Thread : at[u] # "open"
  BY <1>1, Times DEF Inv, LogInv, LockHeld, Locked
<1>3. at["main"] \notin ReadsHour \cup {"close"}
  BY <1>1 DEF Inv, MainRotatesFirst, Rotation, ReadsHour
<1> QED
  BY <1>2, <1>3 DEF Inv, FileIsThere

LEMMA LossStep ==
  ASSUME Inv, [Next]_vars
  PROVE  NoHourYet' /\ FileIsThere' /\ LostOnlyAfterFailure'
<1> USE DEF NoHourYet, LostOnlyAfterFailure
<1>1. OneRotates
  BY MainRotatesAlone DEF Inv
<1>2. CASE UNCHANGED logVars /\ (main = "done" <=> main' = "done")
                             /\ (main = "create" <=> main' = "create")
  BY <1>2 DEF Inv, FileIsThere, logVars, fileVars, linesVars
<1>3. CASE Tick /\ main' = main
  BY <1>3 DEF Inv, FileIsThere, Tick, fileVars, linesVars
<1>4. CASE DeleteLog /\ main' = "done"
  BY <1>4 DEF Inv, FileIsThere, DeleteLog, linesVars
<1>5. CASE \E t \in Thread :
             /\ LogStep(t)
             /\ main # "done" /\ main' # "done" /\ main' # "create"
             /\ main = "create" => CreateLog(t)
             /\ main \in {"create", "thread"} => t = "main"
  <2>1. PICK t \in Thread :
             /\ LogStep(t)
             /\ main # "done" /\ main' # "done" /\ main' # "create"
             /\ main = "create" => CreateLog(t)
             /\ main \in {"create", "thread"} => t = "main"
    BY <1>5
  <2>2. FileIsThere'
    BY <1>1, <2>1, FileStep
  <2>3. CASE WriteLog(t)
    <3>1. LoggingEnabled => main # "create"
      BY <2>1, <2>3 DEF WriteLog, CanCall, CreateLog, Goto, Inv, LogInv, LogTypeOK
    <3>2. LoggingEnabled /\ m_fp = NULL => failed
      BY <2>1, <2>3, <3>1, WriterFindsFile
    <3> QED
      BY <2>1, <2>2, <2>3, <3>2 DEF WriteLog, fileVars, Inv
  <2>4. CASE CreateHourLog(t)
    BY <2>1, <2>2, <2>4 DEF CreateHourLog
  <2> QED
    BY <2>1, <2>2, <2>3, <2>4
       DEF LogStep, CreateLog, localtime, CopyResult, RecordHour, CloseOldLog, Append, fileVars,
           linesVars, Inv
<1> QED
  BY <1>2, <1>3, <1>4, <1>5, StepCases DEF Inv, LogInv

-------------------------------------------------------------------------------
(* The theorems. *)

LEMMA InitInv == Init => Inv
<1> SUFFICES ASSUME Init PROVE Inv
  OBVIOUS
<1>1. MaxHour \in Nat /\ MaxEntries \in Nat /\ NULL \notin Thread
  BY MaxHourAssumption, MaxEntriesAssumption, NULLAssumption
<1>2. ControlTypeOK /\ MainRotatesFirst
  BY <1>1 DEF Init, LogInit, ControlTypeOK, MainAt, WorkerAt, MainRotatesFirst, Thread, Rotation,
              ReadsHour
<1>3. LogTypeOK
  <2>1. {failed, lost} \subseteq BOOLEAN
    BY Zenon DEF Init, LogInit
  <2>2. clock \in Hour
    BY <1>1 DEF Init, LogInit, Hour
  <2> QED
    BY <2>1, <2>2 DEF Init, LogInit, LogTypeOK, At, Reading, Nothing
<1>4. \A t \in Thread, f \in Field : ~ Converted(t, f) /\ ~ Copied(t, f)
  BY DEF Init, LogInit, Converted, Copied
<1>5. /\ OneFileOpen /\ NoEarlyEntry /\ LockHeld /\ AllLeft /\ PastTimes /\ Present
      /\ FreshForFile /\ FreshForRecord
      /\ NoHourYet /\ FileIsThere /\ LostOnlyAfterFailure /\ OwnReading /\ OneHourWhileServing
  BY <1>1, <1>4
     DEF Init, LogInit, Nothing, OneFileOpen, NoEarlyEntry, LockHeld, Locked, ReadsHour,
         WritesEntry, AllLeft, PastTimes, Present, FreshForFile, FreshForRecord, NoHourYet, FileIsThere,
         LostOnlyAfterFailure, OwnReading, OneHourWhileServing
<1> QED
  BY <1>2, <1>3, <1>5 DEF Inv, LogInv

LEMMA StepKeepsInv == Inv /\ [Next]_vars => Inv'
BY ControlStep, LogStepKeeps, LossStep, WholeStep DEF Inv, LogInv

LEMMA Invariance == Spec => []Inv
<1>1. Init /\ [][Next]_vars => []Inv
  BY InitInv, StepKeepsInv, PTL
<1> QED
  BY <1>1, PTL DEF Spec

\* Clock, static result, copies, file and entries keep their types; each thread is where
\* the code can be.
THEOREM LogTyping == Spec => []TypeOK
<1>1. Inv => TypeOK
  BY DEF Inv, ControlTypeOK, LogInv, TypeOK
<1> QED
  BY <1>1, Invariance, PTL

\* One file at a time, that of the recorded hour but for the time of a rotation, and
\* closed once.
THEOREM OneFileAtATime == Spec => []OneFileOpen
<1>1. Inv => OneFileOpen
  BY DEF Inv, LogInv
<1> QED
  BY <1>1, Invariance, PTL

\* No entry goes to a closed file, nor to one that is named after anything read later than
\* the hour the entry shows.
THEOREM EntriesAreNotEarly == Spec => []NoEarlyEntry
<1>1. Inv => NoEarlyEntry
  BY DEF Inv, LogInv
<1> QED
  BY <1>1, Invariance, PTL

\* A rotation in one thread costs the other no entry.
THEOREM RotationLosesNothing == Spec => []LostOnlyAfterFailure
<1>1. Inv => LostOnlyAfterFailure
  BY DEF Inv
<1> QED
  BY <1>1, Invariance, PTL

\* No field of the recorded date and hour goes back in time, though both threads write and
\* copy the static result of localtime field by field and without a common lock.  (They may
\* so be fields of two readings: that is excluded by the next theorem, up to Stop.)
THEOREM HourAdvances == Spec => HourNeverGoesBack
<1>1. Inv /\ [Next]_vars =>
        [m_nHour # NULL => \A f \in Field : m_nHour'[f] >= m_nHour[f]]_vars
  BY LogStepKeeps DEF Inv
<1> QED
  BY <1>1, Invariance, PTL DEF Spec, HourNeverGoesBack

\* Until Stop writes its entry the recorded date and hour are those of one reading of the
\* clock: until then the calls of the two threads do not meet.
THEOREM HoursAreWholeWhileServing == Spec => []OneHourWhileServing
<1>1. Inv => OneHourWhileServing
  BY DEF Inv
<1> QED
  BY <1>1, Invariance, PTL
===============================================================================
