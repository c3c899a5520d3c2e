-------------------------------- MODULE Clogger --------------------------------
(***************************************************************************)
(* The log: one file per hour, opened by CreateLog and written by WriteLog, *)
(* which holds m_lock.  CreateLog reads the clock and records the hour      *)
(* without the lock and takes it only to change the file.                   *)
(*                                                                         *)
(* Both operations call std::localtime, whose result is one static struct tm *)
(* (`tm') for all threads: each of its fields is written and copied on its   *)
(* own, in any order, whatever the other thread does to it meanwhile.  What   *)
(* is kept of a field is the reading of the clock it comes from; its value    *)
(* is what the calendar says of that hour.  The text of an entry is left out, *)
(* but for the hour it shows.                                              *)
(***************************************************************************)
EXTENDS Naturals

CONSTANTS
  MaxHour,        \* bound of the clock
  Field,          \* the fields of struct tm that name a file, "hour" among them
  Calendar,       \* Calendar[h][f]: the value of field f in hour h
  LoggingEnabled, \* what the constructor was given; SIPServer passes 1
  NULL            \* no file, no holder, no hour yet (-1)

Hour   == 0 .. MaxHour
Thread == {"main", "worker"}

ASSUME MaxHourAssumption == MaxHour \in Nat
ASSUME CalendarAssumption ==
  /\ "hour" \in Field
  /\ \A g, h \in Hour : (\A f \in Field : Calendar[g][f] = Calendar[h][f]) => g = h
ASSUME LoggingAssumption == LoggingEnabled \in BOOLEAN
ASSUME NULLAssumption == NULL \notin Hour /\ NULL \notin Thread /\ NULL \notin [Field -> Hour]

VARIABLES
  clock,   \* the hour it is
  tm,      \* the static result of std::localtime, by the hour each field was read in
  local_tm,\* local_tm[t]: thread t's copy of it
  left,    \* left[t]: the fields thread t has yet to write or to copy
  now,     \* now[t]: the hour thread t has read from the clock for its call
  m_nHour, \* m_nYear to m_nHour: what CreateLog recorded last
  m_fp,    \* the file that is open, by what it is named after
  m_lock,  \* who holds the mutex
  at,      \* at[t]: where thread t is inside the logger, "out" when it is not
  handles, \* how many files are open
  failed,  \* did the last CreateHourLog fail
  lost,    \* was an entry dropped since
  lines    \* what the files hold: [file, stamp]

tmVars   == <<tm, local_tm, left>>
timeVars == <<clock, tmVars, now>>
fileVars == <<m_fp, handles, failed>>
linesVars == <<lost, lines>>
logVars  == <<timeVars, m_nHour, fileVars, m_lock, at, linesVars>>

At == {"out", "convertHour", "copyHour", "record", "close", "open", "opened",
       "convert", "copy", "append"}

Reading == Hour \cup {NULL}
Nothing == [f \in Field |-> NULL]

LogTypeOK ==
  /\ clock \in Hour
  /\ tm \in [Field -> Reading]
  /\ local_tm \in [Thread -> [Field -> Reading]]
  /\ left \in [Thread -> SUBSET Field]
  /\ now \in [Thread -> Reading]
  /\ m_nHour \in [Field -> Hour] \cup {NULL}
  /\ m_fp \in [Field -> Hour] \cup {NULL}
  /\ m_lock \in Thread \cup {NULL}
  /\ at \in [Thread -> At]
  /\ handles \in Nat
  /\ {failed, lost} \subseteq BOOLEAN
  /\ lines \subseteq [file : [Field -> Hour], stamp : Hour]

LogInit ==
  /\ clock = 0
  /\ tm = Nothing
  /\ local_tm = [t \in Thread |-> Nothing]
  /\ left = [t \in Thread |-> Field]
  /\ now = [t \in Thread |-> NULL]
  /\ m_nHour = NULL
  /\ m_fp = NULL
  /\ m_lock = NULL
  /\ at = [t \in Thread |-> "out"]
  /\ handles = 0
  /\ failed = FALSE
  /\ lost = FALSE
  /\ lines = {}

Tick ==
  /\ clock < MaxHour
  /\ clock' = clock + 1
  /\ UNCHANGED <<tmVars, now, m_nHour, fileVars, m_lock, at, linesVars>>

Goto(t, from, to) == at[t] = from /\ at' = [at EXCEPT ![t] = to]

\* system_clock::now().
ReadClock(t) == now' = [now EXCEPT ![t] = clock] /\ UNCHANGED <<clock, tmVars>>

-------------------------------------------------------------------------------
(* CreateLog *)

\* The call: nothing is done when logging is off.
CreateLog(t) ==
  /\ Goto(t, "out", IF LoggingEnabled THEN "convertHour" ELSE "out")
  /\ IF LoggingEnabled THEN ReadClock(t) ELSE UNCHANGED timeVars
  /\ UNCHANGED <<m_nHour, fileVars, m_lock, linesVars>>

\* Field f is dealt with; after the last one thread t goes on.
OneField(t, f, from, to) ==
  /\ at[t] = from /\ f \in left[t]
  /\ IF left[t] = {f}
     THEN at' = [at EXCEPT ![t] = to] /\ left' = [left EXCEPT ![t] = Field]
     ELSE at' = at /\ left' = [left EXCEPT ![t] = @ \ {f}]

\* std::localtime, called by CreateLog and by WriteLog, writes the next field.
localtime(t) ==
  /\ \E f \in Field :
       /\ OneField(t, f, "convertHour", "copyHour") \/ OneField(t, f, "convert", "copy")
       /\ tm' = [tm EXCEPT ![f] = now[t]]
  /\ UNCHANGED <<clock, local_tm, now, m_nHour, fileVars, m_lock, linesVars>>

\* The caller copies the next field of what it points to.
CopyResult(t) ==
  /\ \E f \in Field :
       /\ OneField(t, f, "copyHour", "record") \/ OneField(t, f, "copy", "append")
       /\ local_tm' = [local_tm EXCEPT ![t][f] = tm[f]]
  /\ UNCHANGED <<clock, tm, now, m_nHour, fileVars, m_lock, linesVars>>

\* The call's own reading and copy are gone with it.
Forget(t) ==
  /\ now' = [now EXCEPT ![t] = NULL]
  /\ local_tm' = [local_tm EXCEPT ![t] = Nothing]
  /\ UNCHANGED <<clock, tm, left>>

needNewLog(t) ==
  \/ m_nHour = NULL
  \/ \E f \in Field : Calendar[m_nHour[f]][f] # Calendar[local_tm[t][f]][f]

\* (mutants: a new hour is never recorded; the copy is recorded before it was made)
RecordHour_Skips(t) ==
  /\ Goto(t, "record", IF m_nHour = NULL THEN "close" ELSE "out")
  /\ m_nHour' = IF m_nHour = NULL THEN local_tm[t] ELSE m_nHour
  /\ Forget(t)
  /\ UNCHANGED <<fileVars, m_lock, linesVars>>

RecordHour_TooSoon(t) ==
  /\ at[t] \in {"copyHour", "record"}
  /\ at' = [at EXCEPT ![t] = IF needNewLog(t) THEN "close" ELSE "out"]
  /\ m_nHour' = IF needNewLog(t) THEN local_tm[t] ELSE m_nHour
  /\ Forget(t)
  /\ UNCHANGED <<fileVars, m_lock, linesVars>>

\* The hour is recorded before its file is there, and stays recorded if that fails.  To
\* record the values that are recorded already changes nothing.
RecordHour(t) ==
  /\ Goto(t, "record", IF needNewLog(t) THEN "close" ELSE "out")
  /\ m_nHour' = IF needNewLog(t) THEN local_tm[t] ELSE m_nHour
  /\ Forget(t)
  /\ UNCHANGED <<fileVars, m_lock, linesVars>>

closeLog ==
  /\ m_fp' = NULL
  /\ handles' = IF m_fp = NULL THEN handles ELSE handles - 1

\* (mutants: the lock is given back between the two files; the old file stays open)
CloseOldLog_Unlocks(t) ==
  /\ m_lock = NULL
  /\ Goto(t, "close", "open")
  /\ closeLog
  /\ UNCHANGED <<timeVars, m_nHour, failed, m_lock, linesVars>>

CloseOldLog_Leaves(t) ==
  /\ m_lock = NULL
  /\ Goto(t, "close", "open")
  /\ m_lock' = t
  /\ UNCHANGED <<timeVars, m_nHour, fileVars, linesVars>>

\* The old file is closed; the lock is kept until the new one is open.
CloseOldLog(t) ==
  /\ m_lock = NULL
  /\ Goto(t, "close", "open")
  /\ m_lock' = t
  /\ closeLog
  /\ UNCHANGED <<timeVars, m_nHour, failed, linesVars>>

\* (mutant: "Opened Sip Server Log" is written before the lock is given back)
CreateHourLog_KeepsLock(t) ==
  /\ Goto(t, "open", "opened")
  /\ \E ok \in BOOLEAN :
       /\ failed' = ~ ok
       /\ m_fp' = IF ok THEN m_nHour ELSE NULL
       /\ handles' = IF ok THEN handles + 1 ELSE handles
  /\ lost' = FALSE
  /\ UNCHANGED <<timeVars, m_nHour, m_lock, lines>>

\* mkdir three times, then fopen: any of them may fail.
CreateHourLog(t) ==
  /\ Goto(t, "open", "opened")
  /\ \E ok \in BOOLEAN :
       /\ failed' = ~ ok
       /\ m_fp' = IF ok THEN m_nHour ELSE NULL
       /\ handles' = IF ok THEN handles + 1 ELSE handles
  /\ lost' = FALSE
  /\ m_lock' = NULL
  /\ UNCHANGED <<timeVars, m_nHour, lines>>

-------------------------------------------------------------------------------
(* WriteLog; CreateLog ends with a call of it when it has changed the file. *)

CanCall(t) == at[t] \in {"out", "opened"}

\* (mutant: WriteLog takes no lock)
WriteLog_NoLock(t) ==
  /\ CanCall(t)
  /\ IF m_fp = NULL
     THEN /\ lost' = TRUE
          /\ at' = [at EXCEPT ![t] = "out"]
          /\ UNCHANGED timeVars
     ELSE /\ at' = [at EXCEPT ![t] = "convert"]
          /\ ReadClock(t)
          /\ UNCHANGED lost
  /\ UNCHANGED <<m_nHour, fileVars, m_lock, lines>>

\* Without a file the entry is dropped, and kFailure returned, which no caller reads.
WriteLog(t) ==
  /\ CanCall(t)
  /\ m_lock = NULL
  /\ IF m_fp = NULL
     THEN /\ lost' = TRUE
          /\ at' = [at EXCEPT ![t] = "out"]
          /\ UNCHANGED <<timeVars, m_lock>>
     ELSE /\ m_lock' = t
          /\ at' = [at EXCEPT ![t] = "convert"]
          /\ ReadClock(t)
          /\ UNCHANGED lost
  /\ UNCHANGED <<m_nHour, fileVars, lines>>

\* (mutant: the lock is not given back after the write)
Append_KeepsLock(t) ==
  /\ Goto(t, "append", "out")
  /\ lines' = lines \cup {[file |-> m_fp, stamp |-> local_tm[t]["hour"]]}
  /\ Forget(t)
  /\ UNCHANGED <<m_nHour, fileVars, m_lock, lost>>

\* The entry shows the hour that was copied.
Append(t) ==
  /\ Goto(t, "append", "out")
  /\ lines' = lines \cup {[file |-> m_fp, stamp |-> local_tm[t]["hour"]]}
  /\ m_lock' = NULL
  /\ Forget(t)
  /\ UNCHANGED <<m_nHour, fileVars, lost>>

-------------------------------------------------------------------------------
\* ~Clogger closes the file without the lock.
DeleteLog ==
  /\ closeLog
  /\ UNCHANGED <<timeVars, m_nHour, failed, m_lock, at, linesVars>>

\* What a thread that is inside the logger does next.
InLogger(t) ==
  \/ localtime(t) \/ CopyResult(t) \/ RecordHour(t) \/ CloseOldLog(t) \/ CreateHourLog(t)
  \/ at[t] = "opened" /\ WriteLog(t)
  \/ Append(t)
===============================================================================
