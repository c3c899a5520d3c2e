# Verification of sip-b2bua-proxy

The program is a SIP proxy in C++: one worker thread receives datagrams on UDP
port 5060, keeps one session per Call-ID and passes every message of a call to
the call's other party; the callee is always 127.0.0.1:5061. This directory
models it in TLA+, checks the models with TLC and proves what matters most with
TLAPS. Paths below are relative to the repository.

## 1. The system

| part | state | operations | interacts with |
|---|---|---|---|
| `SIPServer`, message handling (`src/sip_server.cpp` 162-620) | the session table; `logMsg` | `processSipMessage` and one handler per method | parser, session manager, socket, log |
| `CallSessionManager` (`src/call_session_manager.cpp`) | map Call-ID to `CallSession`, under `m_mutex` | add, get, remove, has | called by the handlers; hands out pointers into the map |
| `CallSession` (`src/call_session.cpp`) | caller, target, state | `isCaller` | written by the handlers through the pointer |
| `SIPParser` (`src/sip_parser.cpp`) | the raw text and its first word | method, status line, header lookup | one object per datagram |
| `UDPSocket` (`src/udp_socket.cpp`) | file descriptor, addresses | open and bind, send, receive, close | kernel |
| `SIPServer`, life cycle (`src/sip_server.cpp` 4-160) | `m_bStopped`, `m_bStarted`, pointers to socket and log | constructor, `Start`, `run`, `Stop`, `DeleteMemory` | main thread and worker share the object without a lock |
| `Thread` (`src/thread.cpp`) | `m_thread`, `m_started` | `start`, `process`, destructor; `join` and `detach` have no caller | pthreads |
| `Clogger` (`src/logger.cpp`) | hour of the open file, `m_fp`, `m_lock` | `CreateLog` once per loop, `WriteLog` | worker and main |
| `main` (`src/main.cpp`) | `mSipServer`, `started` | start, one-second loop, clean up; the signal handler clears `started` | signals |
| test calls (`README.md`, `test_Call/*.xml`) | position in a SIPp script | send, recv, retransmit | the proxy, over loopback |

What is hard: datagrams are lost, repeated and reordered, and the handlers react
to each with no timer and almost no check of the session's state; the proxy
answers INVITE and CANCEL itself and forwards the callee's answers as well; the
session must outlive BYE until its answer; a datagram is cut at the size of the
buffer and at its first NUL and handled all the same; the worker pauses 100 ms per
datagram, so that its socket overflows; it starts before the flag it tests is set,
blocks in `recvfrom` without a limit, and is never joined; the log changes its file
only half under its lock, with a time taken from an object all threads share; errors
in constructors are swallowed. What makes each part correct:

- handlers and table: a live call keeps its two parties; messages of a call go to
  its parties only and unaltered; a session ends exactly by passing the ending
  response on; calls do not interfere; caller and callee agree on the outcome;
- parser and buffer: header lookup finds what the sender meant, when the sender spells the
  names the way the parser does, and the answers built from any text say what the handlers
  mean;
- life cycle: the server serves once it is started, a failed start ends the
  program, a signal always ends it, everything is released once and not while
  the worker still uses it;
- log: one file at a time; no entry in a file of a later hour than its own, none lost in
  a rotation; the hour only advances and is one hour, not a mix of two, and the next pass
  picks it up; no call that hangs;
- test calls: the scripts run to their end, also under load, and no session is left.

`PROJECT.json` lists the hazards one by one, at the line where each bites.

## 2. The modules

    SIPMessage            datagrams as the handlers see them
      CallSessionManager    the session table
        SIPServer             one action per handler; any message
          SIPDatagram           + SIPParser: any text, buffer to sendto
          |  implements SIPServer
            SIPSender             + what a sender writes, in many layouts
          SIPCall               + callers, callee, unreliable network
          |  implements CallRelay    the promise: a relay of open calls
          CallScript            + SIPp scripts over loopback FIFOs
            LoadTest              + a full socket and retransmission
    Lifecycle             main, signals, Start/run/Stop/delete
    Clogger               the log file
      ServerLog             + main and the worker as its users
    SIPServerProofs, SIPParserProofs, SIPDatagramProofs, SIPCallProofs,
    CallScriptProofs, LoadTestProofs, LifecycleProofs, ServerLogProofs    theorems
    MCSIPServer, MCSIPCall, MCTwoCallers, MCCallScript, MCLoadTest,
    MCServerLog    instances for TLC

**SIPMessage.** A message is a request (method and the method its CSeq names) or a
response (the *set* of status codes whose text occurs in the status line, because the
code calls `statusLine.find("180")` on the whole line, and the method of CSeq). A Call-ID
is whatever `getHeader("Call-ID")` returned, so the empty string of a message without
that header is simply one more Call-ID. `build100Trying` and `build_200_OK` copy
Call-ID and CSeq.

**CallSessionManager.** `m_sessions` is a total function from Call-IDs to a
session or `NoSession`. Every method of the class runs under its mutex and is one
step. A handler writes the state through the pointer it got (`setState`).

**SIPServer.** One datagram is one step: there is one worker, and what the
handlers share with other threads is only the socket and the log. `sent` is what the
step handed to `UDPSocket::send`, in program order. The if-else chain over the
status line (lines 223-268) is one action per branch, each with the negation of the
earlier conditions. `ServerSpec` leaves the environment open: any message, from
any address, at any time.

**SIPParser, SIPDatagram.** A text is a sequence of tokens: blanks, line ends, colons and
words, which are told apart but not looked into. The parser's functions are operators on
it: lines as `getline` finds them, the first line anywhere that begins with the name and a
colon, `trim`, the words `>>` reads. `SIPDatagram` is the pass of the loop around the
handlers: `recvfrom` into a buffer (`Limit`), the end at the first NUL, `Parsed`, the
handler, and the *text* that goes out: the received one, or an answer put together from
its headers (`wire`).

**SIPSender** is the other side of the parser: messages somebody means, and the texts they
are written down as, with any line ends, blanks, other headers and body, and with the two
names `getHeader` looks for spelled its way (`Call-ID:`, `CSeq:`) or as SIP lets a sender
spell them: in another case, compact (`i:`), with blanks before the colon. It has no steps;
it is what `AgreesWithSender` compares the worker's understanding with. No sender of the
model folds a value over two lines; such a text is among those `SIPDatagram` is given as
they are.

**SIPCall.** The network is the set of all datagrams ever sent; one that is in it
may be received now, later, again or never. That covers loss, duplication,
reordering and SIP's own retransmission. The caller and the callee are small state
machines after the flows of `README.md` and `test_Call`; either may hang up and the
callee may refuse. `Emit` is an endpoint sending, `run` is the worker. Endpoints send
well-formed messages, in which CSeq repeats the method (`Proper`).

**CallRelay** is the abstract specification: a call is closed, or open between
one caller and the callee; what a party of an open call sends is passed on
unchanged to the other; a call closes only in the step that passes an ending message
on; the proxy's own answers go only to the caller. It has no handlers, states or
SIP methods. The refinement mapping (`Relay` in SIPCall) reads a session as an
open call of its `caller`; the session's state has no counterpart, which says that
nothing the proxy *does* depends on it.

**CallScript** reuses the handlers with FIFO queues, which is what two sockets on
one host are, and two processes that play a SIPp script: send at once, skip an
optional receive when a later one matches, give up on anything unexpected. The
script of `uac_cancel.xml` and `uas_delay.xml` is line for line that of the files;
`sipp -sn uac` and `sipp -sn uas` are SIPp's own and marked external.

**LoadTest** adds what happens when calls come faster than the proxy's pause of 100 ms
allows: the socket of port 5060 holds `Capacity` datagrams and the kernel drops the rest.
SIPp repeats what its scripts mark for it (INVITE, BYE, 200 for INVITE) and answers a
repeated message as it did the first time; an optional message that comes too late is
dropped. SIPp is external and modelled from what the scripts rely on: it reads its sockets
at once, so that nothing is lost on the way *from* the proxy, and within the 500 ms of its
first timer, so that `Retransmit` waits for empty mailboxes.

**Lifecycle** has one action per access to shared state. Sleeps are steps of
arbitrary length; with `SleepSuffices` the 200 ms in `Stop` are taken to be enough
for every worker that is not blocked in `recvfrom`. After `delete` the worker's use
of the memory is undefined: it goes on with whatever is there, or it gets SIGSEGV,
whose handler returns to the faulting instruction. A signal may be delivered to
the worker and make `recvfrom` return EINTR (there is no `SA_RESTART`). Corruption
of the heap by such a use is not modelled. The bools are not atomic, but the
Makefile builds without optimisation, so that every pass reads memory. `m_started` and
`handle` are those of `Thread`: the destructor detaches what was started.

**Clogger, ServerLog.** One action per access to what threads share: reading the clock;
`std::localtime`, which writes the fields of one static `struct tm` one by one
(`localtime`), and the caller's copy of them, one by one as well (`CopyResult`), in any
order and interleaved with what the other thread does to the same fields; recording date
and hour (without the lock), closing the old file (taking the lock), opening the new one
(which may fail, and gives the lock back), `WriteLog` under the lock. The model keeps of a
field which reading of the clock it comes from; `Calendar` says what its value is then,
which is what `needNewLog` compares. Four members of the class (`m_nYear` to `m_nHour`) are
one record of fields here. They are written and read by one thread at a time, as `OneRotates`
in the proofs says. `MCServerLog` has two of the fields, hour and day: year and month only
ever change together with the day. No hour repeats, which says that local time does not go
back; when a clock is set back or summer time ends, the file of an earlier hour is opened
again for appending, and that is not modelled. The level test of `WriteLog` lets every
entry through: levels 0, 10 and 40 are used and the limit is 40. `ServerLog` adds the two
users in the order of `Start`, `run`, `Stop` and `DeleteMemory`. It stops with the deletion
of the log: what the worker does to a deleted log is the subject of `Lifecycle`.

Definitions marked `(mutant: ...)` stand before the definition they are a faulty
version of. They are not used; replacing the definition by the mutant makes TLC
find the property violated that `PROJECT.json` names with it.

## 3. The runs

No run switches deadlock checking off: the proxy always has a next datagram to
take, and where a system really comes to rest (`Idle`, `LoadOver`, `Exited`) it stutters.

| run | what it asks | bounds and size | result |
|---|---|---|---|
| `any_input` | buffer, parser and handlers under any text | 2 Call-IDs (one empty), 3 addresses, every message in 8 layouts, two of them cut and three with names spelled otherwise, and 4 odd texts, a folded Call-ID among them; buffer of 40 tokens; 128 688 states | holds |
| `one_call` | table, relay and refinement | 1 call, 1 caller, callee; exhaustive, 4 306 states | holds |
| `two_callers` | cross-talk and agreement | 2 Call-IDs, 2 callers that may use either; states with at most 7 datagrams to the proxy (`MaxDatagrams`); 178 032 states | holds |
| `test_calls` | README's call and the cancelled call, concurrently, with liveness | scripts; 2 519 states | holds |
| `load` | two of README's calls at once with loss and retransmission, with liveness | socket of 2 datagrams; 98 372 states | holds |
| `cancel_test` | `uac_cancel.xml` as it is | 1 call | **violated** |
| `cancel_test_with_100` | the same with 100 allowed | 1 call | **violated** |
| `lifecycle` | start, stop, exit | finite as it stands, 351 states | holds |
| `log` | the log under both threads, with liveness | 3 hours (`MaxHour` 2) with a midnight between the last two, the fields hour and day, at most 2 entries per datagram; 79 304 states | holds |
| `start_race`, `bind_fails`, `shutdown` | one promise each | as `lifecycle` | **violated** |

Why the bounds are enough. Handlers look at one Call-ID and at the addresses of one
session and one datagram, so two calls and three addresses have every case of
same or different. The layouts differ in what the parser looks at: CRLF or LF, blanks
around a value, a header that ends with another's name or quotes it, a body that repeats
headers, a cut behind the Call-ID by length and by NUL, a name in another case, compact or
with a blank before its colon. In `one_call` nothing is bounded:
the endpoints send finitely many different messages and repetition is in the network. In
`two_callers` a full answered call needs three datagrams to the proxy and a cancelled one
five, so seven allow one complete call to meet the beginning of another with the same or
another Call-ID. In `load` a socket of two is full as soon as both calls send, so that each
message of either is lost in some run. In `log` three hours allow a rotation whose file
cannot be opened to be followed by one whose file can, and both kinds of change, of the hour
alone and of hour and day. What the bounds of `any_input`,
`two_callers`, `test_calls`, `load` and `log` cut off is covered by the proofs of their
safety properties.

What the properties say:

- `PartiesFixed`, `ClosedByForwarding`, `OneCallPerStep`: what no input can do to the
  table;
- `AgreesWithSender`: a message whose sender writes `Call-ID:` and `CSeq:` exactly so is
  understood, whatever line ends and blanks follow and whatever other headers and body say;
  cut behind its Call-ID, it is still the same request or response of the same call. SIP
  allows more: a Call-ID under a name in another case, under the compact name or with a
  blank before the colon is not found (`src/sip_parser.cpp` 63), and of such a message the
  property says what the code makes of it, one without Call-ID. It then shares the session
  of all messages without Call-ID. The repository says nothing of spellings; its scripts
  use the one that is understood;
- `WireMeansSent`: what goes out, read by the same parser, is the message the handler
  meant; this is where an answer built from the headers of a malformed text could turn
  into something else;
- `OnlyPartiesAreSent`, `NothingInvented`: where messages go and where they come from;
- `StateIsJustified`: the state shown for a call rests on a message really sent in it
  (it may be out of date, as reordering takes it back, but never made up);
- `ForgottenOnlyWhenTold`: a call known to the proxy and not in its table had its end
  passed on;
- `OutcomeAgreement`: a caller that thinks answered, cancelled or refused is right about
  the callee. This is where the proxy's own 200 for CANCEL and the crossing of CANCEL
  and 200 could go wrong;
- `IsARelay`: SIPCall implements CallRelay;
- `NothingUnexpected`, `CallsComplete`: the test calls run to their end, and the
  table is then empty for good; in `load`, whatever is lost and repeated;
- `QuietMeansComplete`: the same without time. When nothing is under way and nobody has
  anything to send, every script is played and every session removed: two processes never
  wait for each other, nor one for a message that was dropped;
- `SessionOutlivesCall`: under load, a session is gone only when the final answer has
  reached the caller;
- `MainUsesLiveServer`, `ReleasedAtExit`, `NoCrashBeforeCleanup`, `ExitsOnSignal`:
  exactly one release on every path, no use before creation, and a signal ends the
  process although the worker may never wake. With a `join` in `Stop` the last would
  fail (the mutant);
- `OneFileOpen`, `NoEarlyEntry`, `LostOnlyAfterFailure`: files and entries of the log.
  `NoEarlyEntry` compares every field a file is named after with the hour of its entries;
- `HourNeverGoesBack`: no field of the recorded date and hour is replaced by one that was
  read earlier. This holds although it is recorded without the lock and copied from the
  static result of `localtime`: a thread that could overwrite a field with an older one
  holds the lock, and there is one thread that rotates. It does not say that the fields come
  from one reading: while `Stop` writes its entry, a pass at midnight can copy the new hour
  and the old day (or the old hour and the new day) and so record, and name a file after,
  an hour that is a day past (or to come). The next pass corrects it;
- `OneHourWhileServing`: until then that cannot happen. Only one thread at a time is in the
  log, and what is recorded is one hour, so that it is the hour that never goes back;
- `CallsReturn`, `StopReturns`, `PicksUpHour`: no call of the log hangs (`CreateLog` calls
  `WriteLog`, with a mutex that is not recursive), the log does not keep the process from
  ending from the call of `Stop` on, whose first entry already waits for the mutex, and a
  pass in a new hour changes the file before it waits.

### Findings

1. The proxy's 100 Trying (line 341) breaks the project's own cancel test, whose
   caller insists on 180 first.
2. The caller gets two 200s for one CANCEL, the proxy's (line 538) and the
   callee's; the test expects 200, then 487.
3. `Start` creates the worker before it clears `m_bStopped` (lines 115-121): the
   worker can end at once while the program seems to run.
4. `UDPSocket`'s constructor swallows its own failure, so `Start` succeeds without
   a bound socket.
5. `Stop` does not join the worker; a datagram during shutdown is handled with deleted
   objects. The worker is blocked in `recvfrom`, where `close` does not wake it, and the
   datagram has to come between the deletion and the end of the process.

### Fairness

SIPCall and SIPDatagram have none: all their properties are safety. In CallScript,
`WF(run)`: the worker's loop has no exit while the program runs and blocks only on an empty
socket; and weak fairness of each SIPp process, which reads its socket and plays its script
as long as something is there. LoadTest has the same, and strong fairness of a
retransmission that finds room in the socket: SIPp's timers grow from 500 ms to 4 s and are
not in step with the worker's pauses, so that a message repeated for ever does not find the
socket full each time. (SIPp gives up after a number of repetitions; the property is about
calls for which it does not come to that.) In Lifecycle, weak fairness of each thread, as
the scheduler gives it; none for datagrams (`Receive`) or signals, which nothing forces to
come. In ServerLog the same, with the call of `Stop` left to a signal (`StopCalled`), and strong
fairness of the entries that `Stop` and the end of the program begin with (`StopBegins`,
`WriteEnd`), for which main needs a mutex that the worker takes again and again but leaves
alone for 100 ms in every pass.

## 4. What is proved

For every value of the constants. The assumptions: the target is an address, each code
occurs alone in some status line, `NoSession` is neither a session nor an address; every text
in `Datagram` is a non-empty sequence of strings and parses to a message of the model; a
sender's first line and Call-ID are one line with nothing to trim, the first line names the
method or shows the codes that are meant, and a layout ends its lines with LF or CRLF, has
one token and perhaps blanks before the colon of its two names, blanks around the values,
and no earlier line that gives the same header; the SIPp caller has an address other than the
target's, each call of CallScript plays one of the four scenarios, in LoadTest the basic
one, and the socket holds something; `NULL` is no hour, no thread and no record of hours,
the hour is one of the fields of `struct tm`, and two hours differ in some field.

- `SIPServerProofs`. Two lemmas carry everything: `TableStep` (what a datagram can do to
  the session of a Call-ID: nothing, create, change the state with the parties kept,
  or remove it after an ending response) and `SendsStep` (what the proxy may send for a
  datagram). From them `ServerTyping`, `PartiesStayFixed`, `CallsDoNotInterfere`,
  `SessionsEndByForwarding`.
- `SIPParserProofs`. Lemmas for texts of any length: where a line ends, what `trim` leaves,
  which lines of a concatenation are header lines. They end in `HeaderIsUnderstood`:
  `getHeader` returns the value its sender wrote, behind any lines without that header, with
  any blanks around the value, and with anything behind it, a second header of that name
  and a body included. The last section is about texts put together and cut: what is in
  neither part of a text is not in the whole, and a cut leaves a beginning.
- `SIPDatagramProofs`. `TextIsHandledAsMessages`: `RawSpec => ServerSpec`, so that the four
  theorems above hold for any set of texts and any size of the buffer. A datagram maps to
  the handler of what it parses to, the pause at the end of a pass to a message without a
  handler. `WireIsWhatWasMeant`: a text that is passed on is the text received; an answer is
  built line by line, and `FieldAdded` says that a line with a trimmed value of one line
  leaves the headers before it as they are and adds its own. The values come from
  `getHeader`, which returns such values for any text, empty ones included. It needs no
  invariant but typing, and nothing of how the received text is laid out.
  `SendersAreUnderstood` is the converse, and a statement about the operators, which no step
  can change. `UpToCallIDIs`: the first line and the Call-ID of a written text are read as
  they were meant, whatever follows; so they survive any cut behind them (`CutBehind`).
  `RestIs` and `CSeqIs` add the CSeq of a text that was not cut, and `KindIs` that first
  line, Call-ID and CSeq make up the message. For a layout with another spelling
  `HeaderLineMissed` says that its header line is none to the parser, so that no Call-ID is
  found when the rest of the text has no such line; the theorem promises no more of it.
- `SIPCallProofs`. `Typing`; then, over it,
  `NoCrossTalk`: `OnlyPartiesAreSent` is not inductive, as it says nothing of whom the
  table will send to next. `SessionsInvited` adds that a session's caller has an INVITE
  of that call in the network and that its target is the callee (`PartyInv`).
  `RelaysFaithfully`: `NothingInvented` is inductive with typing.
  `EndsAgree`: `OutcomeAgreement` needs `AnswersAreTrue` (if a 200, 486 or 487 for
  an INVITE is in the network, the callee's state shows it for good) and
  `NothingInvented`, by which such an answer, once it has reached a caller, comes from
  the network and not from the proxy.
  `NeverForgottenInSilence`: inductive with typing and the two step lemmas.
  `ProxyIsARelay`: `Spec => IsARelay`. An endpoint's step is an arrival;
  each handler is an opening, a relaying or a closing of CallRelay or a stutter
  (`RunIsRelayStep`, one case per handler), which needs `PartyInv` for the callee's
  address. `ShownStateWasReal`: `StateIsJustified` needs `OnlySaid` (the network holds only
  what endpoints say), as a status line of several codes could otherwise show a state
  nobody claimed.
- `CallScriptProofs`. `ScriptTyping`, for any calls of any mix of scenarios.
  `NothingUnexpected` speaks of positions in scripts only, and what may arrive next depends
  on four queues. The invariant `FlowInv` of a call speaks of one more thing: `h`, the lines
  of each process whose datagrams the proxy has handled. Given `h` and the two positions,
  everything else is determined. `Causal`: lines are handled in order and after they were
  sent, and a line that receives is passed only after the line that brings its message
  (`Cause`) was handled. `Queues`: what is sent and not handled is in the proxy's socket,
  what has arrived and is not read is in the mailbox, each once and in the order of the
  script. `SessionThere`: the session lasts from the INVITE to the ending response. Two 200s
  for one CANCEL are told apart by the lines they are for. The tables `Cause`, `ByProxy` and
  `LastLine` are all that differs between the two kinds of call that fit the proxy (`Fits`):
  the answered one, and the cancelled one whose caller allows for the 100 and the second
  200. `CallsFlow` is the invariant, for such calls among any others;
  `FittingCallsAreExpected` and `FittingCallsComplete` follow for each of them, and
  `NothingUnexpectedHappens` and `NobodyWaitsInVain` when all calls are of these kinds. The
  last rests on `QuietCallIsOver`: with empty queues, `h` and what has arrived are decided
  by the positions, and at every pair of positions but the last somebody has something to
  send or to read.
- `LoadTestProofs`. Under loss and repetition order is gone, and a message may arrive again
  whose line has been passed. What is left is that neither process is ahead of what the
  other has sent (`PosInv`), that a session has these two as its parties (`SessionInv`), and
  that what waits was sent (`SentInv`). What makes a repeated message harmless is what SIPp
  remembers (`CallerMemory`, `CalleeMemory`): from its ACK on the caller answers a repeated
  200 for the INVITE with the ACK, so that it never takes it for the 200 of its BYE, which
  its script would let it do. From this `LoadTyping` and `NothingUnexpectedUnderLoad`.
  `SessionsOutliveCalls` needs `KeptInv`, which says the same from the moment the INVITE was
  passed on, as the property begins only when the callee has read it.
- `LifecycleProofs`. The properties speak of a few program points, so the invariant says at
  each one what exists: `ServerIsHeld` (main's pointer is set exactly while there is a
  server), `PartsExist` (socket and log, each until it is deleted) and `WorkerIsStarted`
  (there is a worker exactly if `Thread::start` succeeded, and it has not crashed before
  something was deleted). From it `LifecycleTyping`, `NoDoubleDelete`,
  `WorkerIsSafeWhileServing`, `EverythingIsReleased`, for either value of `SleepSuffices`.
- `ServerLogProofs`. `MainRotatesFirst` says that one thread at a time is in `CreateLog`:
  main until it has started the worker, the worker from then on. `LockHeld` ties the mutex
  to the program counters. A call is described field by field: what it has written
  (`Converted`) and what it has copied (`Copied`). `FreshForFile` says that a field on its
  way into an entry is not older than anything the open file is named after,
  `FreshForRecord` that one on its way into the recorded hour is not older than what it
  replaces, through whichever thread it comes; both hold because whoever has such a reading
  for an entry holds the mutex and keeps the rotation waiting. From them `LogTyping`,
  `OneFileAtATime`, `EntriesAreNotEarly` and `HourAdvances`; `FileIsThere` (no file means a
  failure or a rotation under way) gives `RotationLosesNothing`; `OwnReading` (until `Stop`
  writes, a call finds in the static result what it wrote there itself) gives
  `HoursAreWholeWhileServing`. All of it for any set of fields and any calendar.

Only model-checked is the liveness (`CallsComplete`, `ExitsOnSignal`, `CallsReturn`,
`StopReturns`, `PicksUpHour`): the prover does not handle fairness. Every safety property and
action property of the passing runs is stated by a theorem. The theorems about scripts are
about the calls that fit the proxy; with those of the project's own cancel test
`NothingUnexpected` is false (see the findings).

## 5. Not modelled

- Wording of log and console output, and the length of an entry; the date in a file's name.
- Letters inside a token: a cut inside a word gives some other word, which is a datagram of
  another call or no known method and covered as such.
- A value folded over two lines by its sender: `getHeader` takes the rest of the first line,
  which a Call-ID folded behind its name leaves empty (one such text is in `any_input`).
- A clock that is set back, and the end of summer time.
- Code without a caller: `debug_testing`, `parseRequestURI`, `m_headers`, `Thread::join`,
  `detach`, `exit` and the priorities, `UDPSocket::isData`, `getLocalIP`, `unBlockSocket`
  and the constructor with an address, `Clogger::CreateLog(channelId)`, its second
  constructor, `SetLoggingEnabled`, `SetDataPath`, `SetDebugLevel`.
- A session without an end: an INVITE repeated after the end of its call, and a refused call,
  stay in the table. The models have the behaviour; the repository states nothing it breaks.
- `test_Call/proxy.cpp`, which is not built; RTP and Redis, which `README.md` names and the
  repository does not contain.
