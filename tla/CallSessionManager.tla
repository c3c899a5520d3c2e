-------------------------- MODULE CallSessionManager --------------------------
(***************************************************************************)
(* The session table: one CallSession per Call-ID.  Every method runs under *)
(* m_mutex, so each is one step.  getSession hands out a pointer into the   *)
(* map; here it is the record the pointer leads to, and NoSession is the    *)
(* null pointer.                                                           *)
(***************************************************************************)
EXTENDS SIPMessage

CONSTANT NoSession

VARIABLE m_sessions

SessionState == {"INIT", "INVITE_SENT", "RINGING", "CONNECTED",
                 "CANCELLING", "TERMINATING", "TERMINATED"}

CallSession == [caller : Addr, target : Addr, state : SessionState]

ASSUME NoSessionAssumption == NoSession \notin CallSession \cup Addr

SessionsTypeOK == m_sessions \in [CallID -> CallSession \cup {NoSession}]

SessionsInit == m_sessions = [c \in CallID |-> NoSession]

\* (mutant: the lookup stops at the first entry of the table)
getSession_First(c) ==
  IF m_sessions[c] = NoSession THEN NoSession
  ELSE m_sessions[CHOOSE d \in CallID : m_sessions[d] # NoSession]
getSession(c) == m_sessions[c]
hasSession(c) == m_sessions[c] # NoSession

\* (mutants: a repeated INVITE replaces the session; the source address is not kept)
addSession_Overwrites(c, session) == m_sessions' = [m_sessions EXCEPT ![c] = session]
addSession_NoCaller(c, session) ==
  m_sessions' = [m_sessions EXCEPT ![c] = [session EXCEPT !.caller = NoSession]]

\* A second session for a live Call-ID is refused: the first one stays.
addSession(c, session) ==
  m_sessions' = IF hasSession(c) THEN m_sessions
                ELSE [m_sessions EXCEPT ![c] = session]

\* (mutant: clear() for erase(callID))
removeSession_Clears(c) == m_sessions' = [d \in CallID |-> NoSession]
removeSession(c) == m_sessions' = [m_sessions EXCEPT ![c] = NoSession]

\* A handler writes the state through the pointer getSession gave it.
setState(c, state) == m_sessions' = [m_sessions EXCEPT ![c].state = state]

isCaller(session, a) == a = session.caller

\* (mutant: no direction check)
OtherParty_Target(session, a) == session.target

\* Whom a message of this call that came from a is forwarded to.
OtherParty(session, a) ==
  IF isCaller(session, a) THEN session.target ELSE session.caller
===============================================================================
