---------------------------- MODULE PdpSessions ----------------------------
(***************************************************************************)
(* The PDP session layer of the modem manager                              *)
(* (src/src/general/app/modem_manager/modem_pdp.cpp).                      *)
(*                                                                         *)
(* Two FreeRTOS tasks share a table of UDP sessions.  The client (the      *)
(* cloud-comms task) calls request_session, close_session and send_data;   *)
(* the modem task runs process_sessions, which turns the requests of a     *)
(* queue of table pointers into AT commands, forwards the pending send     *)
(* buffer and hands incoming datagrams to the receive callback.  A mutex   *)
(* protects the table.  The modem task keeps it over whole AT dialogues,   *)
(* so these are several steps here; a client's critical section never      *)
(* waits for the modem and is one step.                                    *)
(***************************************************************************)
EXTENDS Integers, Sequences

CONSTANTS
    MaxSessions,  (* MODEM_PDP_MAX_SESSIONS: table entries, queue capacity *)
    Addrs,        (* remote addresses a client may ask for (one UDP port)  *)
    NoAddr,       (* an unused configuration, a closed modem socket        *)
    MaxBuffered   (* bound: datagrams the modem buffers for a socket       *)

ASSUME ConstantsAssumption ==
    /\ MaxSessions \in Nat \ {0}
    /\ MaxBuffered \in Nat
    /\ Addrs # {}
    /\ NoAddr \notin Addrs

Slots == 1..MaxSessions   \* positions of as_sessions
Ids   == 1..MaxSessions   \* session ids: connectID + 1

VARIABLES
    sessions,   \* as_sessions
    count,      \* id_session_count
    queue,      \* queue_session_requests: positions of as_sessions
    mpc,        \* where the modem task is in process_sessions
    cur,        \* the entry whose incoming data it retrieves (0: none)
    call,       \* the API call the client is in
    cfg,        \* the remote address request_session was called with
    sid,        \* the id the client holds (s_udp_ctx.id_session)
    socket,     \* external: the modem's sockets, by session id
    buffered,   \* external: datagrams waiting in the modem, by session id
    ctxUp,      \* external: the modem's PDP context is active
    hasData,    \* n_ctx_state = CTX_ACTIVATED, as the manager believes
    pdpError    \* last_pdp_error() > 0

tableVars  == <<sessions, count, queue>>
clientVars == <<call, cfg, sid>>
modemVars  == <<socket, buffered, ctxUp>>
pdpVars == <<sessions, count, queue, mpc, cur, call, cfg, sid,
             socket, buffered, ctxUp, hasData, pdpError>>

(***************************************************************************)
(* Types and helpers                                                       *)
(***************************************************************************)
Requests == {"NONE", "CREATE", "CLOSE"}

Session == [id : 0..MaxSessions, addr : Addrs \cup {NoAddr},
            req : Requests, send : BOOLEAN, inc : BOOLEAN]

EmptySession == [id |-> 0, addr |-> NoAddr, req |-> "NONE",
                 send |-> FALSE, inc |-> FALSE]

EmptyTable == [s \in Slots |-> EmptySession]

AllClosed == [i \in Ids |-> NoAddr]

NoneBuffered == [i \in Ids |-> 0]

ModemSteps == {"idle", "create", "stop", "send", "incoming",
               "retrieve", "callback"}

Calls == {"none", "request", "wait", "close", "send"}

\* mtx_session_access is held by the modem task.
SessionsLocked == mpc \in {"create", "stop", "retrieve", "callback"}

First(S) == CHOOSE s \in S : \A t \in S : s <= t

\* First table entry with this id: the search loop of every API function.
WithId(i) == {s \in Slots : sessions[s].id = i}

\* Entries on which request_session's loop stops: a vacant one, or one that
\* already has the same configuration.
Candidates(a) == {s \in Slots : \/ sessions[s].id = 0
                                \/ sessions[s].id > 0 /\ sessions[s].addr = a}

\* waitCreatedSession and searchUdpSession compare the port only, and every
\* configuration of this firmware has the same port.
PortMatches == {s \in Slots : sessions[s].addr # NoAddr}

\* Every socket of the modem closes.
AllSocketsClose == socket' = AllClosed /\ buffered' = NoneBuffered

\* Mutant of NextId: the count wraps one too late.
NextIdLate == IF count + 1 > MaxSessions + 1 THEN 1 ELSE count + 1

NextId == IF count + 1 > MaxSessions THEN 1 ELSE count + 1

QueueFull == Len(queue) >= MaxSessions

\* xQueueSend of a pointer to entry s.
Queued(s) == IF QueueFull THEN queue ELSE Append(queue, s)

Current == Head(queue)

(***************************************************************************)
(* The client's calls                                                      *)
(***************************************************************************)
StartRequest(a) ==
    /\ call = "none"
    /\ call' = "request"
    /\ cfg' = a
    /\ UNCHANGED sid

StartClose ==
    /\ call = "none"
    /\ sid > 0
    /\ call' = "close"
    /\ UNCHANGED <<cfg, sid>>

StartSend ==
    /\ call = "none"
    /\ sid > 0
    /\ call' = "send"
    /\ UNCHANGED <<cfg, sid>>

\* The client forgets its session (UDP_STATE_INIT) without closing it.
ForgetSession ==
    /\ call = "none"
    /\ sid' = -1
    /\ UNCHANGED <<call, cfg>>

\* request_session returns, with an id or -1.
RequestReturns(i) ==
    /\ sid' = i
    /\ call' = "none"
    /\ cfg' = NoAddr

\* What request_session does to the table: nothing if the configuration is
\* listed; else it claims the vacant entry, before it knows that the queue
\* takes the request.
ClaimSession(s) ==
    IF sessions[s].id > 0
    THEN UNCHANGED tableVars
    ELSE /\ sessions' = [sessions EXCEPT ![s] =
                            [id |-> NextId, addr |-> cfg, req |-> "CREATE",
                             send |-> @.send, inc |-> @.inc]]
         /\ count' = NextId
         /\ queue' = Queued(s)

RequestSession ==
    /\ call = "request"
    /\ ~SessionsLocked
    /\ IF Candidates(cfg) = {}
       THEN UNCHANGED tableVars /\ RequestReturns(-1)
       ELSE LET s == First(Candidates(cfg)) IN
            /\ ClaimSession(s)
            /\ IF sessions[s].id = 0 /\ QueueFull
               THEN RequestReturns(-1)
               ELSE call' = "wait" /\ cfg' = NoAddr /\ UNCHANGED sid

\* Mutant of WaitCreatedSession: the id is taken before the queue drains.
WaitIgnoresQueue ==
    /\ call = "wait"
    /\ ~SessionsLocked
    /\ RequestReturns(IF PortMatches = {} THEN -1
                      ELSE sessions[First(PortMatches)].id)
    /\ UNCHANGED tableVars

\* waitCreatedSession: the queue has drained; take the id of the first entry
\* with the port.
WaitCreatedSession ==
    /\ call = "wait"
    /\ queue = <<>>
    /\ ~SessionsLocked
    /\ RequestReturns(IF PortMatches = {} THEN -1
                      ELSE sessions[First(PortMatches)].id)
    /\ UNCHANGED tableVars

\* Mutant of WaitTimeout: the request is withdrawn, without the mutex.
WaitWithdraws ==
    /\ call = "wait"
    /\ queue # <<>> \/ SessionsLocked
    /\ RequestReturns(-1)
    /\ queue' = <<>>
    /\ UNCHANGED <<sessions, count>>

\* 200 polls of 100 ms with the queue not empty, or the mutex not obtained.
WaitTimeout ==
    /\ call = "wait"
    /\ queue # <<>> \/ SessionsLocked
    /\ RequestReturns(-1)
    /\ UNCHANGED tableVars

\* The result is ignored by every caller.
CloseSession ==
    /\ call = "close"
    /\ ~SessionsLocked
    /\ IF WithId(sid) = {}
       THEN UNCHANGED tableVars
       ELSE LET s == First(WithId(sid)) IN
            /\ sessions' = [sessions EXCEPT ![s].req = "CLOSE"]
            /\ queue' = Queued(s)
            /\ UNCHANGED count
    /\ call' = "none"
    /\ UNCHANGED <<cfg, sid>>

\* What send_data returns: the session exists and its send buffer is free.
CanSend == WithId(sid) # {} /\ ~sessions[First(WithId(sid))].send

SendData ==
    /\ call = "send"
    /\ ~SessionsLocked
    /\ sessions' = IF CanSend THEN [sessions EXCEPT ![First(WithId(sid))].send = TRUE]
                   ELSE sessions
    /\ call' = "none"
    /\ UNCHANGED <<count, queue, cfg, sid>>

\* LOCK_SESSIONS_ACCESS() gives up after 15 s.
LockTimeout ==
    /\ SessionsLocked
    /\ \/ call = "request" /\ RequestReturns(-1)
       \/ call \in {"close", "send"} /\ call' = "none" /\ UNCHANGED <<cfg, sid>>
    /\ UNCHANGED tableVars

\* The rest of a call, once it has started.
ClientCall ==
    /\ RequestSession \/ WaitCreatedSession \/ WaitTimeout
          \/ CloseSession \/ SendData \/ LockTimeout
    /\ UNCHANGED <<mpc, cur, modemVars, hasData, pdpError>>

\* The most general client: any call, in any order, with the id it holds.
ClientStart ==
    /\ \/ \E a \in Addrs : StartRequest(a)
       \/ StartClose \/ StartSend \/ ForgetSession
    /\ UNCHANGED <<tableVars, mpc, cur, modemVars, hasData, pdpError>>

(***************************************************************************)
(* The modem task: process_sessions                                        *)
(***************************************************************************)

\* processSessionRequests begins: peek the queue, lock, and look at the
\* request; anything that is not CREATE is closed.  A CME code of an earlier
\* command survives until some other command's response clears it.
PeekRequest ==
    /\ mpc = "idle"
    /\ mpc' = IF queue = <<>> THEN "send"
              ELSE IF sessions[Current].req = "CREATE" THEN "create"
              ELSE "stop"
    /\ pdpError' \in {pdpError, FALSE}
    /\ UNCHANGED <<tableVars, cur, clientVars, modemVars, hasData>>

\* searchUdpSession found a socket with the port: the session takes its id.
AdoptSocket(sock) ==
    \E i \in Ids :
       /\ sock[i] # NoAddr
       /\ sessions' = [sessions EXCEPT ![Current].id = i,
                                       ![Current].req = "NONE"]
       /\ queue' = Tail(queue)
       /\ UNCHANGED count

CreateExisting ==
    /\ mpc = "create"
    /\ AdoptSocket(socket)
    /\ mpc' = "send"
    /\ UNCHANGED <<cur, clientVars, modemVars, hasData, pdpError>>

\* +QIOPEN on the session's connectID.
OpenedBy(i, a) == [socket EXCEPT ![i] = a]

CanOpen(i) == ctxUp /\ socket[i] = NoAddr

\* OK: the socket is open; it is verified, or the listing is missed and the
\* request stays queued.
CreateOpened ==
    /\ mpc = "create"
    /\ CanOpen(sessions[Current].id)
    /\ socket' = OpenedBy(sessions[Current].id, sessions[Current].addr)
    /\ AdoptSocket(socket') \/ UNCHANGED tableVars
    /\ pdpError' = FALSE
    /\ mpc' = "send"
    /\ UNCHANGED <<cur, clientVars, buffered, ctxUp, hasData>>

\* An error response is a negative number: "not waitResponseTimeout(...)" is
\* false and the code goes on to verify, so the step does not fail.
CreateRefused ==
    /\ mpc = "create"
    /\ AdoptSocket(socket) \/ UNCHANGED tableVars
    /\ pdpError' \in BOOLEAN
    /\ mpc' = "send"
    /\ UNCHANGED <<cur, clientVars, modemVars, hasData>>

\* No response within 15 s.  The modem may still open the socket (the code's
\* "fix me: max response time is 2.5minutes").
CreateNoResponse ==
    /\ mpc = "create"
    /\ ~pdpError
    /\ \/ UNCHANGED socket
       \/ /\ CanOpen(sessions[Current].id)
          /\ socket' = OpenedBy(sessions[Current].id, sessions[Current].addr)
    /\ mpc' = "send"
    /\ UNCHANGED <<tableVars, cur, clientVars, buffered, ctxUp, hasData, pdpError>>

\* ... and with a pdp error on record: close every socket (if the modem lists
\* them), forget every session and request, deactivate the context (if the
\* modem obeys).
CreatePurge ==
    /\ mpc = "create"
    /\ pdpError
    /\ sessions' = EmptyTable
    /\ queue' = <<>>
    /\ \/ ctxUp' = FALSE /\ AllSocketsClose
       \/ UNCHANGED ctxUp /\ (AllSocketsClose \/ UNCHANGED <<socket, buffered>>)
    /\ pdpError' \in BOOLEAN
    /\ mpc' = "send"
    /\ UNCHANGED <<count, cur, clientVars, hasData>>

\* Mutant of StopSession: only the id and the request are cleared.
StopKeepsPayload ==
    /\ mpc = "stop"
    /\ LET i == sessions[Current].id IN
       \/ UNCHANGED <<socket, buffered>>
       \/ /\ i > 0
          /\ socket' = OpenedBy(i, NoAddr)
          /\ buffered' = [buffered EXCEPT ![i] = 0]
    /\ sessions' = [sessions EXCEPT ![Current].id = 0, ![Current].req = "NONE"]
    /\ queue' = Tail(queue)
    /\ mpc' = "send"
    /\ UNCHANGED <<count, cur, clientVars, ctxUp, hasData, pdpError>>

\* stopSession, clear the entry, pop.  An error of +QICLOSE is ignored.
StopSession ==
    /\ mpc = "stop"
    /\ LET i == sessions[Current].id IN
       \/ UNCHANGED <<socket, buffered>>
       \/ /\ i > 0
          /\ socket' = OpenedBy(i, NoAddr)
          /\ buffered' = [buffered EXCEPT ![i] = 0]
    /\ sessions' = [sessions EXCEPT ![Current] = EmptySession]
    /\ queue' = Tail(queue)
    /\ mpc' = "send"
    /\ UNCHANGED <<count, cur, clientVars, ctxUp, hasData, pdpError>>

Pending == {s \in Slots : sessions[s].send}

\* processSendData: +QISEND of the first pending buffer.  The buffer is
\* released only on SEND OK.
ProcessSendData ==
    /\ mpc = "send"
    /\ IF ~hasData \/ Pending = {}
       THEN UNCHANGED <<sessions, pdpError>>
       ELSE LET s == First(Pending) IN
            \/ /\ sessions[s].id > 0
               /\ socket[sessions[s].id] # NoAddr
               /\ sessions' = [sessions EXCEPT ![s].send = FALSE]
               /\ pdpError' = FALSE
            \/ /\ pdpError' \in BOOLEAN
               /\ UNCHANGED sessions
    /\ mpc' = "incoming"
    /\ UNCHANGED <<count, queue, cur, clientVars, modemVars, hasData>>

Incoming == {s \in Slots : sessions[s].inc}

ProcessIncomingData ==
    /\ mpc = "incoming"
    /\ IF Incoming = {} THEN mpc' = "idle" /\ UNCHANGED cur
                        ELSE mpc' = "retrieve" /\ cur' = First(Incoming)
    /\ UNCHANGED <<tableVars, clientVars, modemVars, hasData, pdpError>>

\* retrieve_pdp_data returned a datagram; the receive callback runs next,
\* with the table still locked.
Retrieve ==
    /\ mpc = "retrieve"
    /\ LET i == sessions[cur].id IN
       /\ buffered[i] > 0
       /\ buffered' = [buffered EXCEPT ![i] = @ - 1]
    /\ mpc' = "callback"
    /\ UNCHANGED <<tableVars, cur, clientVars, socket, ctxUp, hasData,
                   pdpError>>

\* It returned 0: nothing is left, or the response timed out.
RetrieveNone ==
    /\ mpc = "retrieve"
    /\ sessions' = [sessions EXCEPT ![cur].inc = FALSE]
    /\ mpc' = "idle"
    /\ cur' = 0
    /\ UNCHANGED <<count, queue, clientVars, modemVars, hasData, pdpError>>

\* Mutant of CallbackReturns: the mark is cleared after each datagram.
CallbackClearsMark ==
    /\ mpc = "callback"
    /\ mpc' = "retrieve"
    /\ sessions' = [sessions EXCEPT ![cur].inc = FALSE]
    /\ UNCHANGED <<count, queue, cur, clientVars, modemVars, hasData, pdpError>>

CallbackReturns ==
    /\ mpc = "callback"
    /\ mpc' = "retrieve"
    /\ UNCHANGED <<tableVars, cur, clientVars, modemVars, hasData, pdpError>>

ProcessSessions ==
    \/ PeekRequest \/ CreateExisting \/ CreateOpened \/ CreateRefused
    \/ CreateNoResponse \/ CreatePurge \/ StopSession
    \/ ProcessSendData \/ ProcessIncomingData \/ Retrieve \/ RetrieveNone

(***************************************************************************)
(* The modem, its network and the rest of the manager                      *)
(***************************************************************************)

\* A datagram arrives; +QIURC "recv" runs handle_incoming_data, which marks
\* the first entry with that id.
DatagramArrives(i) ==
    /\ socket[i] # NoAddr
    /\ buffered[i] < MaxBuffered
    /\ buffered' = [buffered EXCEPT ![i] = @ + 1]
    /\ IF WithId(i) = {} THEN UNCHANGED sessions
       ELSE sessions' = [sessions EXCEPT ![First(WithId(i))].inc = TRUE]
    /\ UNCHANGED <<count, queue, mpc, cur, clientVars, socket, ctxUp,
                   hasData, pdpError>>

\* The network deactivates the context.  The +QIURC "pdpdeact" that reports
\* it is "not handled": the table and the manager's belief stay.
NetworkDeactivates ==
    /\ ctxUp
    /\ ctxUp' = FALSE
    /\ AllSocketsClose
    /\ UNCHANGED <<tableVars, mpc, cur, clientVars, hasData, pdpError>>

\* manager::reset(): the modem restarts and the context state becomes
\* unknown; the session table is left alone.
ModemReset ==
    /\ mpc = "idle"
    /\ ctxUp' = FALSE
    /\ hasData' = FALSE
    /\ AllSocketsClose
    /\ UNCHANGED <<tableVars, mpc, cur, clientVars, pdpError>>

\* The manager reaches PDPCTX_ACTIVATED: the context is up, init_sessions
\* closes the modem's sockets and, except at boot, leaves the table alone.
Activate ==
    /\ mpc = "idle"
    /\ ~hasData
    /\ ctxUp' = TRUE
    /\ hasData' = TRUE
    /\ AllSocketsClose
    /\ UNCHANGED <<tableVars, mpc, cur, clientVars, pdpError>>

Environment ==
    \/ \E i \in Ids : DatagramArrives(i)
    \/ NetworkDeactivates \/ ModemReset \/ Activate

(***************************************************************************)
(* Specification                                                           *)
(***************************************************************************)
\* The first activation has just created the queue and the mutex; before it
\* every call fails at once.
Init ==
    /\ sessions = EmptyTable
    /\ count = 0
    /\ queue = <<>>
    /\ mpc = "idle"
    /\ cur = 0
    /\ call = "none"
    /\ cfg = NoAddr
    /\ sid = 0
    /\ socket = AllClosed
    /\ buffered = NoneBuffered
    /\ ctxUp = TRUE
    /\ hasData = TRUE
    /\ pdpError = FALSE

Next ==
    \/ ClientStart \/ ClientCall
    \/ ProcessSessions \/ CallbackReturns
    \/ Environment

Spec == Init /\ [][Next]_pdpVars

(***************************************************************************)
(* Properties                                                              *)
(***************************************************************************)

\* Type invariant: every variable of the session layer ranges over the values
\* its C type and the code give it; the queue holds at most its capacity; a
\* call in progress has its argument.
TypeOK ==
    /\ sessions \in [Slots -> Session]
    /\ count \in 0..MaxSessions
    /\ queue \in Seq(Slots) /\ Len(queue) <= MaxSessions
    /\ mpc \in ModemSteps
    /\ cur \in 0..MaxSessions
    /\ call \in Calls
    /\ cfg \in Addrs \cup {NoAddr}
    /\ call = "request" => cfg # NoAddr
    /\ sid \in -1..MaxSessions
    /\ call \in {"close", "send"} => sid > 0
    /\ socket \in [Ids -> Addrs \cup {NoAddr}]
    /\ buffered \in [Ids -> 0..MaxBuffered]
    /\ ctxUp \in BOOLEAN
    /\ hasData \in BOOLEAN
    /\ pdpError \in BOOLEAN

\* An entry with id 0 is really vacant: no request, no pending payload, no
\* incoming mark is left in it for the next session to inherit
\* (modem_pdp.cpp:31, request_session writes only id, config and request).
VacantIsClean ==
    \A s \in Slots : sessions[s].id = 0 <=> sessions[s] = EmptySession

\* While the modem task talks to the modem about an entry, for up to 20 s,
\* neither the client nor a notification takes that entry away from it: the
\* request it serves is still the one it read, and a datagram is delivered
\* for a session that exists (processSessionRequests, processIncomingData).
ServedEntryStays ==
    /\ mpc = "create" => /\ queue # <<>>
                         /\ sessions[Current].req = "CREATE"
                         /\ sessions[Current].id > 0
    /\ mpc = "stop" => queue # <<>> /\ sessions[Current].req # "CREATE"
    /\ mpc \in {"retrieve", "callback"} =>
          cur > 0 /\ sessions[cur].id > 0 /\ sessions[cur].inc
=============================================================================
