------------------------------ MODULE CloudLink ------------------------------
(***************************************************************************)
(* The cloud-comms task on top of the modem manager's session layer:       *)
(* CloudComms' blocking calls are PdpSessions' API calls, the session id   *)
(* is one variable, and PdpSessions' receive callback is CloudComms'       *)
(* handleUdpReceive.  The remote address follows the APN of the data       *)
(* connection, which may change whenever the manager activates a context.  *)
(***************************************************************************)
EXTENDS PdpSessions

CONSTANTS SendSlots, UdpRetryLimit, DtlsRetryLimit   \* CloudComms

VARIABLES
    at, udp, uretry, lastSent, dtls, bState, initialOk, dretry, used,
    sendq, cli, rx, receiving,
    apn,    \* s_cnx_cfg.ac_apn: the cloud address that belongs to it
    host    \* s_udp_ctx.s_config: the address the next request is for

Cloud == INSTANCE CloudComms WITH MaxSession <- MaxSessions

\* The variables of one side that the other does not have.
cloudOnly == <<at, udp, uretry, lastSent, dtls, bState, initialOk, dretry, used,
               sendq, cli, rx, receiving>>
pdpOnly == <<sessions, count, queue, mpc, cur, call, cfg,
             socket, buffered, ctxUp, hasData, pdpError>>
addrVars == <<apn, host>>
linkVars == <<cloudOnly, sid, pdpOnly, addrVars>>

(***************************************************************************)
(* The cloud task                                                          *)
(***************************************************************************)

Closing == {"close", "dropUdp", "dropDtls", "dropApp"}

\* get_connection_state, and the address that goes with the APN.
Connect ==
    /\ Cloud!UdpConnect(hasData)
    /\ host' = IF hasData THEN apn ELSE host
    /\ UNCHANGED <<pdpOnly, apn>>

\* Mutant of CallsPdp: disconnect() closes without an id.
CallsPdpAlways ==
    CASE at' = "request" -> StartRequest(host)
      [] at' = "send" -> StartSend
      [] at' \in Closing -> call' = "close" /\ UNCHANGED cfg
      [] OTHER -> UNCHANGED <<call, cfg>>

\* Mutant of CallsPdp: sessions are never closed.
CallsPdpNeverCloses ==
    CASE at' = "request" -> StartRequest(host)
      [] at' = "send" -> StartSend
      [] OTHER -> UNCHANGED <<call, cfg>>

\* What a step of the cloud task calls: request_session, send_data,
\* close_session (only with a valid id), or nothing.
CallsPdp ==
    CASE at' = "request" -> StartRequest(host)
      [] at' = "send" -> StartSend
      [] at' \in Closing /\ sid > 0 -> StartClose
      [] OTHER -> UNCHANGED <<call, cfg>>

CloudStep ==
    /\ Cloud!LocalStep
    /\ Cloud!RefreshSession => pdpError
    /\ CallsPdp
    /\ UNCHANGED <<sessions, count, queue, mpc, cur, socket, buffered, ctxUp,
                   hasData, pdpError, addrVars>>

\* A session-layer call runs and, if it is over, the cloud task takes its
\* result.
CallStep ==
    /\ ClientCall
    /\ UNCHANGED addrVars
    /\ \/ /\ call' # "none"
          /\ UNCHANGED cloudOnly
       \/ /\ call' = "none"
          /\ \/ Cloud!RequestReturned(sid')
             \/ Cloud!CloseReturned
             \/ Cloud!ReconnectReturns
             \/ IF CanSend /\ sessions' # sessions
                THEN Cloud!SendOk ELSE Cloud!SendFailed

\* No session to close.
NothingToClose ==
    /\ call = "none"
    /\ Cloud!CloseReturned \/ Cloud!ReconnectReturns
    /\ UNCHANGED <<pdpOnly, addrVars>>

(***************************************************************************)
(* The modem task                                                          *)
(***************************************************************************)
ModemStep ==
    /\ ProcessSessions
    /\ IF mpc' = "callback" THEN Cloud!ReceiveStarts ELSE UNCHANGED cloudOnly
    /\ UNCHANGED addrVars

Callback ==
    /\ CallbackReturns
    /\ Cloud!ReceiveStores \/ Cloud!ReceiveGivesUp
    /\ UNCHANGED addrVars

\* Activation after a reset may take another APN (VERIFY_APN alternates).
Activates ==
    /\ Activate
    /\ apn' \in Addrs
    /\ UNCHANGED <<cloudOnly, sid, host>>

\* Mutant of Surroundings: the modem task resets the link's state, too.
ResetDropsLink ==
    /\ UNCHANGED <<at, uretry, lastSent, dtls, bState, initialOk, dretry, used,
                   sendq, cli, rx, receiving, sid, addrVars>>
    /\ \/ /\ \/ \E i \in Ids : DatagramArrives(i)
             \/ NetworkDeactivates
          /\ UNCHANGED udp
       \/ ModemReset /\ udp' = "init"

Surroundings ==
    /\ \/ \E i \in Ids : DatagramArrives(i)
       \/ NetworkDeactivates
       \/ ModemReset
    /\ UNCHANGED <<cloudOnly, sid, addrVars>>

(***************************************************************************)
(* Specification                                                           *)
(***************************************************************************)
LinkInit ==
    /\ Cloud!Init
    /\ Init
    /\ apn \in Addrs
    /\ host = NoAddr

LinkNext == \/ Connect \/ CloudStep \/ CallStep \/ NothingToClose
            \/ ModemStep \/ Callback \/ Activates \/ Surroundings

LinkSpec == LinkInit /\ [][LinkNext]_linkVars

\* The task's session reaches an open socket of the modem.
LinkUp == udp = "ready" /\ sid > 0 /\ socket[sid] # NoAddr

\* A create request is answered with a session.
Created == \E s \in Slots :
    sessions[s].req = "CREATE" /\ sessions'[s].req = "NONE" /\ sessions'[s].id > 0

\* Both tasks keep running; the mutex and the modem do not fail one call for
\* ever; the 30 s of a handshake pass; and the services on top ask for a
\* reconnect when nothing comes back (external).
LinkFairness ==
    /\ WF_linkVars(Connect \/ CloudStep \/ CallStep \/ NothingToClose)
    /\ WF_linkVars(ModemStep \/ Callback)
    /\ SF_linkVars(CallStep /\ ~LockTimeout)
    /\ SF_linkVars(CallStep /\ WaitCreatedSession)
    /\ SF_linkVars(ModemStep /\ Created)
    /\ SF_linkVars(ModemStep /\ RetrieveNone)
    /\ SF_linkVars(CloudStep /\ Cloud!DtlsTimeout)
    /\ SF_linkVars(CloudStep /\ Cloud!AppReconnects /\ ~LinkUp)

FairLinkSpec == LinkSpec /\ LinkFairness

(***************************************************************************)
(* Properties                                                              *)
(***************************************************************************)

\* The session layer and the cloud task are what they are in isolation: the
\* calls keep to the protocol each side assumes of the other, one call at a
\* time, with an argument, closed and sent with a valid id only; so the
\* invariants of both modules hold here (cloud_comms.cpp's calls of
\* modem_pdp.cpp's API).
PdpSpec == Spec

\* ... and the session layer returns nothing the cloud task does not expect,
\* and delivers datagrams one at a time.
CloudSpec == Cloud!Spec

\* A marked request is always in the queue: over timed-out calls, repeated
\* requests, closes of what is being created and the purge of every session,
\* no entry is left waiting for a request nobody will serve.  The cloud task
\* is what makes this hold: the most general client of PdpSessions can fill
\* the queue (request_session marks the entry before xQueueSend).
NoOrphanRequest ==
    \A s \in Slots : sessions[s].req # "NONE" =>
        \E k \in 1..Len(queue) : queue[k] = s

\* "just close it" (modem_pdp.cpp:434) closes only what the client asked to
\* close: a second pointer to an entry never closes the session created in it
\* since, although close_session queues without looking at the request
\* already there.
StopsWhatWasClosed == mpc = "stop" => sessions[Current].req = "CLOSE"

\* While the cloud task uses its session, the modem task has no request for
\* it left: the session is neither about to be opened again nor about to be
\* closed under the task, whatever requests and closes timed out before
\* (waitCreatedSession, UDP_STATE_CLOSE).
SettledWhenReady ==
    udp = "ready" /\ at \notin Closing =>
        \A s \in Slots : sessions[s].id = sid => sessions[s].req = "NONE"

\* Once the data connection stays up, and the mutex is not held for 15 s any
\* more, the task reaches an open socket of the modem again and again,
\* whatever was lost in between: sockets closed by the network or by a reset,
\* stale table entries, timed-out requests, reused ids.
LinkRecovers ==
    /\ <>[](ctxUp /\ hasData)
    /\ <>[][~LockTimeout]_linkVars
    => []<>LinkUp

\* "returns id of created session" (modem_pdp.cpp:145): request_session
\* returns the id of a session to the address it was asked for.
RightAddress ==
    [][at = "request" /\ at' # "request" /\ sid' > 0 =>
         \E s \in Slots : sessions[s].id = sid' /\ sessions[s].addr = host]_linkVars
=============================================================================
