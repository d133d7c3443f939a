----------------------------- MODULE CloudComms -----------------------------
(***************************************************************************)
(* The cloud-comms task                                                    *)
(* (src/src/general/app/cloud_comms/cloud_comms.cpp).                      *)
(*                                                                         *)
(* Each cycle runs the UDP link's state machine, then the DTLS client's,   *)
(* and, while the handshake flag is set, the cloud services that use the   *)
(* link.  The three calls into the modem manager's session layer block the *)
(* task; their results come from outside (\E over what they may return).   *)
(* The modem task delivers datagrams through handleUdpReceive.             *)
(***************************************************************************)
EXTENDS Integers, Sequences

CONSTANTS
    SendSlots,       (* K_CLOUD_COMMS_SEND_QUEUE_SIZE *)
    UdpRetryLimit,   (* the 3 of UDP_STATE_CLOSE *)
    DtlsRetryLimit,  (* K_CLOUD_DTLS_CONN_RETRY_LIM *)
    MaxSession       (* largest session id: MODEM_PDP_MAX_SESSIONS *)

ASSUME CloudAssumption ==
    /\ SendSlots \in Nat \ {0}
    /\ UdpRetryLimit \in Nat \ {0}
    /\ DtlsRetryLimit \in Nat \ {0}
    /\ MaxSession \in Nat \ {0}

VARIABLES
    at,         \* where the task is: a part of cycle(), or a blocking call
    udp,        \* s_udp_ctx.e_state
    sid,        \* s_udp_ctx.id_session
    uretry,     \* s_udp_ctx.s_conn_status.ui8_retry
    lastSent,   \* ms_last_send is not 0
    dtls,       \* s_dtls_ctx.e_state
    bState,     \* s_dtls_ctx.s_conn_status.b_state
    initialOk,  \* s_dtls_ctx.s_conn_status.b_initial_ok
    dretry,     \* s_dtls_ctx.s_conn_status.ui8_retry
    used,       \* as_send_queue: the slots whose sz_length is not 0
    sendq,      \* queue_send: pointers to slots
    cli,        \* external: the DTLS client's state
    rx,         \* s_receive_buff holds a datagram
    receiving   \* the modem task is inside handleUdpReceive

udpVars   == <<udp, sid, uretry, lastSent>>
dtlsVars  == <<dtls, bState, initialOk, dretry>>
sendVars  == <<used, sendq>>
cloudVars == <<at, udp, sid, uretry, lastSent, dtls, bState, initialOk, dretry,
               used, sendq, cli, rx, receiving>>

SendSlot == 1..SendSlots

LinkStates == {"init", "connect", "connecting", "close", "ready"}

\* "request", "close" and "send" are the blocking calls of the UDP machine;
\* "dropUdp", "dropDtls" and "dropApp" are disconnect()'s close_session, by
\* who called connect().
Positions == {"udp", "request", "close", "send", "refused", "rx", "dtls", "app",
              "dropUdp", "dropDtls", "dropApp"}

\* "down": before the first handshake, CLOSING or CLOSED; dtls_write refuses.
ClientStates == {"down", "handshake", "connected"}

(***************************************************************************)
(* The send buffer                                                         *)
(***************************************************************************)
Vacant(u) == SendSlot \ u

First(S) == CHOOSE s \in S : \A t \in S : s <= t

\* dtlsSendHandler: fill the first vacant slot and queue its pointer; with
\* none vacant the datagram is dropped.
Filled(b) == IF Vacant(b.used) = {} THEN b
             ELSE [used |-> b.used \cup {First(Vacant(b.used))},
                   sendq |-> Append(b.sendq, First(Vacant(b.used)))]

Buffer == [used |-> used, sendq |-> sendq]

\* n datagrams (at most the three of a client's handshake flight).
SendDatagrams(n) ==
    LET b == CASE n = 0 -> Buffer
               [] n = 1 -> Filled(Buffer)
               [] n = 2 -> Filled(Filled(Buffer))
               [] OTHER -> Filled(Filled(Filled(Buffer)))
    IN used' = b.used /\ sendq' = b.sendq

\* dtls_close: a close_notify alert, whatever the client's state.
CloseClient == SendDatagrams(1) /\ cli' = "down"

(***************************************************************************)
(* connect() and disconnect()                                              *)
(***************************************************************************)

\* disconnect() up to close_session.
StartReconnect(p) ==
    /\ at' = p
    /\ dtls' = "init"
    /\ bState' = FALSE
    /\ IF bState THEN CloseClient ELSE UNCHANGED <<used, sendq, cli>>

\* Mutant of ReconnectReturns: the queue is flushed, the slots are not.
ReconnectLeaksSlots ==
    /\ at \in {"dropUdp", "dropDtls", "dropApp"}
    /\ at' = IF at = "dropUdp" THEN "rx" ELSE "udp"
    /\ udp' = "init"
    /\ sendq' = <<>>
    /\ UNCHANGED <<used, sid, uretry, lastSent, dtlsVars, cli, rx, receiving>>

\* close_session returned (or there was nothing to close); the send queue is
\* flushed.
ReconnectReturns ==
    /\ at \in {"dropUdp", "dropDtls", "dropApp"}
    /\ at' = IF at = "dropUdp" THEN "rx" ELSE "udp"
    /\ udp' = "init"
    /\ used' = {}
    /\ sendq' = <<>>
    /\ UNCHANGED <<sid, uretry, lastSent, dtlsVars, cli, rx, receiving>>

(***************************************************************************)
(* processUdpState                                                         *)
(***************************************************************************)
\* Mutant of UdpInit: the retry count is kept.
UdpInitKeepsRetry ==
    /\ at = "udp" /\ udp = "init"
    /\ at' = "dtls"
    /\ udp' = "connect"
    /\ sid' = -1
    /\ lastSent' = FALSE
    /\ UNCHANGED <<uretry, dtlsVars, sendVars, cli, rx, receiving>>

UdpInit ==
    /\ at = "udp" /\ udp = "init"
    /\ at' = "dtls"
    /\ udp' = "connect"
    /\ sid' = -1
    /\ uretry' = 0
    /\ lastSent' = FALSE
    /\ UNCHANGED <<dtlsVars, sendVars, cli, rx, receiving>>

\* get_connection_state: is there a data connection with an APN?
UdpConnect(connected) ==
    /\ at = "udp" /\ udp = "connect"
    /\ at' = "dtls"
    /\ udp' = IF connected THEN "connecting" ELSE "connect"
    /\ UNCHANGED <<sid, uretry, lastSent, dtlsVars, sendVars, cli, rx, receiving>>

\* The task enters a blocking call.
Blocks(p) == at' = p /\ UNCHANGED <<udpVars, dtlsVars, sendVars, cli, rx, receiving>>

UdpConnecting == at = "udp" /\ udp = "connecting" /\ Blocks("request")
UdpClose      == at = "udp" /\ udp = "close" /\ Blocks("close")
UdpReady      == /\ at = "udp" /\ udp = "ready"
                 /\ Blocks(IF sendq = <<>> THEN "rx" ELSE "send")

\* Mutant of RequestReturned: an id of 0 is taken for a session.
RequestTakesZero(i) ==
    /\ at = "request"
    /\ at' = "dtls"
    /\ sid' = i
    /\ IF i >= 0 THEN udp' = "ready" /\ uretry' = 0
                 ELSE udp' = "close" /\ UNCHANGED uretry
    /\ UNCHANGED <<lastSent, dtlsVars, sendVars, cli, rx, receiving>>

RequestReturned(i) ==
    /\ at = "request"
    /\ at' = "dtls"
    /\ sid' = i
    /\ IF i > 0 THEN udp' = "ready" /\ uretry' = 0
                ELSE udp' = "close" /\ UNCHANGED uretry
    /\ UNCHANGED <<lastSent, dtlsVars, sendVars, cli, rx, receiving>>

\* UDP_STATE_CLOSE after close_session, whose result is ignored.
CloseReturned ==
    /\ at = "close"
    /\ at' = "dtls"
    /\ uretry' = uretry + 1
    /\ udp' = IF uretry + 1 < UdpRetryLimit THEN "connect" ELSE "init"
    /\ UNCHANGED <<sid, lastSent, dtlsVars, sendVars, cli, rx, receiving>>

\* Mutant of SendOk: the pointer stays queued.
SendKeepsPointer ==
    /\ at = "send"
    /\ at' = "rx"
    /\ used' = used \ {Head(sendq)}
    /\ lastSent' = TRUE
    /\ UNCHANGED <<sendq, udp, sid, uretry, dtlsVars, cli, rx, receiving>>

SendOk ==
    /\ at = "send"
    /\ at' = "rx"
    /\ used' = used \ {Head(sendq)}
    /\ sendq' = Tail(sendq)
    /\ lastSent' = TRUE
    /\ UNCHANGED <<udp, sid, uretry, dtlsVars, cli, rx, receiving>>

\* send_data refused; get_error() is read next.
SendFailed == at = "send" /\ Blocks("refused")

\* Look the session up again ...
RecheckSession ==
    /\ at = "refused"
    /\ at' = "rx"
    /\ udp' = "connect"
    /\ lastSent' = TRUE
    /\ UNCHANGED <<sid, uretry, dtlsVars, sendVars, cli, rx, receiving>>

\* ... or reconnect, if the modem reports a pdp error and the attempt before
\* this one is more than a minute old.
RefreshSession ==
    /\ at = "refused"
    /\ lastSent
    /\ StartReconnect("dropUdp")
    /\ UNCHANGED <<udpVars, initialOk, dretry, rx, receiving>>

(***************************************************************************)
(* Receiving: dtls_handle_message, one outcome for a datagram's records    *)
(***************************************************************************)
Handled ==
    /\ at = "rx" /\ rx
    /\ at' = "dtls"
    /\ rx' = FALSE
    /\ UNCHANGED <<udpVars, initialOk, dretry, receiving>>

\* Nothing received, or the modem task holds the receive mutex.
NothingReceived ==
    /\ at = "rx"
    /\ ~rx \/ receiving
    /\ Blocks("dtls")

\* Undecryptable, out of sequence, or application data: nothing changes here.
ReceiveOther ==
    /\ Handled
    /\ UNCHANGED <<dtls, bState, sendVars, cli>>

\* The handshake advances: a cookie is answered with one datagram, the
\* server's hello with three.
ReceiveFlight ==
    /\ Handled
    /\ cli = "handshake"
    /\ \E n \in {0, 1, 3} : SendDatagrams(n)
    /\ UNCHANGED <<dtls, bState, cli>>

\* The server's Finished, or a repeated handshake record once connected:
\* DTLS_EVENT_CONNECTED.
ReceiveConnected ==
    /\ Handled
    /\ cli \in {"handshake", "connected"}
    /\ cli' = "connected"
    /\ bState' = TRUE
    /\ UNCHANGED <<dtls, sendVars>>

\* An unexpected or undecodable record: the client answers with an alert and
\* closes.  No event is raised.
ReceiveError ==
    /\ Handled
    /\ CloseClient
    /\ UNCHANGED <<dtls, bState>>

\* The server's alert: an event of a level above DTLS_EVENT; the client
\* answers unless it is closing.
ReceiveAlert ==
    /\ Handled
    /\ dtls' = "init"
    /\ cli' = "down"
    /\ \/ SendDatagrams(1)
       \/ cli = "down" /\ UNCHANGED sendVars
    /\ UNCHANGED bState

Receive == \/ NothingReceived \/ ReceiveOther \/ ReceiveFlight
           \/ ReceiveConnected \/ ReceiveError \/ ReceiveAlert

(***************************************************************************)
(* processDtlsState                                                        *)
(***************************************************************************)

\* The cycle ends; the next one serves the cloud services if the handshake
\* flag is set.
CycleEnds == at' = IF bState' THEN "app" ELSE "udp"

DtlsInit ==
    /\ at = "dtls" /\ dtls = "init"
    /\ dtls' = "connect"
    /\ dretry' = 0
    /\ bState' = FALSE
    /\ CycleEnds
    /\ UNCHANGED <<udpVars, initialOk, sendVars, cli, rx, receiving>>

\* DTLS_STATE_CONNECT without an UDP link, DTLS_STATE_CONNECTING before the
\* timeout, DTLS_STATE_READY.
DtlsWaits ==
    /\ at = "dtls"
    /\ \/ dtls = "connect" /\ udp # "ready"
       \/ dtls = "connecting" /\ ~bState
       \/ dtls = "ready"
    /\ UNCHANGED dtlsVars
    /\ CycleEnds
    /\ UNCHANGED <<udpVars, sendVars, cli, rx, receiving>>

\* Mutant of DtlsConnect: the flag of an earlier attempt survives.
DtlsConnectKeepsState ==
    /\ at = "dtls" /\ dtls = "connect" /\ udp = "ready"
    /\ Vacant(used) # {}
    /\ SendDatagrams(1)
    /\ cli' = "handshake"
    /\ dtls' = "connecting"
    /\ UNCHANGED bState
    /\ CycleEnds
    /\ UNCHANGED <<udpVars, initialOk, dretry, rx, receiving>>

DtlsConnect ==
    /\ at = "dtls" /\ dtls = "connect" /\ udp = "ready"
    /\ Vacant(used) # {}
    /\ SendDatagrams(1)
    /\ cli' = "handshake"
    /\ bState' = FALSE
    /\ dtls' = "connecting"
    /\ CycleEnds
    /\ UNCHANGED <<udpVars, initialOk, dretry, rx, receiving>>

\* dtls_connect returned 0: the send buffer took nothing.
DtlsConnectFails ==
    /\ at = "dtls" /\ dtls = "connect" /\ udp = "ready"
    /\ Vacant(used) = {}
    /\ at' = "dropDtls"
    /\ dtls' = "init"
    /\ bState' = FALSE
    /\ cli' = IF bState THEN "down" ELSE "handshake"
    /\ UNCHANGED <<udpVars, initialOk, dretry, sendVars, rx, receiving>>

DtlsConnecting ==
    /\ at = "dtls" /\ dtls = "connecting" /\ bState
    /\ dtls' = "ready"
    /\ dretry' = 0
    /\ initialOk' = TRUE
    /\ UNCHANGED bState
    /\ CycleEnds
    /\ UNCHANGED <<udpVars, sendVars, cli, rx, receiving>>

DtlsTimeout ==
    /\ at = "dtls" /\ dtls = "connecting" /\ ~bState
    /\ dtls' = "close"
    /\ UNCHANGED <<bState, initialOk, dretry>>
    /\ CycleEnds
    /\ UNCHANGED <<udpVars, sendVars, cli, rx, receiving>>

\* Restart the UDP session without a previous connection or after the last
\* retry; else connect again.
DtlsClose ==
    /\ at = "dtls" /\ dtls = "close"
    /\ CloseClient
    /\ dretry' = IF initialOk THEN dretry + 1 ELSE dretry
    /\ IF ~initialOk \/ dretry' >= DtlsRetryLimit
       THEN udp' = "close" /\ dtls' = "init"
       ELSE UNCHANGED udp /\ dtls' = "connect"
    /\ UNCHANGED <<bState, initialOk>>
    /\ CycleEnds
    /\ UNCHANGED <<sid, uretry, lastSent, rx, receiving>>

ProcessDtls == \/ DtlsInit \/ DtlsWaits \/ DtlsConnect \/ DtlsConnectFails
               \/ DtlsConnecting \/ DtlsTimeout \/ DtlsClose

(***************************************************************************)
(* The cloud services (external): they write through dtls_write, which a   *)
(* client that is not connected refuses, and may ask for a reconnect       *)
(***************************************************************************)
AppIdle  == at = "app" /\ Blocks("udp")

AppSends ==
    /\ at = "app" /\ cli = "connected"
    /\ at' = "udp"
    /\ SendDatagrams(1)
    /\ UNCHANGED <<udpVars, dtlsVars, cli, rx, receiving>>

AppReconnects ==
    /\ at = "app"
    /\ StartReconnect("dropApp")
    /\ UNCHANGED <<udpVars, initialOk, dretry, rx, receiving>>

(***************************************************************************)
(* handleUdpReceive, in the modem task                                     *)
(***************************************************************************)
ReceiveStarts ==
    /\ ~receiving
    /\ receiving' = TRUE
    /\ UNCHANGED <<at, udpVars, dtlsVars, sendVars, cli, rx>>

ReceiveStores ==
    /\ receiving
    /\ ~rx
    /\ rx' = TRUE
    /\ receiving' = FALSE
    /\ UNCHANGED <<at, udpVars, dtlsVars, sendVars, cli>>

\* The previous datagram was not taken in 100 tries, 5 ms apart.
ReceiveGivesUp ==
    /\ receiving
    /\ rx
    /\ receiving' = FALSE
    /\ UNCHANGED <<at, udpVars, dtlsVars, sendVars, cli, rx>>

(***************************************************************************)
(* Specification                                                           *)
(***************************************************************************)
Init ==
    /\ at = "udp"
    /\ udp = "init" /\ sid = 0 /\ uretry = 0 /\ lastSent = FALSE
    /\ dtls = "init" /\ bState = FALSE /\ initialOk = FALSE /\ dretry = 0
    /\ used = {} /\ sendq = <<>>
    /\ cli = "down"
    /\ rx = FALSE /\ receiving = FALSE

\* Steps of the task that need nothing from the modem task.
LocalStep ==
    \/ UdpInit \/ UdpConnecting \/ UdpClose \/ UdpReady
    \/ RecheckSession \/ RefreshSession
    \/ Receive \/ ProcessDtls
    \/ AppIdle \/ AppSends \/ AppReconnects

\* Results of the calls into the modem manager.
CallReturn ==
    \/ \E c \in BOOLEAN : UdpConnect(c)
    \/ \E i \in -1..MaxSession : RequestReturned(i)
    \/ CloseReturned \/ ReconnectReturns
    \/ SendOk \/ SendFailed

Next == LocalStep \/ CallReturn
           \/ ReceiveStarts \/ ReceiveStores \/ ReceiveGivesUp

Spec == Init /\ [][Next]_cloudVars

\* The task keeps running; the data connection is not refused for ever and
\* request_session does not fail for ever.
Fairness ==
    /\ WF_cloudVars(LocalStep)
    /\ WF_cloudVars(CallReturn)
    /\ SF_cloudVars(UdpConnect(TRUE))
    /\ SF_cloudVars(\E i \in 1..MaxSession : RequestReturned(i))

FairSpec == Spec /\ Fairness

(***************************************************************************)
(* Properties                                                              *)
(***************************************************************************)

\* Type invariant.  The UDP retry count passes its limit by one: DTLS_STATE_CLOSE
\* can force UDP_STATE_CLOSE before UDP_STATE_INIT resets the count.
TypeOK ==
    /\ at \in Positions
    /\ udp \in LinkStates
    /\ sid \in -1..MaxSession
    /\ uretry \in 0..UdpRetryLimit + 1
    /\ lastSent \in BOOLEAN
    /\ dtls \in LinkStates
    /\ bState \in BOOLEAN
    /\ initialOk \in BOOLEAN
    /\ dretry \in 0..DtlsRetryLimit
    /\ used \subseteq SendSlot
    /\ sendq \in Seq(SendSlot)
    /\ cli \in ClientStates
    /\ rx \in BOOLEAN
    /\ receiving \in BOOLEAN

\* The queue of pointers holds every used slot exactly once: no payload is
\* sent twice, none is overwritten while it waits, none is left without a
\* pointer, and xQueueSend in dtlsSendHandler never finds the queue full
\* (as_send_queue and queue_send, over every path that fills, sends, refuses
\* or flushes).
SlotsMatchQueue ==
    /\ used = {sendq[k] : k \in 1..Len(sendq)}
    /\ \A j, k \in 1..Len(sendq) : sendq[j] = sendq[k] => j = k

\* DTLS_STATE_READY is entered on the handshake of the current attempt only:
\* a late DTLS_EVENT_CONNECTED of an attempt that timed out does not count for
\* the next one (processDtlsState, dtlsEventHandler).
ReadyNeedsHandshake ==
    [][dtls = "connecting" /\ dtls' = "ready" => cli = "connected"]_cloudVars

\* The task never waits for the modem with a session id it does not have: it
\* sends only on a session, over reconnects started in any of three places.
SendNeedsSession == at = "send" \/ udp = "ready" => sid > 0

\* "will auto re-connect ...": after connect(), or an alert, a new handshake is
\* started, if the data connection and the session requests allow it and the
\* server does not send alerts for ever.
Reconnects == <>[][~ReceiveAlert]_cloudVars =>
                  (dtls = "init" ~> dtls = "connecting")

\* cloud_comms.cpp:44, "true = connected (i.e. handshake done)".
StateMeansHandshakeDone == bState => cli = "connected"
=============================================================================
