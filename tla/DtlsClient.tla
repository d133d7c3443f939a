----------------------------- MODULE DtlsClient -----------------------------
(***************************************************************************)
(* The DTLS client (src/src/general/lib/dtls/dtls_client.c) under the      *)
(* connection machine of the cloud task (processDtlsState in               *)
(* cloud_comms.cpp), against a server over UDP.                            *)
(*                                                                         *)
(* A key is the pair of randoms it is derived from, a handshake's hash the *)
(* sequence of the messages it covers: two are equal exactly when the code *)
(* computes equal octets.  The server and the network are external.        *)
(***************************************************************************)
EXTENDS Integers, Sequences, SequencesExt

CONSTANTS
    RetryLimit,   (* K_CLOUD_DTLS_CONN_RETRY_LIM                            *)
    Cookies,      (* external: the server asks for a cookie first           *)
    Faults,       (* external: what may go wrong, of FaultKinds             *)
    MaxFaults,    (* bound: how often                                       *)
    MaxConnects,  (* bound: calls of dtls_connect                           *)
    MaxSeq,       (* bound: records of data under a set of keys                *)
    MaxAir        (* bound: records on their way, in one direction          *)

FaultKinds == {"lose", "copy", "swap", "repeat", "alert", "close", "data",
               "full", "late", "reconnect"}

ASSUME DtlsAssumption ==
    /\ RetryLimit \in Nat \ {0}
    /\ Cookies \in BOOLEAN
    /\ Faults \subseteq FaultKinds
    /\ {MaxFaults, MaxConnects, MaxSeq, MaxAir} \subseteq Nat

VARIABLES
    at,        \* where the cloud task's cycle is
    client,    \* s_client, with the records it has written in this step
    app,       \* s_dtls_ctx.e_state
    up,        \* s_conn_status.b_state
    retry,     \* s_conn_status.ui8_retry
    okBefore,  \* s_conn_status.b_initial_ok
    toServer,  \* external: records on their way to the server
    toClient,  \* external: records on their way to the client
    server,    \* external: the server's handshake
    connects,  \* calls of dtls_connect so far
    faults,    \* faults so far
    agreed,    \* keys whose handshake the server has found complete
    sealed     \* keys and sequence numbers the client has encrypted with

taskVars == <<at, client, app, up, retry, okBefore>>
airVars  == <<toServer, toClient>>
vars == <<at, client, app, up, retry, okBefore, toServer, toClient, server,
          connects, faults, agreed, sealed>>

NoKey == <<0, 0>>

HandshakeStates == {"CLIENTHELLO", "WAIT_SERVERHELLODONE",
                    "WAIT_CHANGECIPHERSPEC", "WAIT_FINISHED"}
States    == HandshakeStates \union {"INIT", "CONNECTED", "CLOSING", "CLOSED"}
AppStates == {"INIT", "CONNECT", "CONNECTING", "CLOSE", "READY"}

-----------------------------------------------------------------------------
(* Records *)

\* dtls_security_init, and the epoch and keys set after it.
Params(epoch, key) == [epoch |-> epoch, key |-> key, rseq |-> 0]

\* Mutant of NewHandshake: the random of an earlier handshake is used again.
OldRandom(random) ==
    [random |-> 1, server |-> 0, sent |-> 0, rcvd |-> 0, log |-> <<>>,
     early |-> {}]

\* dtls_handshake_init, and the client's random.
NewHandshake(random) ==
    [random |-> random, server |-> 0, sent |-> 0, rcvd |-> 0, log |-> <<>>,
     early |-> {}]

Active(c) == c.slot[c.active]

\* dtls_prepare_record and dtls_send_multi.  hash is the transcript that a
\* Finished message covers.
Send(c, type, what, mseq, random, hash) ==
    LET s == Active(c)
        record == [epoch |-> s.epoch, key |-> s.key, seq |-> s.rseq,
                   type |-> type, what |-> what, mseq |-> mseq,
                   random |-> random, hash |-> hash]
    IN [c EXCEPT !.slot[c.active].rseq = @ + 1, !.out = Append(@, record)]

\* dtls_send_handshake_msg: the message is numbered and hashed.
SendMsg(c, what, random, hash) ==
    LET d == Send(c, "handshake", what, c.hs.sent, random, hash)
    IN [d EXCEPT !.hs.sent = @ + 1, !.hs.log = Append(@, <<what, random>>)]

SendAlert(c, what) == Send(c, "alert", what, 0, 0, <<>>)

\* dtls_close
Close(c) == [SendAlert(c, "close_notify") EXCEPT !.state = "CLOSING"]

\* dtls_alert_send_from_err
Fatal(c) == SendAlert([c EXCEPT !.state = "CLOSING"], "fatal")

-----------------------------------------------------------------------------
(* The messages of the handshake *)

\* dtls_send_client_hello without a cookie: a new random, and no hash.
ClientHello(c) ==
    LET d == SendMsg(c, "ClientHello", c.hs.random, <<>>)
    IN [d EXCEPT !.hs.log = <<>>]

\* ... and with the cookie of a HelloVerifyRequest: the hash starts here.
CookieHello(c) ==
    SendMsg([c EXCEPT !.hs.log = <<>>], "CookieHello", c.hs.random, <<>>)

\* handle_handshake_msg counts the message ...
Counted(c) == [c EXCEPT !.hs.rcvd = @ + 1]

\* Mutant of Hashed: the key exchange is left out of the hash.
HashedWithoutKey(c, r) ==
    IF r.what = "ServerKey" THEN c
    ELSE [c EXCEPT !.hs.log = Append(@, <<r.what, r.random>>)]

\* ... and each check_ function begins with update_hs_hash.
Hashed(c, r) == [c EXCEPT !.hs.log = Append(@, <<r.what, r.random>>)]

Enter(c, state) == [c EXCEPT !.state = state]

\* check_server_hello
ServerHello(c, r) ==
    Enter([Hashed(c, r) EXCEPT !.hs.server = r.random], "WAIT_SERVERHELLODONE")

\* calculate_key_block: the keys go to the other set of parameters.
CalculateKeys(c) ==
    LET key == <<c.hs.random, c.hs.server>>
    IN [c EXCEPT !.slot[3 - c.active] = Params(Active(c).epoch + 1, key)]

\* dtls_security_params_switch
Switch(c) == [c EXCEPT !.active = 3 - @]

\* dtls_send_client_key_exchange, dtls_send_ccs, dtls_send_finished
SendClientKey(c) == SendMsg(c, "ClientKey", 0, <<>>)
SendCcs(c)       == Send(c, "ccs", "ccs", 0, 0, <<>>)
SendFinished(c)  == SendMsg(c, "Finished", 0, c.hs.log)

\* check_server_hellodone: ClientKeyExchange and ChangeCipherSpec, then
\* Finished under the new keys.
HelloDone(c, r) ==
    LET ccs == SendCcs(CalculateKeys(SendClientKey(Hashed(c, r))))
    IN Enter(SendFinished(Switch(ccs)), "WAIT_CHANGECIPHERSPEC")

\* check_server_key_exchange_psk: the hint is not used.
ServerKeyExchange(c, r) == Hashed(c, r)

\* check_finished
FinishedMatches(c, r) == r.hash = c.hs.log

\* handle_handshake_msg.  Finished is not counted; a server's key exchange
\* before any ServerHello (no cipher yet) is only counted.
HandleMsg(c, r) ==
    CASE r.what = "HelloVerify" /\ c.state = "CLIENTHELLO" ->
           Counted(CookieHello(c))
      [] r.what = "ServerHello" /\ c.state = "CLIENTHELLO" ->
           Counted(ServerHello(c, r))
      [] r.what = "ServerKey" /\ c.hs.server = 0 ->
           Counted(Enter(c, "WAIT_SERVERHELLODONE"))
      [] r.what = "ServerKey" /\ c.hs.server # 0
           /\ c.state = "WAIT_SERVERHELLODONE" ->
           Counted(ServerKeyExchange(c, r))
      [] r.what = "HelloDone" /\ c.state = "WAIT_SERVERHELLODONE" ->
           Counted(HelloDone(c, r))
      [] r.what = "Finished" /\ c.state = "WAIT_FINISHED"
           /\ FinishedMatches(c, r) ->
           Enter(c, "CONNECTED")
      [] OTHER -> Fatal(c)

\* handle_handshake, for a record of the epoch in use: a message that comes
\* too early is dropped like one that comes again.
HandleHandshake(c, r) ==
    CASE r.epoch # Active(c).epoch -> c
      [] r.mseq < c.hs.rcvd -> c
      [] r.mseq > c.hs.rcvd -> [c EXCEPT !.hs.early = @ \union {r.mseq}]
      [] OTHER -> HandleMsg(c, r)

\* Mutant of HandleCcs: it ends the handshake, whenever it comes.
CcsConnects(c) ==
    IF c.state \in HandshakeStates THEN Enter(c, "CONNECTED") ELSE c

\* handle_ccs
HandleCcs(c) ==
    IF c.state = "WAIT_CHANGECIPHERSPEC" THEN Enter(c, "WAIT_FINISHED") ELSE c

\* handle_alert
HandleAlert(c, r) ==
    CASE r.what = "close_notify" /\ c.state # "CLOSING" -> Close(c)
      [] r.what = "close_notify" /\ c.state = "CLOSING" -> Enter(c, "CLOSED")
      [] r.what # "close_notify" /\ c.state \notin {"CLOSED", "CLOSING"} ->
           Close(c)
      [] OTHER -> c

\* dtls_security_params_epoch and dtls_decrypt.
Decrypts(c, r) ==
    LET i == IF c.slot[1].epoch = r.epoch THEN 1 ELSE 2
    IN c.slot[i].epoch = r.epoch /\ c.slot[i].key = r.key

\* dtls_handle_message, of one record.
HandleRecord(c, r) ==
    CASE ~Decrypts(c, r) ->
           IF c.state \in HandshakeStates \union {"INIT"}
           THEN Enter(Fatal(c), "CLOSED") ELSE c
      [] Decrypts(c, r) /\ r.type = "ccs"       -> HandleCcs(c)
      [] Decrypts(c, r) /\ r.type = "alert"     -> HandleAlert(c, r)
      [] Decrypts(c, r) /\ r.type = "handshake" -> HandleHandshake(c, r)
      [] Decrypts(c, r) /\ r.type = "data"      -> c

-----------------------------------------------------------------------------
(* The cloud task: dtls_handle_message in processUdpState, then             *)
(* processDtlsState, then the services if the handshake flag is set         *)

\* What a step of the client has written goes out.
Written(c) ==
    /\ Len(toServer) + Len(c.out) <= MaxAir
    /\ client' = [c EXCEPT !.out = <<>>]
    /\ sealed' = sealed \union
          {<<r.key, r.seq>> : r \in {x \in ToSet(c.out) : x.key # NoKey}}
    /\ toServer' = toServer \o c.out

\* Mutant of Event: any handshake record of the epoch in use raises the flag.
EventUnchecked(c, r) ==
    LET heard == Decrypts(client, r)
    IN /\ app' = IF heard /\ r.type = "alert" THEN "INIT" ELSE app
       /\ up' = (up \/ /\ heard /\ r.type = "handshake"
                       /\ r.epoch = Active(client).epoch)

\* dtlsEventHandler: an alert, or a handshake record of the epoch in use
\* after which the client is connected.
Event(c, r) ==
    LET heard == Decrypts(client, r)
    IN /\ app' = IF heard /\ r.type = "alert" THEN "INIT" ELSE app
       /\ up' = (up \/ /\ heard /\ r.type = "handshake"
                       /\ r.epoch = Active(client).epoch
                       /\ c.state = "CONNECTED")

Receive ==
    /\ at = "udp" /\ toClient # <<>>
    /\ LET r == Head(toClient)
           c == HandleRecord(client, r)
       IN Written(c) /\ Event(c, r)
    /\ toClient' = Tail(toClient)
    /\ at' = "dtls"
    /\ UNCHANGED <<retry, okBefore, server, connects, faults, agreed>>

NothingReceived ==
    /\ at = "udp"
    /\ at' = "dtls"
    /\ UNCHANGED <<client, app, up, retry, okBefore, toServer, toClient, server,
                   connects, faults, agreed, sealed>>

Fault(kind) ==
    /\ kind \in Faults /\ faults < MaxFaults
    /\ faults' = faults + 1

\* The services of cycle() run while the flag is set.
CycleEnds == at' = IF up' THEN "services" ELSE "udp"

\* DTLS_STATE_INIT: dtls_client_init sets the keys only.
AppInit ==
    /\ at = "dtls" /\ app = "INIT"
    /\ client' = [client EXCEPT !.slot = <<Params(0, NoKey), Params(0, NoKey)>>,
                                !.active = 1]
    /\ retry' = 0 /\ up' = FALSE /\ app' = "CONNECT"
    /\ CycleEnds
    /\ UNCHANGED <<okBefore, toServer, toClient, server, connects, faults,
                   agreed, sealed>>

\* dtls_connect
Connect ==
    Enter(ClientHello([client EXCEPT !.hs = NewHandshake(connects + 1)]),
          "CLIENTHELLO")

AppConnect ==
    /\ at = "dtls" /\ app = "CONNECT" /\ connects < MaxConnects
    /\ Written(Connect)
    /\ connects' = connects + 1
    /\ up' = FALSE /\ app' = "CONNECTING"
    /\ CycleEnds
    /\ UNCHANGED <<retry, okBefore, toClient, server, faults, agreed>>

\* connect(): disconnect(), and flush_buff, which takes the alert back.
Disconnected(c) ==
    /\ client' = [(IF up THEN Close(c) ELSE c) EXCEPT !.out = <<>>]
    /\ up' = FALSE /\ app' = "INIT"

\* The send queue is full: dtls_connect returns 0.
AppConnectFails ==
    /\ at = "dtls" /\ app = "CONNECT" /\ connects < MaxConnects
    /\ Fault("full")
    /\ Disconnected(Connect)
    /\ connects' = connects + 1
    /\ CycleEnds
    /\ UNCHANGED <<retry, okBefore, toServer, toClient, server, agreed, sealed>>

\* No UDP link yet, or nothing to do.
AppWaits ==
    /\ at = "dtls" /\ app \in {"CONNECT", "CONNECTING", "READY"}
    /\ app = "CONNECTING" => ~up
    /\ UNCHANGED <<client, app, up, retry, okBefore, toServer, toClient, server,
                   connects, faults, agreed, sealed>>
    /\ CycleEnds

AppConnected ==
    /\ at = "dtls" /\ app = "CONNECTING" /\ up
    /\ retry' = 0 /\ okBefore' = TRUE /\ app' = "READY"
    /\ UNCHANGED up
    /\ CycleEnds
    /\ UNCHANGED <<client, toServer, toClient, server, connects, faults, agreed,
                   sealed>>

TimesOut ==
    /\ at = "dtls" /\ app = "CONNECTING" /\ ~up
    /\ app' = "CLOSE"
    /\ UNCHANGED up
    /\ CycleEnds
    /\ UNCHANGED <<client, retry, okBefore, toServer, toClient, server, connects,
                   agreed, sealed>>

\* K_CLOUD_DTLS_CONN_TIMEOUT ...
AppTimeout ==
    /\ toServer = <<>> /\ toClient = <<>>
    /\ TimesOut
    /\ UNCHANGED faults

\* ... although records are still on their way.
AppTimeoutEarly ==
    /\ toServer # <<>> \/ toClient # <<>>
    /\ Fault("late")
    /\ TimesOut

\* Mutant of GivesUp: the retries are not counted out.
NeverGivesUp(n) == ~okBefore

\* DTLS_STATE_CLOSE starts from the UDP session again if no handshake has
\* ever succeeded, and after the last retry.
GivesUp(n) == ~okBefore \/ n >= RetryLimit

AppClose ==
    /\ at = "dtls" /\ app = "CLOSE"
    /\ Written(Close(client))
    /\ retry' = IF okBefore THEN retry + 1 ELSE retry
    /\ app' = IF GivesUp(retry') THEN "INIT" ELSE "CONNECT"
    /\ UNCHANGED up
    /\ CycleEnds
    /\ UNCHANGED <<okBefore, toClient, server, connects, faults, agreed>>

\* The services write (cloudNetSend) ...
AppWrites ==
    /\ at = "services" /\ client.state = "CONNECTED"
    /\ Active(client).rseq < MaxSeq
    /\ Written(Send(client, "data", "data", 0, 0, <<>>))
    /\ at' = "udp"
    /\ UNCHANGED <<app, up, retry, okBefore, toClient, server, connects, faults,
                   agreed>>

\* ... or have nothing to write, or dtls_write refuses ...
AppIdles ==
    /\ at = "services"
    /\ at' = "udp"
    /\ UNCHANGED <<client, app, up, retry, okBefore, toServer, toClient, server,
                   connects, faults, agreed, sealed>>

\* ... or reconnect: connect(), for the errors a server answers (a fault) ...
AppReconnects ==
    /\ at = "services"
    /\ Fault("reconnect")
    /\ Disconnected(client)
    /\ at' = "udp"
    /\ UNCHANGED <<retry, okBefore, toServer, toClient, server, connects, agreed,
                   sealed>>

ServerStates == {"none", "hello", "key", "ccs", "up"}

\* The keys of the epoch the server reads.
ServerKey == IF server.state \in {"ccs", "up"}
             THEN <<server.client, server.random>> ELSE NoKey

\* The client and the server can talk.
Linked == /\ client.state = "CONNECTED" /\ server.state = "up"
          /\ Active(client).key = ServerKey

\* ... or when its answers do not come (K_CLOUD_RESPONSE_TIMEOUT_RETRY_LIM).
AppMissesAnswers ==
    /\ at = "services" /\ ~Linked
    /\ Disconnected(client)
    /\ at' = "udp"
    /\ UNCHANGED <<retry, okBefore, toServer, toClient, server, connects, faults,
                   agreed, sealed>>

Task == \/ Receive \/ NothingReceived
        \/ AppInit \/ AppConnect \/ AppConnectFails \/ AppWaits
        \/ AppConnected \/ AppTimeout \/ AppTimeoutEarly \/ AppClose
        \/ AppWrites \/ AppIdles \/ AppReconnects \/ AppMissesAnswers

-----------------------------------------------------------------------------
(* The server: external.  It keeps one handshake, answers a ClientHello     *)
(* without its cookie with a HelloVerifyRequest and keeps nothing then, and *)
(* starts anew with each valid one.                                         *)

Answer(key, type, what, mseq, random, hash) ==
    [epoch |-> IF key = NoKey THEN 0 ELSE 1, key |-> key, seq |-> 0,
     type |-> type, what |-> what, mseq |-> mseq, random |-> random,
     hash |-> hash]

Sends(records) ==
    /\ Len(toClient) + Len(records) <= MaxAir
    /\ toClient' = toClient \o records

Verify == Answer(NoKey, "handshake", "HelloVerify", 0, 0, <<>>)

FirstSeq == IF Cookies THEN 1 ELSE 0

Flight(s) ==
    << Answer(NoKey, "handshake", "ServerHello", FirstSeq, s.random, <<>>),
       Answer(NoKey, "handshake", "ServerKey", FirstSeq + 1, 0, <<>>),
       Answer(NoKey, "handshake", "HelloDone", FirstSeq + 2, 0, <<>>) >>

Started(r) ==
    LET random == server.random + 1
    IN [state |-> "hello", client |-> r.random, random |-> random,
        log |-> << <<r.what, r.random>>, <<"ServerHello", random>>,
                   <<"ServerKey", 0>>, <<"HelloDone", 0>> >>]

Takes(r, state) == [server EXCEPT !.state = state,
                                  !.log = Append(@, <<r.what, 0>>)]

ServerHears(r) ==
    CASE r.what = "ClientHello" /\ r.key = NoKey /\ Cookies ->
           Sends(<<Verify>>) /\ UNCHANGED <<server, agreed>>
      [] r.what = (IF Cookies THEN "CookieHello" ELSE "ClientHello")
         /\ r.key = NoKey ->
           /\ server' = IF server.state = "hello" /\ server.client = r.random
                        THEN server ELSE Started(r)
           /\ Sends(Flight(server'))
           /\ UNCHANGED agreed
      [] r.what = "ClientKey" /\ r.key = NoKey /\ server.state = "hello" ->
           server' = Takes(r, "key") /\ UNCHANGED <<toClient, agreed>>
      [] r.what = "ccs" /\ r.key = NoKey /\ server.state = "key" ->
           /\ server' = [server EXCEPT !.state = "ccs"]
           /\ UNCHANGED <<toClient, agreed>>
      [] r.what = "Finished" /\ server.state = "ccs" /\ r.key = ServerKey
         /\ r.hash = server.log ->
           /\ server' = Takes(r, "up")
           /\ Sends(<<Answer(NoKey, "ccs", "ccs", 0, 0, <<>>),
                      Answer(ServerKey, "handshake", "Finished", FirstSeq + 3, 0,
                             server'.log)>>)
           /\ agreed' = agreed \union {ServerKey}
      [] r.what = "Finished" /\ server.state = "ccs" /\ r.key = ServerKey
         /\ r.hash # server.log ->
           /\ server' = [server EXCEPT !.state = "none"]
           /\ Sends(<<Answer(ServerKey, "alert", "fatal", 0, 0, <<>>)>>)
           /\ UNCHANGED agreed
      [] r.type = "alert" /\ r.key = ServerKey ->
           /\ server' = [server EXCEPT !.state = "none"]
           /\ UNCHANGED <<toClient, agreed>>
      [] OTHER -> UNCHANGED <<toClient, server, agreed>>

ServerReceives ==
    /\ toServer # <<>>
    /\ ServerHears(Head(toServer))
    /\ toServer' = Tail(toServer)
    /\ UNCHANGED <<taskVars, connects, faults, sealed>>

\* It may repeat its flight, close, report an error, or send data.
ServerActs ==
    /\ \/ /\ Fault("repeat") /\ server.state = "hello"
          /\ Sends(Flight(server))
          /\ UNCHANGED server
       \/ /\ Fault("close") /\ server.state = "up"
          /\ Sends(<<Answer(ServerKey, "alert", "close_notify", 0, 0, <<>>)>>)
          /\ server' = [server EXCEPT !.state = "none"]
       \/ /\ Fault("alert") /\ server.state \in {"hello", "key"}
          /\ Sends(<<Answer(NoKey, "alert", "fatal", 0, 0, <<>>)>>)
          /\ server' = [server EXCEPT !.state = "none"]
       \/ /\ Fault("data") /\ server.state = "up"
          /\ Sends(<<Answer(ServerKey, "data", "data", 0, 0, <<>>)>>)
          /\ UNCHANGED server
    /\ UNCHANGED <<taskVars, toServer, connects, agreed, sealed>>

\* The network loses, copies and swaps records: what may become of them.
Lost(air) == {RemoveAt(air, i) : i \in 1..Len(air)}

Copied(air) == IF Len(air) < MaxAir
               THEN {Append(air, r) : r \in ToSet(air)} ELSE {}

Swapped(air) == {[air EXCEPT ![i] = air[i + 1], ![i + 1] = air[i]] :
                    i \in 1..(Len(air) - 1)}

Disturbs(there, back) == \/ toServer' \in there /\ UNCHANGED toClient
                         \/ toClient' \in back /\ UNCHANGED toServer

Network ==
    /\ \/ Fault("lose") /\ Disturbs(Lost(toServer), Lost(toClient))
       \/ Fault("copy") /\ Disturbs(Copied(toServer), Copied(toClient))
       \/ Fault("swap") /\ Disturbs(Swapped(toServer), Swapped(toClient))
    /\ UNCHANGED <<taskVars, server, connects, agreed, sealed>>

-----------------------------------------------------------------------------
Init ==
    /\ at = "udp" /\ app = "INIT" /\ up = FALSE /\ retry = 0 /\ okBefore = FALSE
    /\ client = [state |-> "INIT", active |-> 1, out |-> <<>>,
                 slot |-> <<Params(0, NoKey), Params(0, NoKey)>>,
                 hs |-> NewHandshake(0)]
    /\ toServer = <<>> /\ toClient = <<>>
    /\ server = [state |-> "none", client |-> 0, random |-> 0, log |-> <<>>]
    /\ connects = 0 /\ faults = 0 /\ agreed = {} /\ sealed = {}

Next == Task \/ ServerReceives \/ ServerActs \/ Network

Spec == Init /\ [][Next]_vars

\* The task runs and takes what arrives, its link comes up, its timeouts
\* pass, and the server answers.
Fairness == /\ WF_vars(Task)
            /\ WF_vars(ServerReceives)
            /\ SF_vars(Receive)
            /\ SF_vars(AppTimeout)
            /\ SF_vars(AppConnect)
            /\ SF_vars(AppMissesAnswers)

FairSpec == Spec /\ Fairness

-----------------------------------------------------------------------------
(* Properties *)

\* TypeOK: every variable stays in its type, and no retry is begun at the limit.
TypeOK ==
    /\ at \in {"udp", "dtls", "services"}
    /\ client.state \in States /\ client.active \in {1, 2}
    /\ client.out = <<>>
    /\ \A i \in {1, 2} : /\ client.slot[i].epoch \in 0..1
                         /\ client.slot[i].rseq \in Nat
    /\ client.hs.sent \in 0..4 /\ client.hs.rcvd \in 0..4
    /\ app \in AppStates /\ {up, okBefore} \subseteq BOOLEAN
    /\ retry \in 0..RetryLimit /\ (app = "CONNECT" => retry < RetryLimit)
    /\ server.state \in ServerStates
    /\ connects \in 0..MaxConnects /\ faults \in 0..MaxFaults
    /\ Len(toServer) <= MaxAir /\ Len(toClient) <= MaxAir

\* Agreement: a client that is CONNECTED uses the keys of a handshake that
\* the server has found complete, whatever was lost, repeated or left over
\* from an earlier attempt (handle_ccs, check_finished, the epochs and the
\* message numbers together).
Agreement == client.state = "CONNECTED" => Active(client).key \in agreed

\* FreshSequence: no record is encrypted with keys and a sequence number that
\* have been used before (dtls_prepare_record forms the nonce from them),
\* although every handshake starts its sequence numbers at 0.
FreshSequence ==
    \A i \in {1, 2} : client.slot[i].key # NoKey =>
        \A used \in sealed : used[1] = client.slot[i].key
                             => used[2] < client.slot[i].rseq

\* SameTranscript: a Finished message that the server can read covers the
\* messages the server has seen; check_server_hello takes a ServerHello or a
\* HelloVerifyRequest as the answer to a ClientHello.
SameTranscript ==
    \A i \in 1..Len(toServer) :
        (/\ toServer[i].what = "Finished"
         /\ server.state = "ccs" /\ toServer[i].key = ServerKey)
        => toServer[i].hash = server.log

\* EarlyIsKept: a handshake message that came before its turn is there when
\* its turn comes ("Added packet for reordering", handle_handshake).
EarlyIsKept ==
    client.state \in HandshakeStates => client.hs.rcvd \notin client.hs.early

\* RetryIsReadable: the ClientHello of a retry ("retry connection",
\* DTLS_STATE_CLOSE) is one that starts a handshake: in the clear.
RetryIsReadable ==
    \A i \in 1..Len(toServer) :
        toServer[i].what = "ClientHello" => toServer[i].key = NoKey

\* ReadyIsConnected: while processDtlsState is READY, the client is connected
\* ("true = connected (i.e. handshake done)", b_state).
ReadyIsConnected == app = "READY" => client.state = "CONNECTED"

\* AsCloudCommsAssumes: the client is what CloudComms takes it for: closed, it
\* is woken by dtls_connect only, the flag is raised on a connected client
\* only, and only dtls_connect leads from connected back to a handshake.
Abstract(c) == CASE c.state \in HandshakeStates -> "handshake"
                 [] c.state = "CONNECTED" -> "connected"
                 [] OTHER -> "down"

AsCloudCommsAssumes ==
    [][/\ (up' /\ ~up) => client'.state = "CONNECTED"
       /\ Abstract(client') # Abstract(client) =>
            \/ Abstract(client') = "down"
            \/ Abstract(client) = "handshake" /\ Abstract(client') = "connected"
            \/ connects' = connects + 1]_vars

\* Reconnects: after any of the faults the task is connected again, with the
\* keys of the server.
Reconnects == []<>(app = "READY" /\ Linked)
=============================================================================
