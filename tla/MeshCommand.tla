----------------------------- MODULE MeshCommand -----------------------------
(***************************************************************************)
(* The commands of the server to a mesh node without a cloud connection    *)
(* (src/app/lora_mesh/mesh_commands.c).  A response byte tells the node    *)
(* that a command waits; it gets the command through its parent, executes  *)
(* it, and puts the result.  The callbacks of received messages and the    *)
(* cycle run in one task.                                                  *)
(***************************************************************************)
EXTENDS MeshRequests

CONSTANTS
    Commands, (* what the server may ask for: "mcureset" and others *)
    Retries   (* sends of a result before giving up: 180 / 5        *)

ASSUME CommandAssumption == Retries \in Nat \ {0}

VARIABLES
    st,         \* e_state
    requested,  \* b_requested
    processed,  \* b_processed
    mcureset,   \* b_mcureset
    payload,    \* au8_payload_buf and sz_payload_len: Nothing is length 0
    retries,    \* u16_num_retries
    reset,      \* the MCU's reset has been requested
    unprepared, \* commands whose result could not be put together
    received    \* what parents have received as results

requestVars == <<id, ack, last, air, losses>>
ghosts      == <<reset, unprepared, received>>
vars == <<id, ack, last, air, losses, st, requested, processed, mcureset,
          payload, retries, reset, unprepared, received>>

States == {"IDLE", "GET_COMMAND", "WAIT_COMMAND", "PROCESS_CMD",
           "SEND_RESULT", "WAIT_RESPONSE", "RETRY_DELAY"}

Init ==
    /\ st = "IDLE" /\ requested = FALSE /\ processed = FALSE
    /\ mcureset = FALSE /\ payload = Nothing /\ id = 0 /\ ack = "none"
    /\ retries = 0 /\ last = 0 /\ air = {} /\ losses = 0
    /\ reset = FALSE /\ unprepared = {} /\ received = {}

\* meshCommandInit: memset
Cleared ==
    /\ st' = "IDLE" /\ requested' = FALSE /\ processed' = FALSE
    /\ mcureset' = FALSE /\ payload' = Nothing /\ id' = 0 /\ ack' = "none"
    /\ retries' = 0

-----------------------------------------------------------------------------
(* meshCommandCycle *)

\* prepareGetCommandPayload; without a parent, or a clock, nothing happens
Idle ==
    /\ st = "IDLE" /\ requested
    /\ st' = "GET_COMMAND" /\ payload' = Ask
    /\ UNCHANGED <<requestVars, requested, processed, mcureset, retries, ghosts>>

\* Only a request that asks is answered with a command.
Details(n) ==
    IF payload = Ask THEN {Answer(n, Payload("command", c)) : c \in Commands} ELSE {}

GetCommand ==
    /\ st = "GET_COMMAND"
    /\ ack' = "none"
    /\ \/ NotSent(0) /\ st' = "RETRY_DELAY" /\ UNCHANGED payload
       \/ /\ id' = Id(0) /\ last' = Id(0)
          /\ \/ \E d \in Details(id') : Sent(id', {Ack(id', "ACK"), d})
             \/ payload # Ask /\ Sent(id', {Ack(id', "ACK")})
          /\ payload' = Nothing /\ st' = "WAIT_COMMAND"
    /\ UNCHANGED <<requested, processed, mcureset, retries, ghosts>>

\* Mutant of GotCommand: the request is left standing.
GotCommandKeeps ==
    /\ st = "WAIT_COMMAND" /\ payload # Nothing
    /\ retries' = 0 /\ st' = "PROCESS_CMD"
    /\ UNCHANGED <<requestVars, requested, processed, mcureset, payload, ghosts>>

GotCommand ==
    /\ st = "WAIT_COMMAND" /\ payload # Nothing
    /\ requested' = FALSE /\ retries' = 0 /\ st' = "PROCESS_CMD"
    /\ UNCHANGED <<requestVars, processed, mcureset, payload, ghosts>>

\* K_MESH_CLOUD_REQUEST_RESPONSE_TIMEOUT
CommandTimeout ==
    /\ st = "WAIT_COMMAND" /\ payload = Nothing /\ TimesOut
    /\ st' = "RETRY_DELAY"
    /\ UNCHANGED <<requestVars, requested, processed, mcureset, payload, retries,
                   ghosts>>

\* processCommand, preparePutResponsePayload.  A command that is not
\* understood has a result as well: that it failed.
ProcessCmd ==
    /\ st = "PROCESS_CMD"
    /\ mcureset' = (mcureset \/ payload.of = "mcureset")
    /\ \/ /\ processed' = TRUE /\ id' = 0 /\ st' = "SEND_RESULT"
          /\ payload' = Payload("result", payload.of)
          /\ UNCHANGED <<losses, unprepared>>
       \/ /\ Fails
          /\ processed' = FALSE /\ st' = "RETRY_DELAY"
          /\ unprepared' = unprepared \union {payload.of}
          /\ UNCHANGED <<id, payload>>
    /\ UNCHANGED <<ack, last, air, requested, retries, reset, received>>

SendResult ==
    /\ st = "SEND_RESULT"
    /\ ack' = "none"
    /\ \/ NotSent(id) /\ st' = "RETRY_DELAY" /\ UNCHANGED received
       \/ /\ id' = Id(id) /\ last' = IF id = 0 THEN id' ELSE last
          /\ st' = "WAIT_RESPONSE"
          /\ \/ /\ Sent(id', {Ack(id', "ACK")})
                /\ received' = received \union {payload}
             \/ /\ HalfAnswered(id', {})
                /\ UNCHANGED received
    /\ UNCHANGED <<requested, processed, mcureset, payload, retries, reset, unprepared>>

ResultAcked ==
    /\ st = "WAIT_RESPONSE" /\ ack = "ACK"
    /\ reset' = (reset \/ mcureset)
    /\ st' = "IDLE"
    /\ UNCHANGED <<requestVars, requested, processed, mcureset, payload, retries,
                   unprepared, received>>

\* a NACK, or K_MESH_CLOUD_REPORT_ACK_TIMEOUT
ResultRefused ==
    /\ st = "WAIT_RESPONSE" /\ ack # "ACK"
    /\ ack = "none" => TimesOut
    /\ st' = "RETRY_DELAY"
    /\ UNCHANGED <<requestVars, requested, processed, mcureset, payload, retries,
                   ghosts>>

\* Mutant of RetryDelay: at the limit nothing is cleared.
RetryDelayStays ==
    /\ st = "RETRY_DELAY"
    /\ \/ /\ processed /\ retries + 1 < Retries
          /\ retries' = retries + 1 /\ st' = "SEND_RESULT"
       \/ processed /\ retries + 1 >= Retries /\ UNCHANGED <<retries, st>>
       \/ ~processed /\ st' = "IDLE" /\ UNCHANGED retries
    /\ UNCHANGED <<requestVars, requested, processed, mcureset, payload, ghosts>>

\* "just resend the result", or give up; without a result the server will
\* ask again
RetryDelay ==
    /\ st = "RETRY_DELAY"
    /\ \/ /\ processed /\ retries + 1 < Retries
          /\ retries' = retries + 1 /\ st' = "SEND_RESULT"
          /\ UNCHANGED <<requested, processed, mcureset, payload, id, ack>>
       \/ processed /\ retries + 1 >= Retries /\ Cleared
       \/ /\ ~processed
          /\ st' = "IDLE"
          /\ UNCHANGED <<requested, processed, mcureset, payload, id, ack, retries>>
    /\ UNCHANGED <<last, air, losses, ghosts>>

Cycle ==
    \/ Idle \/ GetCommand \/ GotCommand \/ CommandTimeout \/ ProcessCmd
    \/ SendResult \/ ResultAcked \/ ResultRefused \/ RetryDelay

-----------------------------------------------------------------------------
\* meshCommandParseServerResponse: EP_SERVER_RESP_OPERATION_REQ ...
OperationRequest ==
    /\ st = "IDLE" /\ ~requested
    /\ requested' = TRUE
    /\ UNCHANGED <<requestVars, st, processed, mcureset, payload, retries, ghosts>>

\* ... and the details of a command.  Late ones overwrite the buffer in
\* whatever state their id is still the current one.
ServerResponse(m) ==
    /\ m \in air /\ m.is.kind \notin Acks
    /\ air' = air \ {m}
    /\ IF m.id = id THEN id' = 0 /\ payload' = m.is
                    ELSE UNCHANGED <<id, payload>>
    /\ UNCHANGED <<ack, last, losses, st, requested, processed, mcureset, retries,
                   ghosts>>

\* Mutant of RequestAck: the id is not compared.
RequestAckOfAny(m) ==
    /\ m \in air /\ m.is.kind \in Acks
    /\ air' = air \ {m}
    /\ ack' = m.is.kind
    /\ UNCHANGED <<id, last, losses, st, requested, processed, mcureset, payload,
                   retries, ghosts>>

\* meshCommandParseRequestAck
RequestAck(m) ==
    /\ m \in air /\ m.is.kind \in Acks
    /\ air' = air \ {m}
    /\ ack' = IF m.id = id THEN m.is.kind ELSE ack
    /\ UNCHANGED <<id, last, losses, st, requested, processed, mcureset, payload,
                   retries, ghosts>>

Receive == \E m \in air : ServerResponse(m) \/ RequestAck(m)

Lose(m) ==
    /\ Lost(m)
    /\ UNCHANGED <<id, ack, last, st, requested, processed, mcureset, payload,
                   retries, ghosts>>

Next == Cycle \/ OperationRequest \/ Receive \/ \E m \in air : Lose(m)

Spec == Init /\ [][Next]_vars

\* The task runs (meshCommsCycle), and what is not lost arrives.
Fairness == WF_vars(Cycle) /\ WF_vars(Receive)

FairSpec == Spec /\ Fairness

-----------------------------------------------------------------------------
(* Properties *)

\* TypeOK: the context stays within its ranges, the retries below their limit.
TypeOK ==
    /\ st \in States
    /\ {requested, processed, mcureset, reset} \subseteq BOOLEAN
    /\ payload.kind \in {"none", "ask", "command", "result"}
    /\ id \in 0..MaxId /\ last \in 0..MaxId /\ retries \in 0..(Retries - 1)
    /\ ack \in Acks \union {"none"}

\* ResetIsReported: the MCU is reset for a command of the server only, and
\* (but where the result cannot be put together) not before a parent has that
\* result: an acknowledgement that is late or of another request does not do.
ResetIsReported ==
    reset => \/ Payload("result", "mcureset") \in received
             \/ "mcureset" \in unprepared

\* Settles: the machine always comes back to look for a command, even if
\* everything is lost for ever (meshCommandCycle gives up after 36 sends).
Settles == []<>(st = "IDLE")

\* Obtained: a command that waits is got, or given up, once failures end.
Obtained == requested ~> ~requested

\* ResultsOnly: what a parent gets as the result of a command is one ("just
\* resend the result", meshCommandCycle).
ResultsOnly == \A p \in received : p.kind = "result"

\* AsksForCommand: what GET_COMMAND sends is the request for a command
\* ("request for command details", e_state).
AsksForCommand == st = "GET_COMMAND" => payload = Ask
=============================================================================
