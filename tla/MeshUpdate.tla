----------------------------- MODULE MeshUpdate ------------------------------
(***************************************************************************)
(* The firmware update of a mesh node without a cloud connection           *)
(* (src/app/lora_mesh/mesh_update.c): it gets the details of the file      *)
(* through its parent, then the file chunk by chunk, verifies the hash,    *)
(* puts the result, and reboots to the new firmware when the parent has    *)
(* acknowledged that.  The server may change its file between two answers. *)
(***************************************************************************)
EXTENDS MeshRequests, Sequences

CONSTANTS
    Versions,  (* the files a server may have: a hash stands for its file *)
    Chunks,    (* chunks of a file                                       *)
    ChunkErrs, (* consecutive chunk errors before giving up: 20          *)
    Retries,   (* sends of a result before giving up: 600 / 5            *)
    Wrap       (* u16_num_retries wraps: 2^16                            *)

ASSUME UpdateAssumption ==
    /\ {Chunks, ChunkErrs, Retries, Wrap} \subseteq Nat \ {0} /\ Retries < Wrap
    /\ {"bad", "none"} \intersect Versions = {}

VARIABLES
    st,        \* s_mesh_update.e_state
    result,    \* e_result
    requested, \* b_requested
    processed, \* b_processed
    payload,   \* au8_payload_buf and sz_payload_len: Nothing is length 0
    retries,   \* u16_num_retries
    hash,      \* s_details.ac_hash
    dl,        \* s_download.e_state
    offset,    \* ui32_chunk_offset, in chunks
    chunkErr,  \* ui16_chunk_err
    file,      \* the temporary file: the version each chunk is of
    app,       \* K_APP_UPDATE_FILE
    boot,      \* BOOTFLAG_UPDATE_APP, and the reset requested
    received   \* what a parent received last as a result

requestVars  == <<id, ack, last, air, losses>>
downloadVars == <<hash, dl, offset, chunkErr, file, app>>
ghosts       == <<boot, received>>
vars == <<id, ack, last, air, losses, st, result, requested, processed, payload,
          retries, hash, dl, offset, chunkErr, file, app, boot, received>>

States == {"IDLE", "GET_INFO", "WAIT_INFO", "DOWNLOAD_FILE", "SEND_RESULT",
           "WAIT_RESPONSE", "RETRY_DELAY"}
DownloadStates == {"IDLE", "GET_CHUNK", "WAIT_CHUNK", "VERIFY", "RETRY_DELAY"}
Results == {"UNKNOWN", "INTERNAL_ERROR", "UPDATE_INFO_ERROR", "DOWNLOAD_ERROR",
            "HASH_MISMATCH_ERROR", "UPDATE_STARTED"}

AskChunk == Payload("askchunk", "none")

\* meshUpdateInit
Init ==
    /\ st = "IDLE" /\ result = "UNKNOWN" /\ requested = FALSE /\ processed = FALSE
    /\ payload = Nothing /\ id = 0 /\ ack = "none" /\ retries = 0
    /\ hash = "none" /\ dl = "IDLE" /\ offset = 0 /\ chunkErr = 0
    /\ file = <<>> /\ app = <<>> /\ boot = FALSE /\ received = Nothing
    /\ last = 0 /\ air = {} /\ losses = 0

-----------------------------------------------------------------------------
(* meshUpdateCycle *)

\* prepareGetUpdateInfoPayload; without a parent, or a clock, nothing happens
Idle ==
    /\ st = "IDLE" /\ requested
    /\ st' = "GET_INFO" /\ payload' = Ask /\ hash' = "none"
    /\ UNCHANGED <<requestVars, result, requested, processed, retries, dl, offset,
                   chunkErr, file, app, ghosts>>

\* What a request is answered with, if it is one.
Info(n)  == IF payload = Ask
            THEN {Answer(n, Payload("info", v)) : v \in Versions \union {"bad"}} ELSE {}
Chunk(n) == IF payload = AskChunk
            THEN {Answer(n, Payload("chunk", v)) : v \in Versions} ELSE {}

\* meshCommsSend of a GET, answered as given, or refused by the server
Get(answers) ==
    /\ id' = Id(0) /\ last' = Id(0)
    /\ \/ \E d \in answers : Sent(id', {Ack(id', "ACK"), d})
       \/ answers = {} /\ Sent(id', {Ack(id', "ACK")})
    /\ payload' = Nothing

GetInfo ==
    /\ st = "GET_INFO"
    /\ \/ NotSent(0) /\ st' = "RETRY_DELAY" /\ UNCHANGED payload
       \/ Get(Info(Id(0))) /\ st' = "WAIT_INFO"
    /\ UNCHANGED <<ack, result, requested, processed, retries, downloadVars, ghosts>>

\* Mutant of GotInfo: the request is left standing.
GotInfoKeeps ==
    /\ st = "WAIT_INFO" /\ payload # Nothing
    /\ IF payload.of \in Versions
         THEN /\ hash' = payload.of /\ result' = "UNKNOWN" /\ st' = "DOWNLOAD_FILE"
              /\ dl' = "IDLE" /\ offset' = 0 /\ chunkErr' = 0 /\ file' = <<>>
         ELSE /\ result' = "UPDATE_INFO_ERROR" /\ st' = "SEND_RESULT"
              /\ UNCHANGED <<hash, dl, offset, chunkErr, file>>
    /\ UNCHANGED <<requestVars, requested, processed, payload, retries, app, ghosts>>

\* parseFileInfo: the details may not parse, or the file not open; then the
\* buffer is sent as it is.
GotInfo ==
    /\ st = "WAIT_INFO" /\ payload # Nothing
    /\ requested' = FALSE
    /\ \/ /\ payload.of \in Versions
          /\ hash' = payload.of /\ result' = "UNKNOWN" /\ st' = "DOWNLOAD_FILE"
          /\ dl' = "IDLE" /\ offset' = 0 /\ chunkErr' = 0 /\ file' = <<>>
          /\ UNCHANGED losses
       \/ /\ payload.of \in Versions /\ Fails
          /\ hash' = payload.of /\ result' = "INTERNAL_ERROR" /\ st' = "SEND_RESULT"
          /\ UNCHANGED <<dl, offset, chunkErr, file>>
       \/ /\ payload.of \notin Versions
          /\ result' = "UPDATE_INFO_ERROR" /\ st' = "SEND_RESULT"
          /\ UNCHANGED <<hash, dl, offset, chunkErr, file, losses>>
    /\ UNCHANGED <<id, ack, last, air, processed, payload, retries, app, ghosts>>

\* K_MESH_CLOUD_REQUEST_RESPONSE_TIMEOUT
InfoTimeout ==
    /\ st = "WAIT_INFO" /\ payload = Nothing /\ TimesOut
    /\ st' = "RETRY_DELAY"
    /\ UNCHANGED <<requestVars, result, requested, processed, payload, retries,
                   downloadVars, ghosts>>

SendResult ==
    /\ st = "SEND_RESULT"
    /\ ack' = "none"
    /\ \/ NotSent(id) /\ st' = "RETRY_DELAY" /\ UNCHANGED received
       \/ /\ id' = Id(id) /\ last' = IF id = 0 THEN id' ELSE last
          /\ st' = "WAIT_RESPONSE"
          /\ \/ Sent(id', {Ack(id', "ACK")}) /\ received' = payload
             \/ HalfAnswered(id', {}) /\ UNCHANGED received
    /\ UNCHANGED <<result, requested, processed, payload, retries, downloadVars, boot>>

ResultAcked ==
    /\ st = "WAIT_RESPONSE" /\ ack = "ACK"
    /\ boot' = (boot \/ result = "UPDATE_STARTED")
    /\ st' = "IDLE"
    /\ UNCHANGED <<requestVars, result, requested, processed, payload, retries,
                   downloadVars, received>>

\* a NACK, or K_MESH_CLOUD_REPORT_ACK_TIMEOUT
ResultRefused ==
    /\ st = "WAIT_RESPONSE" /\ ack # "ACK"
    /\ ack = "none" => TimesOut
    /\ st' = "RETRY_DELAY"
    /\ UNCHANGED <<requestVars, result, requested, processed, payload, retries,
                   downloadVars, ghosts>>

\* Mutant of RetryDelay: a wider counter, which does not wrap.
RetryDelayWide ==
    /\ st = "RETRY_DELAY"
    /\ IF processed
         THEN /\ retries' = IF retries < Retries THEN retries + 1 ELSE retries
              /\ st' = IF retries' < Retries THEN "SEND_RESULT" ELSE st
         ELSE st' = "IDLE" /\ UNCHANGED retries
    /\ UNCHANGED <<requestVars, result, requested, processed, payload,
                   downloadVars, ghosts>>

\* "just resend the result"; at the limit the machine stays where it is and
\* counts on.  Without a result, "the server itself will just re-queue the
\* update request".
RetryDelay ==
    /\ st = "RETRY_DELAY"
    /\ IF processed
         THEN /\ retries' = (retries + 1) % Wrap
              /\ st' = IF retries' < Retries THEN "SEND_RESULT" ELSE st
         ELSE st' = "IDLE" /\ UNCHANGED retries
    /\ UNCHANGED <<requestVars, result, requested, processed, payload,
                   downloadVars, ghosts>>

-----------------------------------------------------------------------------
(* processDownload, and what UPDATE_STATE_DOWNLOAD_FILE makes of it *)

\* The result is known: preparePutUpdateInfoPayload puts it together ...
Prepared(res) ==
    /\ processed' = TRUE /\ id' = 0 /\ st' = "SEND_RESULT"
    /\ payload' = Payload("result", res)

\* ... or fails, and the next cycle tries again.
PrepareFails == processed' = FALSE /\ UNCHANGED <<id, st, payload>>

\* prepareGetUpdateFilePayload; a download whose result is known has only that
\* to send.
DownloadIdle ==
    /\ st = "DOWNLOAD_FILE" /\ dl = "IDLE"
    /\ \/ /\ offset < Chunks /\ dl' = "GET_CHUNK" /\ payload' = AskChunk
          /\ UNCHANGED <<id, st, processed, losses>>
       \/ /\ offset < Chunks /\ Fails /\ st' = "RETRY_DELAY"
          /\ UNCHANGED <<id, dl, payload, processed>>
       \/ /\ offset >= Chunks /\ result # "UNKNOWN"
          /\ \/ Prepared(result) /\ UNCHANGED losses
             \/ Fails /\ PrepareFails
          /\ UNCHANGED dl
    /\ UNCHANGED <<ack, last, air, result, requested, retries, hash, offset, chunkErr,
                   file, app, ghosts>>

GetChunk ==
    /\ st = "DOWNLOAD_FILE" /\ dl = "GET_CHUNK"
    /\ \/ NotSent(0) /\ dl' = "RETRY_DELAY" /\ UNCHANGED payload
       \/ Get(Chunk(Id(0))) /\ dl' = "WAIT_CHUNK"
    /\ UNCHANGED <<ack, st, result, requested, processed, retries, hash, offset,
                   chunkErr, file, app, ghosts>>

\* parseFileChunks: the chunk is written, and the offset moves on ...
WriteChunk ==
    /\ st = "DOWNLOAD_FILE" /\ dl = "WAIT_CHUNK" /\ payload # Nothing
    /\ file' = Append(file, payload.of)
    /\ offset' = offset + 1 /\ chunkErr' = 0
    /\ dl' = IF offset' >= Chunks THEN "VERIFY" ELSE "IDLE"
    /\ UNCHANGED <<requestVars, st, result, requested, processed, payload, retries,
                   hash, app, ghosts>>

\* ... or the header or its checksum is wrong, or nothing came in 10 s ...
ChunkBad ==
    /\ st = "DOWNLOAD_FILE" /\ dl = "WAIT_CHUNK"
    /\ \/ payload # Nothing /\ Fails
       \/ payload = Nothing /\ TimesOut /\ UNCHANGED losses
    /\ dl' = "RETRY_DELAY"
    /\ UNCHANGED <<id, ack, last, air, st, result, requested, processed, payload,
                   retries, hash, offset, chunkErr, file, app, ghosts>>

\* ... or the write fails, which ends the download.
WriteFails ==
    /\ st = "DOWNLOAD_FILE" /\ dl = "WAIT_CHUNK" /\ payload # Nothing
    /\ Fails
    /\ result' = "INTERNAL_ERROR" /\ dl' = "RETRY_DELAY"
    /\ Prepared(result') \/ PrepareFails
    /\ UNCHANGED <<ack, last, air, requested, retries, hash, offset, chunkErr, file,
                   app, ghosts>>

Whole(f, v) == f = [i \in 1..Chunks |-> v]

\* Mutant of Verify: the hash is not compared.
VerifyAny ==
    /\ st = "DOWNLOAD_FILE" /\ dl = "VERIFY"
    /\ result' = "UPDATE_STARTED" /\ app' = file /\ file' = <<>>
    /\ Prepared(result') /\ UNCHANGED losses
    /\ offset' = Chunks /\ dl' = "IDLE"
    /\ UNCHANGED <<ack, last, air, requested, retries, hash, chunkErr, ghosts>>

\* verifyFileDownload; the file takes the place of the last update.  Reading or
\* renaming may fail, the latter when the old file is gone.
Verify ==
    /\ st = "DOWNLOAD_FILE" /\ dl = "VERIFY"
    /\ \/ /\ Whole(file, hash)
          /\ result' = "UPDATE_STARTED" /\ app' = file /\ file' = <<>>
          /\ Prepared(result') /\ UNCHANGED losses
       \/ /\ ~Whole(file, hash)
          /\ result' = "HASH_MISMATCH_ERROR" /\ file' = <<>> /\ UNCHANGED app
          /\ Prepared(result') /\ UNCHANGED losses
       \/ /\ Fails
          /\ \/ result' = "HASH_MISMATCH_ERROR" /\ file' = <<>> /\ UNCHANGED app
             \/ /\ Whole(file, hash)
                /\ result' = "INTERNAL_ERROR" /\ app' = <<>> /\ UNCHANGED file
             \/ /\ Whole(file, hash)
                /\ result' = "UPDATE_STARTED" /\ app' = file /\ file' = <<>>
          /\ Prepared(result') \/ PrepareFails
    /\ offset' = Chunks /\ dl' = "IDLE"
    /\ UNCHANGED <<ack, last, air, requested, retries, hash, chunkErr, ghosts>>

\* K_MESH_CLOUD_REPORT_RETRY_DELAY; the file is given up with an error that is
\* not reported.
DownloadRetry ==
    /\ st = "DOWNLOAD_FILE" /\ dl = "RETRY_DELAY"
    /\ dl' = "IDLE"
    /\ \/ result # "UNKNOWN" /\ st' = "RETRY_DELAY" /\ UNCHANGED <<result, chunkErr>>
       \/ /\ result = "UNKNOWN" /\ chunkErr + 1 < ChunkErrs
          /\ chunkErr' = chunkErr + 1 /\ UNCHANGED <<result, st>>
       \/ /\ result = "UNKNOWN" /\ chunkErr + 1 >= ChunkErrs
          /\ chunkErr' = chunkErr + 1
          /\ result' = "DOWNLOAD_ERROR" /\ st' = "RETRY_DELAY"
    /\ UNCHANGED <<requestVars, requested, processed, payload, retries, hash, offset,
                   file, app, ghosts>>

ProcessDownload ==
    \/ DownloadIdle \/ GetChunk \/ WriteChunk \/ ChunkBad \/ WriteFails \/ Verify
    \/ DownloadRetry

Cycle ==
    \/ Idle \/ GetInfo \/ GotInfo \/ InfoTimeout \/ ProcessDownload
    \/ SendResult \/ ResultAcked \/ ResultRefused \/ RetryDelay

-----------------------------------------------------------------------------
\* meshUpdateParseServerResponse: EP_SERVER_RESP_UPDATE_REQ ...
UpdateRequest ==
    /\ st = "IDLE"
    /\ requested' = TRUE /\ retries' = 0
    /\ UNCHANGED <<requestVars, st, result, processed, payload, downloadVars, ghosts>>

\* ... and details or chunks, in whatever state their id is the current one.
ServerResponse(m) ==
    /\ m \in air /\ m.is.kind \notin Acks
    /\ air' = air \ {m}
    /\ IF m.id = id THEN id' = 0 /\ payload' = m.is
                    ELSE UNCHANGED <<id, payload>>
    /\ UNCHANGED <<ack, last, losses, st, result, requested, processed, retries,
                   downloadVars, ghosts>>

\* Mutant of RequestAck: the id is not compared.
RequestAckOfAny(m) ==
    /\ m \in air /\ m.is.kind \in Acks
    /\ air' = air \ {m}
    /\ ack' = m.is.kind
    /\ UNCHANGED <<id, last, losses, st, result, requested, processed, payload,
                   retries, downloadVars, ghosts>>

\* meshUpdateParseRequestAck
RequestAck(m) ==
    /\ m \in air /\ m.is.kind \in Acks
    /\ air' = air \ {m}
    /\ ack' = IF m.id = id THEN m.is.kind ELSE ack
    /\ UNCHANGED <<id, last, losses, st, result, requested, processed, payload,
                   retries, downloadVars, ghosts>>

Receive == \E m \in air : ServerResponse(m) \/ RequestAck(m)

Lose(m) ==
    /\ Lost(m)
    /\ UNCHANGED <<id, ack, last, st, result, requested, processed, payload, retries,
                   downloadVars, ghosts>>

Next == Cycle \/ UpdateRequest \/ Receive \/ \E m \in air : Lose(m)

Spec == Init /\ [][Next]_vars

\* The task runs (meshCommsCycle), and what is not lost arrives.
Fairness == WF_vars(Cycle) /\ WF_vars(Receive)

FairSpec == Spec /\ Fairness

-----------------------------------------------------------------------------
(* Properties *)

\* TypeOK: both machines stay within their ranges; while a file is being got,
\* it is as long as the offset says.
TypeOK ==
    /\ st \in States /\ dl \in DownloadStates /\ result \in Results
    /\ {requested, processed, boot} \subseteq BOOLEAN
    /\ payload.kind \in {"none", "ask", "askchunk", "info", "chunk", "result"}
    /\ id \in 0..MaxId /\ last \in 0..MaxId /\ retries \in 0..(Wrap - 1)
    /\ ack \in Acks \union {"none"} /\ hash \in Versions \union {"none"}
    /\ offset \in 0..Chunks /\ chunkErr \in 0..ChunkErrs
    /\ result = "UNKNOWN" => Len(file) = offset

\* BootsVerified: the node is told to boot a new firmware only when the file
\* it will boot is whole and of one version, even if the server changed its
\* file in the middle of the download, and though an older file had to go
\* before this one got its name.
BootsVerified ==
    [][boot' # boot => \E v \in Versions : Whole(app, v)]_vars

\* ReportedFirst: the node does not leave for a new firmware before a parent
\* has its "update started": the acknowledgement of a chunk that comes late,
\* or of a message that was put in its place, does not do.
ReportedFirst ==
    [][boot' # boot => received = Payload("result", "UPDATE_STARTED")]_vars

\* Settles: the machine always comes back to look for an update.
Settles == []<>(st = "IDLE")

\* Obtained: an update that waits is begun, or given up, once failures end.
Obtained == requested ~> ~requested

\* GivesUpDownload: a file whose chunks do not come is given up.
GivesUpDownload == st = "DOWNLOAD_FILE" ~> st # "DOWNLOAD_FILE"

\* ResultsOnly: what a parent gets as the result of an update is one
\* ("send error result", meshUpdateCycle).
ResultsOnly == received.kind \in {"none", "result"}
=============================================================================
