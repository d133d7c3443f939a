---------------------------- MODULE MeshReports -----------------------------
(***************************************************************************)
(* The reports of a mesh node without a cloud connection (the child,       *)
(* src/app/lora_mesh/mesh_cloud.c) that nodes with one (the parents,       *)
(* src/app/lora_mesh/cloud_mesh.c) pass on to the server.                  *)
(*                                                                         *)
(* The child sends the head of its log in segments; the parent acknowledges*)
(* each, puts the report together in as_cloud_payload, sends it to the     *)
(* server and forwards the server's response byte, which the child         *)
(* acknowledges.  Any message may be lost or late; either side repeats     *)
(* what is not answered.  Reports are of one type; a request of another    *)
(* child takes an entry like the child's own.  Time is not modelled: a     *)
(* timeout may come whenever its state waits.                              *)
(***************************************************************************)
EXTENDS Integers, Sequences, FiniteSets, FiniteSetsExt

CONSTANTS
    Parents,       (* the nodes with a cloud connection                       *)
    Reports,       (* number of reports in the child's log                    *)
    Segments,      (* segments of a report                                    *)
    QueueSize,     (* K_MESH_CLOUD_REQUEST_QUEUE_SIZE                         *)
    SyncRetries,   (* K_MESH_CLOUD_REPORT_SYNC_RETRIES                        *)
    MaxRespErrors, (* K_MESH_CLOUD_REPORT_MAX_RESP_ERRORS                     *)
    FwdRetries,    (* K_MESH_CLOUD_RESPONSE_FWD_MAX_RETRIES                   *)
    CloudRetries,  (* K_MESH_CLOUD_REQUEST_MAX_RETRIES                        *)
    MaxId,         (* bound: message ids                                      *)
    MaxAir,        (* bound: messages under way                               *)
    MaxRestarts,   (* bound: restarts of the child                            *)
    OtherChildren, (* whether there are requests of other children            *)
    Responses,     (* the server's responses: "ok", "error"                   *)
    SendFails      (* whether the child's send queue may be full              *)

ASSUME ReportsAssumption ==
    /\ Reports \in Nat /\ Segments \in 1..4 /\ QueueSize \in Nat \ {0}
    /\ SyncRetries \in Nat /\ MaxRespErrors \in Nat \ {0}
    /\ FwdRetries \in Nat /\ CloudRetries \in Nat \ {0}
    /\ MaxId \in Nat \ {0} /\ MaxAir \in Nat \ {0} /\ MaxRestarts \in Nat
    /\ OtherChildren \in BOOLEAN /\ SendFails \in BOOLEAN
    /\ Responses \subseteq {"ok", "error"}

VARIABLES
    phase,    \* child: e_comms_state, SYNC or CLOUD
    forced,   \* b_force_sync
    parent,   \* s_mesh_sync.s_parent.u32_id
    st,       \* s_mesh_report.e_state
    rep,      \* s_mesh_payload: its report, 0 if there is none
    idx,      \* ... s_hdr.u2_idx
    id,       \* ... s_hdr.u16_msg_id, 0 until one is assigned
    partial,  \* ... s_hdr.b_partial
    acked,    \* s_mesh_report.b_ack_received
    ackOk,    \* s_mesh_report.b_ack_status
    resp,     \* s_mesh_report.u8_resp_byte
    errors,   \* s_mesh_report.u8_num_errors
    retries,  \* s_mesh_report.u16_num_retries, up to one above its limit
    prevId,   \* s_mesh_report.u16_prev_msg_id
    counter,  \* u16_message_counter
    head,     \* the oldest report in the log
    restarts, \* restarts so far
    slot,     \* parent: as_cloud_payload
    queue,    \* s_cloud_request.queue_send
    pst,      \* s_cloud_request.e_state
    cur,      \* s_cloud_request.ps_req
    asked,    \* external: the server has the request of the current msg_id
    presp,    \* s_cloud_request.u8_resp_byte
    fwd,      \* s_cloud_request.u8_num_fwd_resp
    packed,   \* s_cloud_request.b_ack_received
    pretries, \* s_cloud_request.u16_num_retries
    air,      \* messages under way
    got,      \* what the server has received: sequences of <<report, segment>>
    given     \* reports the child has given up after errors

payloadVars == <<rep, idx, id, partial>>
answerVars  == <<acked, ackOk, resp>>
countVars   == <<errors, retries, prevId, counter>>
childVars   == <<phase, forced, parent, st, rep, idx, id, partial, acked, ackOk, resp,
                 errors, retries, prevId, counter, head, restarts, given>>
parentVars  == <<slot, queue, pst, cur, asked, presp, fwd, packed, pretries, got>>
vars == <<phase, forced, parent, st, rep, idx, id, partial, acked, ackOk, resp, errors,
          retries, prevId, counter, head, restarts, given, slot, queue, pst,
          cur, asked, presp, fwd, packed, pretries, got, air>>

NoParent == "none"
Slots    == 1..QueueSize
Free     == [child |-> "none", id |-> 0, idx |-> 0, partial |-> FALSE, segs |-> <<>>]
Other    == [child |-> "other", id |-> 0, idx |-> 0, partial |-> FALSE,
             segs |-> <<<<0, 0>>>>]

Whole(r) == [n \in 1..Segments |-> <<r, n - 1>>]

-----------------------------------------------------------------------------
(* Messages.  meshCommsSend puts one into the send queue; the bound of the *)
(* air is as good as a loss.                                               *)

Put(p, n, i, more, r) ==
    [type |-> "put", node |-> p, id |-> n, idx |-> i, partial |-> more, rep |-> r]
Msg(type, p, n) ==
    [type |-> type, node |-> p, id |-> n, idx |-> 0, partial |-> FALSE, rep |-> 0]

Sends(m)       == air' = IF Cardinality(air) < MaxAir THEN air \union {m} ELSE air
Answers(m, ms) == air' = (air \ {m}) \union ms

Lose(m) ==
    /\ m \in air
    /\ air' = air \ {m}
    /\ UNCHANGED <<childVars, parentVars>>

-----------------------------------------------------------------------------
Init ==
    /\ phase = "SYNC" /\ forced = FALSE /\ parent = NoParent /\ st = "IDLE"
    /\ rep = 0 /\ idx = 0 /\ id = 0 /\ partial = FALSE
    /\ acked = FALSE /\ ackOk = FALSE /\ resp = "none"
    /\ errors = 0 /\ retries = 0 /\ prevId = 0 /\ counter = 0
    /\ head = 1 /\ restarts = 0 /\ given = {}
    /\ slot = [p \in Parents |-> [q \in Slots |-> Free]]
    /\ queue = [p \in Parents |-> <<>>] /\ pst = [p \in Parents |-> "IDLE"]
    /\ cur = [p \in Parents |-> 0] /\ asked = [p \in Parents |-> FALSE]
    /\ presp = [p \in Parents |-> "none"] /\ fwd = [p \in Parents |-> 0]
    /\ packed = [p \in Parents |-> FALSE] /\ pretries = [p \in Parents |-> 0]
    /\ got = {} /\ air = {}

-----------------------------------------------------------------------------
(* The child: meshCommsCycle and meshCloudCycle                            *)

(* meshCloudSync has found a parent that answers, or still has one.  The   *)
(* ids of its time requests are left out.                                  *)
Synced(p) ==
    /\ phase = "SYNC"
    /\ forced \/ parent \in {NoParent, p}
    /\ phase' = "CLOUD" /\ forced' = FALSE /\ parent' = p
    /\ UNCHANGED <<st, payloadVars, answerVars, countVars, head, restarts, given,
                   parentVars, air>>

(* every three hours the time is checked again *)
Recheck ==
    /\ phase = "CLOUD"
    /\ phase' = "SYNC" /\ forced' = TRUE
    /\ UNCHANGED <<parent, st, payloadVars, answerVars, countVars, head, restarts,
                   given, parentVars, air>>

NoPayload == rep' = 0 /\ idx' = 0 /\ id' = 0 /\ partial' = FALSE

(* MESH_COMMS_STATE_INIT, then meshCloudInit(false): after a sync without  *)
(* result, or when the node's own connection comes and goes                *)
Reinit ==
    /\ \/ phase = "SYNC" /\ UNCHANGED forced
       \/ phase = "CLOUD" /\ forced' = TRUE
    /\ phase' = "SYNC" /\ st' = "IDLE" /\ NoPayload
    /\ UNCHANGED <<parent, answerVars, countVars, head, restarts, given,
                   parentVars, air>>

Restart ==
    /\ restarts < MaxRestarts
    /\ restarts' = restarts + 1
    /\ phase' = "SYNC" /\ forced' = FALSE /\ parent' = NoParent /\ st' = "IDLE"
    /\ NoPayload
    /\ acked' = FALSE /\ ackOk' = FALSE /\ resp' = "none"
    /\ errors' = 0 /\ retries' = 0 /\ prevId' = 0 /\ counter' = 0
    /\ UNCHANGED <<head, given, parentVars, air>>

ChildOnly == UNCHANGED <<forced, restarts, parentVars>>

Idle ==
    /\ phase = "CLOUD" /\ st = "IDLE"
    /\ IF parent = NoParent THEN phase' = "SYNC" /\ UNCHANGED st
                            ELSE st' = "DATA" /\ UNCHANGED phase
    /\ UNCHANGED <<parent, payloadVars, answerVars, countVars, head, given, air>>
    /\ ChildOnly

(* no route to the parent: queueNextParent *)
NoRoute ==
    /\ phase = "CLOUD" /\ st = "IDLE" /\ parent # NoParent
    /\ phase' = "SYNC" /\ parent' = NoParent
    /\ UNCHANGED <<st, payloadVars, answerVars, countVars, head, given, air>>
    /\ ChildOnly

(* getQueuedData *)
Data ==
    /\ phase = "CLOUD" /\ st = "DATA"
    /\ st' = "SEND_REQ"
    /\ \/ rep # 0 /\ UNCHANGED payloadVars
       \/ /\ rep = 0 /\ head <= Reports
          /\ rep' = head /\ idx' = 0 /\ id' = 0 /\ partial' = FALSE
    /\ UNCHANGED <<phase, parent, answerVars, countVars, head, given, air>> /\ ChildOnly

(* ... none of the type whose turn it is *)
NoData ==
    /\ phase = "CLOUD" /\ st = "DATA" /\ rep = 0
    /\ NoPayload /\ st' = "IDLE"
    /\ UNCHANGED <<phase, parent, answerVars, countVars, head, given, air>> /\ ChildOnly

(* sendReportData: what could not be sent gets a new id the next time *)
SendReq ==
    /\ phase = "CLOUD" /\ st = "SEND_REQ"
    /\ acked' = FALSE /\ ackOk' = FALSE /\ resp' = "none"
    /\ partial' = (idx < Segments - 1)
    /\ \/ /\ id # 0 \/ counter < MaxId
          /\ counter' = IF id = 0 THEN counter + 1 ELSE counter
          /\ id' = IF id = 0 THEN counter' ELSE id
          /\ Sends(Put(parent, id', idx, partial', rep))
          /\ st' = "WAIT_ACK"
       \/ /\ SendFails
          /\ id' = 0 /\ st' = "RETRY_DELAY"
          /\ UNCHANGED <<counter, air>>
    /\ UNCHANGED <<phase, parent, rep, idx, errors, retries, prevId, head, given>>
    /\ ChildOnly

(* cbDataSent *)
DataSent ==
    /\ IF partial THEN idx' = idx + 1 /\ UNCHANGED <<rep, head>>
                  ELSE rep' = 0 /\ head' = head + 1 /\ UNCHANGED idx
    /\ id' = 0 /\ retries' = 0 /\ errors' = 0 /\ st' = "IDLE"

(* Mutant: the parent's acknowledgement is taken for the server's answer *)
WaitAckIsEnough ==
    /\ phase = "CLOUD" /\ st = "WAIT_ACK"
    /\ IF acked /\ ackOk
         THEN DataSent /\ UNCHANGED partial
         ELSE st' = "RETRY_DELAY" /\ UNCHANGED <<payloadVars, errors, retries, head>>
    /\ UNCHANGED <<phase, parent, answerVars, prevId, counter, given, air>> /\ ChildOnly

WaitAck ==
    /\ phase = "CLOUD" /\ st = "WAIT_ACK"
    /\ \/ /\ acked /\ ackOk /\ partial
          /\ DataSent /\ UNCHANGED <<phase, partial>>
       \/ /\ acked /\ ackOk /\ ~partial
          /\ st' = "WAIT_RESP"
          /\ UNCHANGED <<phase, payloadVars, errors, retries, head>>
       \/ /\ acked /\ ~ackOk
          /\ NoPayload /\ st' = "RETRY_DELAY" /\ phase' = "SYNC"
          /\ UNCHANGED <<errors, retries, head>>
       \/ /\ ~acked
          /\ st' = "RETRY_DELAY"
          /\ UNCHANGED <<phase, payloadVars, errors, retries, head>>
    /\ UNCHANGED <<parent, answerVars, prevId, counter, given, air>> /\ ChildOnly

EnoughErrors == errors + 1 >= MaxRespErrors

WaitResp ==
    /\ phase = "CLOUD" /\ st = "WAIT_RESP"
    /\ \/ /\ resp # "none"
          /\ Sends(Msg("respack", parent, id))
          /\ prevId' = id
          /\ \/ /\ resp = "ok"
                /\ DataSent /\ UNCHANGED <<partial, given>>
             \/ /\ resp = "error" /\ EnoughErrors
                /\ DataSent /\ given' = given \union {rep} /\ UNCHANGED partial
             \/ /\ resp = "error" /\ ~EnoughErrors
                /\ errors' = errors + 1 /\ st' = "RETRY_DELAY"
                /\ UNCHANGED <<payloadVars, retries, head, given>>
       \/ /\ resp = "none"
          /\ st' = "RETRY_DELAY"
          /\ UNCHANGED <<payloadVars, errors, retries, prevId, head, given, air>>
    /\ UNCHANGED <<phase, parent, answerVars, counter>> /\ ChildOnly

RetryDelay ==
    /\ phase = "CLOUD" /\ st = "RETRY_DELAY"
    /\ st' = "IDLE"
    /\ retries' = IF retries <= SyncRetries THEN retries + 1 ELSE retries
    /\ IF retries' > SyncRetries THEN phase' = "SYNC" /\ parent' = NoParent
                                 ELSE UNCHANGED <<phase, parent>>
    /\ UNCHANGED <<payloadVars, answerVars, errors, prevId, counter, head, given, air>>
    /\ ChildOnly

Current(m) == m.id = id

(* meshCloudParseReportAck *)
ReportAck(m) ==
    /\ m \in air /\ m.type \in {"ack", "nack"}
    /\ Answers(m, {})
    /\ IF Current(m) THEN acked' = TRUE /\ ackOk' = (m.type = "ack")
                    ELSE UNCHANGED <<acked, ackOk>>
    /\ UNCHANGED <<phase, parent, st, payloadVars, resp, countVars, head, given>>
    /\ ChildOnly

(* meshCloudParseServerResponse *)
ServerResponse(m) ==
    /\ m \in air /\ m.type \in {"ok", "error"}
    /\ IF Current(m)
         THEN /\ resp' = m.type
              /\ IF st \in {"WAIT_ACK", "RETRY_DELAY"}
                   THEN st' = "WAIT_RESP" /\ acked' = TRUE /\ ackOk' = TRUE
                   ELSE UNCHANGED <<st, acked, ackOk>>
              /\ Answers(m, {})
         ELSE /\ Answers(m, IF m.id = prevId /\ parent # NoParent
                              THEN {Msg("respack", parent, prevId)} ELSE {})
              /\ UNCHANGED <<st, answerVars>>
    /\ UNCHANGED <<phase, parent, payloadVars, countVars, head, given>> /\ ChildOnly

-----------------------------------------------------------------------------
(* A parent: meshCloudHandleRequest, in the mesh task.  It answers nothing *)
(* while it is offline or serves too many children.                        *)

SameHeader(s, m) ==
    /\ s.child = "child" /\ s.id = m.id /\ s.idx = m.idx /\ s.partial = m.partial

FreeSlots(p)    == {q \in Slots : slot[p][q].segs = <<>>}
Duplicate(p, m) == \E q \in Slots : SameHeader(slot[p][q], m)

(* a continuation: the same child, method and endpoint, the next index *)
Continued(p, m) ==
    {q \in Slots : /\ slot[p][q].child = "child" /\ slot[p][q].partial
                   /\ m.idx = slot[p][q].idx + 1}

Stored(s, m) ==
    [child |-> "child", id |-> m.id, idx |-> m.idx, partial |-> m.partial,
     segs |-> Append(s.segs, <<m.rep, m.idx>>)]

Places(p, m) == IF m.idx = 0 THEN FreeSlots(p) ELSE Continued(p, m)

ParentOnly(p) ==
    UNCHANGED <<childVars, pst, cur, asked, presp, fwd, packed, pretries, got>>

Accepts(p, m) ==
    /\ m \in air /\ m.type = "put" /\ m.node = p
    /\ \/ /\ Duplicate(p, m)
          /\ Answers(m, {Msg("ack", p, m.id)})
          /\ UNCHANGED <<slot, queue>>
       \/ /\ ~Duplicate(p, m) /\ Places(p, m) # {}
          /\ LET q == Min(Places(p, m)) IN
             /\ slot' = [slot EXCEPT ![p][q] = Stored(@, m)]
             /\ queue' = IF m.idx = 0 THEN [queue EXCEPT ![p] = Append(@, q)]
                                      ELSE queue
          /\ Answers(m, {Msg("ack", p, m.id)})
    /\ ParentOnly(p)

HandleRequest(p, m) ==
    \/ Accepts(p, m)
    \/ /\ m \in air /\ m.type = "put" /\ m.node = p
       /\ \/ /\ ~Duplicate(p, m) /\ Places(p, m) = {}
             /\ Answers(m, {Msg("nack", p, m.id)})
          \/ Answers(m, {})
       /\ UNCHANGED <<slot, queue>> /\ ParentOnly(p)

(* external: a request of another child, in one segment *)
OtherRequest(p) ==
    /\ OtherChildren /\ FreeSlots(p) # {}
    /\ LET q == Min(FreeSlots(p)) IN
       /\ slot' = [slot EXCEPT ![p][q] = Other]
       /\ queue' = [queue EXCEPT ![p] = Append(@, q)]
    /\ UNCHANGED air /\ ParentOnly(p)

(* meshCloudParseResponseAck *)
ResponseAck(p, m) ==
    /\ m \in air /\ m.type = "respack" /\ m.node = p
    /\ Answers(m, {})
    /\ packed' = [packed EXCEPT ![p] =
                    @ \/ /\ cur[p] # 0 /\ slot[p][cur[p]].child = "child"
                         /\ slot[p][cur[p]].id = m.id]
    /\ UNCHANGED <<childVars, slot, queue, pst, cur, asked, presp, fwd, pretries, got>>

OtherAck(p) ==
    /\ pst[p] = "WAIT_ACK" /\ slot[p][cur[p]].child = "other"
    /\ packed' = [packed EXCEPT ![p] = TRUE]
    /\ UNCHANGED <<childVars, slot, queue, pst, cur, asked, presp, fwd, pretries, got, air>>

-----------------------------------------------------------------------------
(* A parent: cloudMeshCycle, in the cloud task                             *)

(* cbRequestSent *)

(* Mutant: the entry is not cleared *)
RequestSentKeeps(p) ==
    /\ queue' = [queue EXCEPT ![p] = Tail(@)]
    /\ slot' = slot
    /\ pst' = [pst EXCEPT ![p] = "IDLE"]
    /\ pretries' = [pretries EXCEPT ![p] = 0]
    /\ fwd' = [fwd EXCEPT ![p] = 0]

RequestSent(p) ==
    /\ queue' = [queue EXCEPT ![p] = Tail(@)]
    /\ slot' = [slot EXCEPT ![p][Head(queue[p])] = Free]
    /\ pst' = [pst EXCEPT ![p] = "IDLE"]
    /\ pretries' = [pretries EXCEPT ![p] = 0]
    /\ fwd' = [fwd EXCEPT ![p] = 0]

PIdle(p) ==
    /\ pst[p] = "IDLE" /\ queue[p] # <<>>
    /\ ~slot[p][Head(queue[p])].partial
    /\ cur' = [cur EXCEPT ![p] = Head(queue[p])]
    /\ pst' = [pst EXCEPT ![p] = "SEND_REQ"]
    /\ UNCHANGED <<childVars, slot, queue, asked, presp, fwd, packed, pretries, got, air>>

(* K_MESH_CLOUD_REQUEST_INCOMPLETE_TIMEOUT; until then an incomplete       *)
(* request stays at the head of the queue                                  *)
PDiscard(p) ==
    /\ pst[p] = "IDLE" /\ queue[p] # <<>>
    /\ slot[p][Head(queue[p])].partial
    /\ queue' = [queue EXCEPT ![p] = Tail(@)]
    /\ slot' = [slot EXCEPT ![p][Head(queue[p])] = Free]
    /\ UNCHANGED <<childVars, pst, cur, asked, presp, fwd, packed, pretries, got, air>>

PSendReq(p) ==
    /\ pst[p] = "SEND_REQ"
    /\ presp' = [presp EXCEPT ![p] = "none"]
    /\ packed' = [packed EXCEPT ![p] = FALSE]
    /\ \E arrives \in BOOLEAN :
          /\ asked' = [asked EXCEPT ![p] = arrives]
          /\ got' = IF arrives /\ slot[p][cur[p]].child = "child"
                      THEN got \union {slot[p][cur[p]].segs} ELSE got
          /\ pst' \in {[pst EXCEPT ![p] = "WAIT_RESP"]}
                \union (IF arrives THEN {} ELSE {[pst EXCEPT ![p] = "RETRY_DELAY"]})
    /\ UNCHANGED <<childVars, slot, queue, cur, fwd, pretries, air>>

(* cloudMeshParseResponse: a response with the current message id *)
ServerAnswers(p, r) ==
    /\ asked[p] /\ pst[p] = "WAIT_RESP" /\ presp[p] = "none"
    /\ presp' = [presp EXCEPT ![p] = r]
    /\ UNCHANGED <<childVars, slot, queue, pst, cur, asked, fwd, packed, pretries, got, air>>

PWaitResp(p) ==
    /\ pst[p] = "WAIT_RESP"
    /\ IF presp[p] # "none"
         THEN /\ IF slot[p][cur[p]].child = "child"
                   THEN Sends(Msg(presp[p], p, slot[p][cur[p]].id)) ELSE UNCHANGED air
              /\ fwd' = [fwd EXCEPT ![p] = @ + 1]
              /\ pst' = [pst EXCEPT ![p] = "WAIT_ACK"]
         ELSE /\ pst' = [pst EXCEPT ![p] = "RETRY_DELAY"]
              /\ UNCHANGED <<fwd, air>>
    /\ UNCHANGED <<childVars, slot, queue, cur, asked, presp, packed, pretries, got>>

PWaitAck(p) ==
    /\ pst[p] = "WAIT_ACK"
    /\ IF packed[p] \/ fwd[p] > FwdRetries
         THEN RequestSent(p)
         ELSE /\ pst' = [pst EXCEPT ![p] = "WAIT_RESP"]
              /\ UNCHANGED <<slot, queue, fwd, pretries>>
    /\ UNCHANGED <<childVars, cur, asked, presp, packed, got, air>>

(* Mutant: retries are not counted *)
PRetryUncounted(p) ==
    /\ pst[p] = "RETRY_DELAY"
    /\ pst' = [pst EXCEPT ![p] = "IDLE"]
    /\ UNCHANGED <<childVars, slot, queue, fwd, pretries, cur, asked, presp,
                   packed, got, air>>

PRetryDelay(p) ==
    /\ pst[p] = "RETRY_DELAY"
    /\ IF pretries[p] + 1 >= CloudRetries
         THEN RequestSent(p)
         ELSE /\ pst' = [pst EXCEPT ![p] = "IDLE"]
              /\ pretries' = [pretries EXCEPT ![p] = @ + 1]
              /\ UNCHANGED <<slot, queue, fwd>>
    /\ UNCHANGED <<childVars, cur, asked, presp, packed, got, air>>

-----------------------------------------------------------------------------
ChildCycle ==
    Idle \/ NoRoute \/ Data \/ NoData \/ SendReq \/ WaitAck \/ WaitResp \/ RetryDelay

ChildReceives == \E m \in air : ReportAck(m) \/ ServerResponse(m)

ParentCycle(p) ==
    \/ PIdle(p) \/ PSendReq(p) \/ PWaitResp(p) \/ PWaitAck(p) \/ PRetryDelay(p)

ParentReceives(p) == \E m \in air : HandleRequest(p, m) \/ ResponseAck(p, m)

Next ==
    \/ ChildCycle \/ ChildReceives
    \/ \E p \in Parents :
          \/ Synced(p) \/ ParentCycle(p) \/ ParentReceives(p) \/ PDiscard(p)
          \/ OtherRequest(p) \/ OtherAck(p)
          \/ \E r \in Responses : ServerAnswers(p, r)
    \/ Recheck \/ Reinit \/ Restart
    \/ \E m \in air : Lose(m)

Spec == Init /\ [][Next]_vars

(* The cloud task of a parent that stays connected goes on; of the child,  *)
(* the air and the server nothing is assumed.                              *)
Fairness == \A p \in Parents : WF_vars(ParentCycle(p) \/ PDiscard(p))

FairSpec == Spec /\ Fairness

-----------------------------------------------------------------------------
States  == {"IDLE", "DATA", "SEND_REQ", "WAIT_ACK", "WAIT_RESP", "RETRY_DELAY"}
PStates == {"IDLE", "SEND_REQ", "WAIT_RESP", "WAIT_ACK", "RETRY_DELAY"}

(* Type invariant: both sides' contexts stay within their ranges.          *)
TypeOK ==
    /\ phase \in {"SYNC", "CLOUD"} /\ forced \in BOOLEAN /\ parent \in Parents \union {NoParent}
    /\ st \in States /\ rep \in 0..Reports /\ idx \in 0..(Segments - 1)
    /\ id \in 0..MaxId /\ partial \in BOOLEAN
    /\ acked \in BOOLEAN /\ ackOk \in BOOLEAN /\ resp \in {"none"} \union Responses
    /\ errors \in 0..(MaxRespErrors - 1) /\ retries \in 0..(SyncRetries + 1)
    /\ prevId \in 0..MaxId /\ counter \in 0..MaxId
    /\ head \in 1..(Reports + 1) /\ given \subseteq 1..Reports
    /\ queue \in [Parents -> Seq(Slots)] /\ pst \in [Parents -> PStates]
    /\ cur \in [Parents -> 0..QueueSize] /\ asked \in [Parents -> BOOLEAN]
    /\ presp \in [Parents -> {"none"} \union Responses]
    /\ fwd \in [Parents -> 0..(FwdRetries + 1)] /\ packed \in [Parents -> BOOLEAN]
    /\ pretries \in [Parents -> 0..(CloudRetries - 1)]
    /\ Cardinality(air) <= MaxAir

(* An entry is in use exactly while it is queued once; and while a request *)
(* is being served it is the head of the queue and complete, so what       *)
(* cbRequestSent removes is the request that was sent.                     *)
EntriesQueued ==
    \A p \in Parents :
        /\ \A i, j \in 1..Len(queue[p]) : queue[p][i] = queue[p][j] => i = j
        /\ {queue[p][i] : i \in 1..Len(queue[p])} = Slots \ FreeSlots(p)
        /\ pst[p] # "IDLE" =>
              /\ queue[p] # <<>> /\ cur[p] = Head(queue[p])
              /\ ~slot[p][cur[p]].partial

(* A report leaves the log only when the server has it, or after           *)
(* MaxRespErrors error responses.                                          *)
NoReportLost ==
    \A r \in 1..(head - 1) : Whole(r) \in got \/ r \in given

(* A parent gets rid of every request, although its child or the server    *)
(* may be gone for good: the queue runs empty, or its head leaves again    *)
(* and again.                                                              *)
Served ==
    \A p \in Parents :
        \/ []<>(queue[p] = <<>>)
        \/ []<><<Len(queue'[p]) < Len(queue[p])>>_queue

(* What the server receives as a report is one report, whole.              *)
ReportsWhole == got \subseteq {Whole(r) : r \in 1..Reports}
=============================================================================
