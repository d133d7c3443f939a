------------------------------ MODULE LoraMesh ------------------------------
(***************************************************************************)
(* The radio task of the LoRa mesh (src/app/lora_mesh/lora_mesh.cpp).      *)
(*                                                                         *)
(* A message to be sent is copied into a free entry of as_send_messages    *)
(* and a pointer to it is queued.  The task's cycle runs the callbacks of  *)
(* the radio's events, updates the routes, looks after the queue, and runs *)
(* the services of the mesh; a message is sent once a channel activity     *)
(* detection (CAD) finds the channel free.  The contents of messages are   *)
(* the matter of the other mesh modules: here a message is its entry and   *)
(* the number of checksums appended to it.                                 *)
(***************************************************************************)
EXTENDS Integers, Sequences, FiniteSets

CONSTANTS
    QueueSize,   (* MESH_SEND_QUEUE_SIZE                                    *)
    CadRetry,    (* MESH_CAD_RETRY                                          *)
    StuckAfter,  (* busy channels after which 7.5 s may have passed: 7      *)
    MaxCrcs      (* bound: checksums counted per message                    *)

ASSUME LoraAssumption ==
    /\ QueueSize \in Nat \ {0}
    /\ CadRetry \in Nat \ {0}
    /\ StuckAfter \in Nat
    /\ MaxCrcs \in Nat \ {0}

VARIABLES
    at,       \* where the task is in cycle()
    lora,     \* loraState; MESH_RX and MESH_NOTIF are never assigned
    retries,  \* channelFreeRetryNum
    detect,   \* ms_channel_detect is not 0: a CAD is to be repeated
    late,     \* txTimeout may lie more than 7.5 s back
    used,     \* entries of as_send_messages that are not free
    crcs,     \* checksums appended to the message of an entry
    queue,    \* queue_send: pointers to entries
    mode,     \* external: what the radio is doing
    irq,      \* external: events since the last Radio.IrqProcess
    todo      \* events whose callbacks this Radio.IrqProcess has to run

taskVars  == <<lora, retries, detect, late>>
queueVars == <<used, crcs, queue>>
radioVars == <<mode, irq, todo>>
vars == <<at, lora, retries, detect, late, used, crcs, queue,
          mode, irq, todo>>

Entries == 1..QueueSize

Places == {"init", "irq", "callbacks", "rxdone", "route", "stuck", "send",
           "comms", "check"}
Modes  == {"standby", "rx", "cad", "tx"}
Events == {"TxDone", "TxTimeout", "RxDone", "RxError", "CadFree", "CadBusy"}

Queued == {queue[i] : i \in 1..Len(queue)}

-----------------------------------------------------------------------------
(* init *)

Init ==
    /\ at = "init" /\ lora = "IDLE" /\ retries = 0 /\ detect = FALSE
    /\ late = FALSE /\ used = {} /\ crcs = [e \in Entries |-> 0]
    /\ queue = <<>> /\ mode = "standby" /\ irq = {} /\ todo = {}

-----------------------------------------------------------------------------
(* The radio: external.  An operation that is cut short raises no event.   *)

CadEnds(event) ==
    /\ mode = "cad"
    /\ mode' = "standby"
    /\ irq' = irq \union {event}
    /\ UNCHANGED <<at, taskVars, queueVars, todo>>

SendEnds(event) ==
    /\ mode = "tx"
    /\ mode' = "standby"
    /\ irq' = irq \union {event}
    /\ UNCHANGED <<at, taskVars, queueVars, todo>>

Hears(event) ==
    /\ mode = "rx"
    /\ irq' = irq \union {event}
    /\ UNCHANGED <<at, taskVars, queueVars, mode, todo>>

RadioEnds ==
    \/ \E e \in {"CadFree", "CadBusy"} : CadEnds(e)
    \/ \E e \in {"TxDone", "TxTimeout"} : SendEnds(e)

-----------------------------------------------------------------------------
(* meshSendRequest, of a packet to be forwarded, a synchronisation, an     *)
(* answer or a request: all its callers run in the mesh task.  With no     *)
(* free entry it returns false and changes nothing.  The queue has room    *)
(* whenever an entry is free (QueueSound), so xQueueSend succeeds.         *)

MeshSendRequest ==
    /\ at \in {"rxdone", "route", "comms"}
    /\ \E e \in Entries \ used :
          /\ \A d \in 1..(e - 1) : d \in used
          /\ used' = used \union {e}
          /\ crcs' = [crcs EXCEPT ![e] = 0]
          /\ queue' = Append(queue, e)
    /\ UNCHANGED <<at, taskVars, radioVars>>

-----------------------------------------------------------------------------
(* cycle: STATE_INIT, once a minute.  Radio.Init forgets what the radio    *)
(* was doing.                                                              *)

RadioInit(ok) ==
    /\ at = "init"
    /\ at' = IF ok THEN "irq" ELSE "init"
    /\ mode' = IF ok THEN "rx" ELSE "standby"
    /\ irq' = {}
    /\ late' = (lora = "TX")
    /\ UNCHANGED <<lora, retries, detect, queueVars, todo>>

(* STATE_PROCESS.  A CAD of two symbols is over long before the next cycle. *)

IrqProcess ==
    /\ at = "irq" /\ mode # "cad"
    /\ at' = "callbacks"
    /\ todo' = irq /\ irq' = {}
    /\ UNCHANGED <<taskVars, queueVars, mode>>

CallbacksDone ==
    /\ at = "callbacks" /\ todo = {}
    /\ at' = "route"
    /\ UNCHANGED <<taskVars, queueVars, radioVars>>

Callback(event, next) ==
    /\ at = "callbacks" /\ event \in todo
    /\ todo' = todo \ {event}
    /\ at' = next
    /\ UNCHANGED irq

(* radio_listen: what the radio was doing is cut short *)
Listen == mode' = "rx"

OnTxDone(event) ==
    /\ Callback(event, "callbacks")
    /\ lora' = "IDLE" /\ Listen
    /\ UNCHANGED <<retries, detect, late, used, crcs, queue>>

OnTxTimeout(event) == OnTxDone(event)

(* A packet that is forwarded or answered leads to calls of                *)
(* meshSendRequest before the callback returns.                            *)
OnRxDone ==
    /\ Callback("RxDone", "rxdone")
    /\ lora' = "IDLE" /\ Listen
    /\ UNCHANGED <<retries, detect, late, used, crcs, queue>>

RxDoneReturns ==
    /\ at = "rxdone"
    /\ at' = "callbacks"
    /\ UNCHANGED <<taskVars, queueVars, radioVars>>

(* OnRxTimeout is the same, and a continuous reception does not time out *)
OnRxError ==
    /\ Callback("RxError", "callbacks")
    /\ IF lora # "TX" THEN Listen ELSE mode' = mode
    /\ UNCHANGED <<taskVars, used, crcs, queue>>

(* Mutant: the delay is set before the retries are counted. *)
OnCadBusyDelays ==
    /\ Callback("CadBusy", "callbacks")
    /\ Listen /\ detect' = TRUE
    /\ IF retries + 1 >= CadRetry
         THEN /\ lora' = "IDLE" /\ retries' = 0
              /\ queue' = IF queue = <<>> THEN queue ELSE Tail(queue)
         ELSE /\ retries' = retries + 1
              /\ UNCHANGED <<lora, queue>>
    /\ UNCHANGED <<late, used, crcs>>

(* The channel is busy: try again, or give up and discard the message.  *)
OnCadBusy ==
    /\ Callback("CadBusy", "callbacks")
    /\ Listen
    /\ \/ /\ retries + 1 >= CadRetry
          /\ lora' = "IDLE" /\ retries' = 0
          /\ queue' = IF queue = <<>> THEN queue ELSE Tail(queue)
          /\ UNCHANGED <<detect, late>>
       \/ /\ retries + 1 < CadRetry
          /\ retries' = retries + 1 /\ detect' = TRUE
          /\ late' = (late \/ retries' >= StuckAfter)
          /\ UNCHANGED <<lora, queue>>
    /\ UNCHANGED <<used, crcs>>

(* Mutant: the pointer is read with xQueuePeek. *)
OnCadFreePeeks ==
    /\ Callback("CadFree", "callbacks")
    /\ queue # <<>>
    /\ retries' = 0 /\ mode' = "tx"
    /\ used' = used \ {Head(queue)}
    /\ crcs' = [crcs EXCEPT ![Head(queue)] = 0]
    /\ UNCHANGED <<lora, detect, late, queue>>

(* The channel is free: the message is handed to the radio. *)
OnCadFree ==
    /\ Callback("CadFree", "callbacks")
    /\ queue # <<>>
    /\ retries' = 0 /\ mode' = "tx"
    /\ queue' = Tail(queue)
    /\ used' = used \ {Head(queue)}
    /\ crcs' = [crcs EXCEPT ![Head(queue)] = 0]
    /\ UNCHANGED <<lora, detect, late>>

(* update_route and meshCommsCycle are calls of meshSendRequest *)
Serves(here, next) ==
    /\ at = here
    /\ at' = next
    /\ UNCHANGED <<taskVars, queueVars, radioVars>>

UpdateRoute    == Serves("route", "stuck")
MeshCommsCycle == Serves("comms", "check")

-----------------------------------------------------------------------------
(* process_send_queue *)

(* Mutant: loraState is left alone. *)
StuckInTxOnlyListens ==
    /\ at = "stuck" /\ lora = "TX" /\ late
    /\ at' = "send" /\ Listen
    /\ UNCHANGED <<taskVars, queueVars, irq, todo>>

StuckInTx ==
    /\ at = "stuck" /\ lora = "TX" /\ late
    /\ at' = "send"
    /\ lora' = "IDLE" /\ Listen
    /\ UNCHANGED <<retries, detect, late, queueVars, irq, todo>>

NotStuck ==
    /\ at = "stuck"
    /\ at' = "send"
    /\ UNCHANGED <<taskVars, queueVars, radioVars>>

(* radio_cad *)
Cad == mode' = "cad" /\ detect' = FALSE

RetryCad ==
    /\ at = "send" /\ detect
    /\ at' = "comms" /\ Cad
    /\ UNCHANGED <<lora, retries, late, queueVars, irq, todo>>

StartCad ==
    /\ at = "send" /\ ~detect /\ lora # "TX" /\ queue # <<>>
    /\ at' = "comms" /\ Cad
    /\ crcs' = [crcs EXCEPT ![Head(queue)] = IF @ < MaxCrcs THEN @ + 1 ELSE @]
    /\ lora' = "TX" /\ late' = FALSE
    /\ UNCHANGED <<retries, used, queue, irq, todo>>

(* waiting for the time of the next CAD, for the radio, or for a message *)
NothingToSend ==
    /\ at = "send"
    /\ detect \/ lora = "TX" \/ queue = <<>>
    /\ at' = "comms"
    /\ UNCHANGED <<taskVars, queueVars, radioVars>>

(* once a minute: the module does not answer, or there are fewer nodes *)
CheckModule ==
    /\ at = "check"
    /\ at' \in {"irq", "init"}
    /\ UNCHANGED <<taskVars, queueVars, radioVars>>

-----------------------------------------------------------------------------
Callbacks ==
    \/ OnTxDone("TxDone") \/ OnTxTimeout("TxTimeout")
    \/ OnRxDone \/ RxDoneReturns \/ OnRxError
    \/ OnCadBusy \/ OnCadFree \/ CallbacksDone

Cycle ==
    \/ \E ok \in BOOLEAN : RadioInit(ok)
    \/ IrqProcess \/ Callbacks \/ UpdateRoute
    \/ StuckInTx \/ NotStuck
    \/ RetryCad \/ StartCad \/ NothingToSend
    \/ MeshCommsCycle \/ CheckModule
    \/ MeshSendRequest

Environment == RadioEnds \/ \E e \in {"RxDone", "RxError"} : Hears(e)

Next == Cycle \/ Environment

Spec == Init /\ [][Next]_vars

(* The task runs for ever (main.cpp), the radio finishes what it is not    *)
(* kept from finishing, and time passes: a due CAD is repeated, and a      *)
(* transmission that takes too long is noticed.                            *)
FairSpec ==
    /\ Spec
    /\ WF_vars(Cycle) /\ WF_vars(RadioEnds)
    /\ SF_vars(RetryCad) /\ SF_vars(StuckInTx)

-----------------------------------------------------------------------------
(* Type invariant: task, queue and radio stay within their ranges.         *)
TypeOK ==
    /\ at \in Places /\ lora \in {"IDLE", "TX"}
    /\ retries \in 0..(CadRetry - 1)
    /\ detect \in BOOLEAN /\ late \in BOOLEAN
    /\ used \subseteq Entries /\ crcs \in [Entries -> 0..MaxCrcs]
    /\ queue \in Seq(Entries)
    /\ mode \in Modes /\ irq \subseteq Events /\ todo \subseteq Events

(* Every queued pointer is to an entry in use and no two are to the same   *)
(* one, so a transmission never clears an entry that waits for another,    *)
(* and the queue has room whenever an entry is free.                       *)
QueueSound ==
    /\ Queued \subseteq used
    /\ \A i, j \in 1..Len(queue) : queue[i] = queue[j] => i = j

(* The result of a CAD finds the message the CAD was made for still in the *)
(* queue, whatever was received, timed out or restarted in between.        *)
CadHasMessage ==
    mode = "cad" \/ detect \/ {"CadFree", "CadBusy"} \intersect (irq \union todo) # {}
        => queue # <<>>

(* Every message leaves the queue, sent or discarded, unless the module is *)
(* initialised again and again: the queue is emptied or shortened again    *)
(* and again.                                                              *)
Drains ==
    <>[](at # "init") =>
        ([]<>(queue = <<>>) \/ []<><<Len(queue') < Len(queue)>>_queue)

(* An entry in use is queued: what meshSendRequest calls full is full of   *)
(* messages to be sent.                                                    *)
NoEntryLost == used \subseteq Queued

(* A message carries one checksum at most.                                 *)
OneCrc == \A e \in Entries : crcs[e] <= 1

(* While the radio transmits, loraState says so.                           *)
SendingIsTx == mode = "tx" => lora = "TX"

=============================================================================
