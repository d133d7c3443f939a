---------------------------- MODULE MeshRequests -----------------------------
(***************************************************************************)
(* A mesh node's requests to its parent, as mesh_commands.c and            *)
(* mesh_update.c make them through meshCommsSend (src/app/lora_mesh/       *)
(* mesh_comms.c), and what becomes of them: the parent, the radio and the  *)
(* server are external.  A request is answered in full, in part, late, or  *)
(* not at all.                                                             *)
(***************************************************************************)
EXTENDS Integers

CONSTANTS
    MaxId,     (* bound: ids of messages that may still be under way *)
    MaxLosses, (* bound: failures, where they end                    *)
    Endless    (* whether failures and early timeouts never end      *)

ASSUME RequestsAssumption ==
    MaxId \in Nat \ {0} /\ MaxLosses \in Nat /\ Endless \in BOOLEAN

VARIABLES
    id,     \* u16_msg_id
    ack,    \* b_ack_received and b_ack_status
    last,   \* u16_message_counter of mesh_comms.c
    air,    \* external: answers under way
    losses  \* failures so far

Acks == {"ACK", "NACK"}

\* What a payload buffer or a message holds: its kind and what it is about.
Payload(kind, of) == [kind |-> kind, of |-> of]
Nothing == Payload("none", "none")
Ask     == Payload("ask", "none")

Answer(n, payload) == [id |-> n, is |-> payload]
Ack(n, kind)       == Answer(n, Payload(kind, "none"))

Fails == IF Endless THEN UNCHANGED losses
                    ELSE losses < MaxLosses /\ losses' = losses + 1

\* The new id skips 0; the bound takes it that no message of its last use
\* is under way any more.
Id(n) == IF n = 0 THEN (last % MaxId) + 1 ELSE n

StillUnderWay(n) == {m \in air : n = id \/ m.id # n}

\* A request with id n is answered in full ...
Answered(n, full) == air' = StillUnderWay(n) \union full /\ UNCHANGED losses

\* ... in part or not at all, or it is refused ...
HalfAnswered(n, full) ==
    /\ Fails
    /\ \E some \in (SUBSET full) \union {{Ack(n, "NACK")}} :
          air' = StillUnderWay(n) \union some

Sent(n, full) == Answered(n, full) \/ HalfAnswered(n, full)

\* ... or meshCommsSend returns 0: no route, or the send queue is full.
NotSent(n) ==
    /\ Fails
    /\ id' = 0
    /\ last' \in {last} \union (IF n = 0 THEN {Id(0)} ELSE {})
    /\ UNCHANGED air

Lost(m) == m \in air /\ Fails /\ air' = air \ {m}

\* A timeout, which, where failures end, is not early.
TimesOut == ~Endless => \A m \in air : m.id # id
=============================================================================
