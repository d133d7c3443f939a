-------------------------- MODULE MeshCommand_proofs --------------------------
(***************************************************************************)
(* The reset a command asks for, and the types: proofs about MeshCommand,  *)
(* for every set of commands, every limit of retries and every number of   *)
(* ids.                                                                    *)
(***************************************************************************)
EXTENDS MeshCommand, TLAPS

(***************************************************************************)
(* The requests: ids in their range, and what may be under way once one    *)
(* has been made                                                           *)
(***************************************************************************)
Ids == 0..MaxId

\* What is under way has an id other than 0, by which a machine that waits
\* for nothing goes.
IdsOK ==
    /\ last \in Ids /\ id \in Ids
    /\ \A m \in air : m.id \in Ids \ {0}

\* meshCommsSend gives a message without an id a new one, never 0.
LEMMA IdIsNew ==
    ASSUME last \in Ids, NEW n \in Ids
    PROVE  Id(n) \in Ids \ {0} /\ (n # 0 => Id(n) = n)
<1>1. CASE n = 0
  <2>1. last % MaxId \in 0..(MaxId - 1)
    BY RequestsAssumption DEF Ids
  <2> QED
    BY <1>1, <2>1, RequestsAssumption DEF Id, Ids
<1>2. CASE n # 0
  BY <1>2 DEF Id
<1> QED
  BY <1>1, <1>2

\* After a request every message under way to it is one of its answers, or
\* was under way to its first send.
LEMMA AirAfterSend ==
    ASSUME NEW n, NEW full, Sent(n, full)
    PROVE  \A m \in air' : \/ m \in air /\ (n = id \/ m.id # n)
                           \/ m \in full
                           \/ m = Ack(n, "NACK")
<1>1. CASE Answered(n, full)
  BY <1>1 DEF Answered, StillUnderWay
<1>2. CASE HalfAnswered(n, full)
  <2> PICK some \in (SUBSET full) \union {{Ack(n, "NACK")}} :
             air' = StillUnderWay(n) \union some
    BY <1>2 DEF HalfAnswered
  <2>1. \A m \in some : m \in full \/ m = Ack(n, "NACK")
    OBVIOUS
  <2> QED
    BY <2>1 DEF StillUnderWay
<1> QED
  BY <1>1, <1>2 DEF Sent

LEMMA AckFields ==
    ASSUME NEW n, NEW k
    PROVE  Ack(n, k).id = n /\ Ack(n, k).is.kind = k
BY DEF Ack, Answer, Payload

LEMMA IdsAfterSend ==
    ASSUME IdsOK, NEW n \in Ids \ {0}, NEW full, \A m \in full : m.id = n,
           Sent(n, full), id' = n, last' \in {last, n}
    PROVE  IdsOK'
<1>1. \A m \in air' : m.id \in Ids \ {0}
  BY AirAfterSend, AckFields DEF IdsOK
<1> QED
  BY <1>1 DEF IdsOK

LEMMA IdsNotSent ==
    ASSUME IdsOK, NEW n \in Ids, NotSent(n)
    PROVE  IdsOK'
<1>1. Id(0) \in Ids
  BY IdIsNew, RequestsAssumption DEF IdsOK, Ids
<1> QED
  BY <1>1, RequestsAssumption DEF IdsOK, NotSent, Ids

\* The steps that send nothing keep the ids in their range.
LEMMA QuietIdsOK ==
    ASSUME IdsOK, air' \subseteq air, last' = last, id' \in {id, 0}
    PROVE  IdsOK'
BY RequestsAssumption DEF IdsOK, Ids

(***************************************************************************)
(* The reset and its result                                                *)
(***************************************************************************)
Restarts == Payload("result", "mcureset")

\* A reset has been asked for, and nothing has become of its result yet.
Pending ==
    mcureset /\ "mcureset" \notin unprepared /\ Restarts \notin received

\* Until a parent has the result of the reset, the machine is about to send
\* it, and what is under way to the current request refuses it.
PendingOK ==
    Pending =>
        /\ st \in {"SEND_RESULT", "WAIT_RESPONSE", "RETRY_DELAY"}
        /\ processed /\ payload = Restarts
        /\ \A m \in air : m.id = id => m.is.kind = "NACK"
        /\ st = "WAIT_RESPONSE" => ack # "ACK"

CommandInv == IdsOK /\ PendingOK /\ ResetIsReported

LEMMA InitCommandInv == Init => CommandInv
BY RequestsAssumption
   DEF Init, CommandInv, IdsOK, Ids, PendingOK, Pending, ResetIsReported

LEMMA GetCommandIdsOK ==
    ASSUME IdsOK, GetCommand
    PROVE  IdsOK'
<1>1. CASE NotSent(0)
  BY <1>1, IdsNotSent, RequestsAssumption DEF Ids
<1>2. CASE /\ id' = Id(0) /\ last' = Id(0)
           /\ \/ \E d \in Details(id') : Sent(id', {Ack(id', "ACK"), d})
              \/ payload # Ask /\ Sent(id', {Ack(id', "ACK")})
  <2>1. id' \in Ids \ {0} /\ last' = id'
    BY <1>2, IdIsNew, RequestsAssumption DEF IdsOK, Ids
  <2>2. \A d \in Details(id') : d.id = id'
    BY DEF Details, Answer
  <2>3. ASSUME NEW d \in Details(id'), Sent(id', {Ack(id', "ACK"), d})
        PROVE  IdsOK'
    <3>1. \A m \in {Ack(id', "ACK"), d} : m.id = id'
      BY <2>2, AckFields
    <3> QED
      BY <2>1, <2>3, <3>1, IdsAfterSend
  <2>4. CASE Sent(id', {Ack(id', "ACK")})
    BY <2>1, <2>4, AckFields, IdsAfterSend
  <2> QED
    BY <1>2, <2>3, <2>4
<1> QED
  BY <1>1, <1>2 DEF GetCommand

\* A result is sent, or sent again: what is acknowledged has been received.
LEMMA SendResultKeeps ==
    ASSUME CommandInv, SendResult
    PROVE  CommandInv'
<1> USE DEF CommandInv
<1>1. CASE NotSent(id) /\ st' = "RETRY_DELAY" /\ UNCHANGED received
  <2>1. IdsOK'
    BY <1>1, IdsNotSent DEF IdsOK
  <2>2. id' = 0 /\ air' = air
    BY <1>1 DEF NotSent
  <2>3. PendingOK'
    BY <1>1, <2>1, <2>2 DEF SendResult, PendingOK, Pending, IdsOK
  <2> QED
    BY <1>1, <2>1, <2>3 DEF SendResult, ResetIsReported
<1>2. ASSUME id' = Id(id), last' = (IF id = 0 THEN id' ELSE last),
             st' = "WAIT_RESPONSE",
             Sent(id', {Ack(id', "ACK")}), received' = received \union {payload}
      PROVE  CommandInv'
  <2>1. id' \in Ids \ {0}
    BY <1>2, IdIsNew DEF IdsOK
  <2>2. IdsOK'
    BY <1>2, <2>1, AckFields, IdsAfterSend
  <2>3. ~Pending'
    BY <1>2 DEF SendResult, PendingOK, Pending
  <2>4. ResetIsReported'
    BY <1>2 DEF SendResult, ResetIsReported
  <2> QED
    BY <2>2, <2>3, <2>4 DEF PendingOK
<1>3. ASSUME id' = Id(id), last' = (IF id = 0 THEN id' ELSE last),
             st' = "WAIT_RESPONSE",
             HalfAnswered(id', {}), UNCHANGED received
      PROVE  CommandInv'
  <2>1. id' \in Ids \ {0} /\ (id # 0 => id' = id)
    BY <1>3, IdIsNew DEF IdsOK
  <2>2. Sent(id', {})
    BY <1>3 DEF Sent
  <2>3. IdsOK'
    BY <1>3, <2>1, <2>2, IdsAfterSend
  <2>4. ASSUME Pending', NEW m \in air', m.id = id' PROVE m.is.kind = "NACK"
    <3>1. (m \in air /\ id' = id) \/ m = Ack(id', "NACK")
      BY <2>2, <2>4, AirAfterSend
    <3>2. Pending
      BY <2>4, <1>3 DEF Pending, SendResult
    <3> QED
      BY <3>1, <3>2, <2>4, AckFields DEF PendingOK
  <2>5. PendingOK'
    BY <1>3, <2>4 DEF SendResult, PendingOK, Pending
  <2> QED
    BY <1>3, <2>3, <2>5 DEF SendResult, ResetIsReported
<1> QED
  BY <1>1, <1>2, <1>3 DEF SendResult

LEMMA NextCommandInv == CommandInv /\ [Next]_vars => CommandInv'
<1> SUFFICES ASSUME CommandInv, [Next]_vars PROVE CommandInv'
  OBVIOUS
<1>0. IdsOK /\ PendingOK /\ ResetIsReported
  BY DEF CommandInv
<1>1. CASE Idle
  <2>1. IdsOK'
    BY <1>0, <1>1, QuietIdsOK DEF Idle, requestVars
  <2> QED
    BY <1>0, <1>1, <2>1 DEF Idle, requestVars, ghosts, CommandInv, PendingOK,
       Pending, ResetIsReported
<1>2. CASE GetCommand
  <2>1. IdsOK'
    BY <1>0, <1>2, GetCommandIdsOK
  <2>2. ~Pending /\ UNCHANGED <<mcureset, ghosts>>
    BY <1>0, <1>2 DEF GetCommand, PendingOK
  <2> QED
    BY <1>0, <2>1, <2>2 DEF ghosts, CommandInv, PendingOK, Pending, ResetIsReported
<1>3. CASE GotCommand \/ CommandTimeout
  <2>1. IdsOK'
    BY <1>0, <1>3, QuietIdsOK DEF GotCommand, CommandTimeout, requestVars
  <2>2. ~Pending /\ UNCHANGED <<mcureset, ghosts>>
    BY <1>0, <1>3 DEF GotCommand, CommandTimeout, PendingOK
  <2> QED
    BY <1>0, <2>1, <2>2 DEF ghosts, CommandInv, PendingOK, Pending, ResetIsReported
<1>4. CASE ProcessCmd
  <2>1. IdsOK'
    BY <1>0, <1>4, QuietIdsOK DEF ProcessCmd
  <2>2. ~Pending /\ air' = air /\ reset' = reset /\ received' = received
        /\ unprepared \subseteq unprepared'
        /\ mcureset' = (mcureset \/ payload.of = "mcureset")
    BY <1>0, <1>4 DEF ProcessCmd, PendingOK
  <2>3. ASSUME Pending' PROVE /\ processed' /\ id' = 0 /\ st' = "SEND_RESULT"
                              /\ payload' = Restarts
    BY <1>4, <2>2, <2>3 DEF ProcessCmd, Pending, Restarts
  <2>4. PendingOK'
    BY <2>1, <2>3 DEF PendingOK, IdsOK
  <2>5. ResetIsReported'
    BY <1>0, <2>2 DEF ResetIsReported
  <2> QED
    BY <2>1, <2>4, <2>5 DEF CommandInv
<1>5. CASE SendResult
  BY <1>5, SendResultKeeps
<1>6. CASE ResultAcked
  <2>1. IdsOK'
    BY <1>0, <1>6, QuietIdsOK DEF ResultAcked, requestVars
  <2>2. ~Pending /\ UNCHANGED <<mcureset, unprepared, received>>
    BY <1>0, <1>6 DEF ResultAcked, PendingOK
  <2>3. ResetIsReported'
    BY <1>0, <1>6, <2>2 DEF ResultAcked, ResetIsReported, Pending, Restarts
  <2> QED
    BY <2>1, <2>2, <2>3 DEF CommandInv, PendingOK, Pending
<1>7. CASE ResultRefused
  <2>1. IdsOK'
    BY <1>0, <1>7, QuietIdsOK DEF ResultRefused, requestVars
  <2> QED
    BY <1>0, <1>7, <2>1 DEF ResultRefused, requestVars, ghosts, CommandInv,
       PendingOK, Pending, ResetIsReported
<1>8. CASE RetryDelay
  <2>1. IdsOK'
    BY <1>0, <1>8, QuietIdsOK DEF RetryDelay, Cleared
  <2>2. ResetIsReported'
    BY <1>0, <1>8 DEF RetryDelay, ghosts, ResetIsReported
  <2>3. PendingOK'
    BY <1>0, <1>8 DEF RetryDelay, Cleared, ghosts, PendingOK, Pending
  <2> QED
    BY <2>1, <2>2, <2>3 DEF CommandInv
<1>9. CASE OperationRequest
  <2>1. IdsOK'
    BY <1>0, <1>9, QuietIdsOK DEF OperationRequest, requestVars
  <2> QED
    BY <1>0, <1>9, <2>1 DEF OperationRequest, requestVars, ghosts, CommandInv,
       PendingOK, Pending, ResetIsReported
<1>10. ASSUME NEW m \in air, ServerResponse(m) PROVE CommandInv'
  <2>1. IdsOK'
    BY <1>0, <1>10, QuietIdsOK DEF ServerResponse
  <2>2. ResetIsReported'
    BY <1>0, <1>10 DEF ServerResponse, ghosts, ResetIsReported
  <2>3. Pending => m.id # id
    BY <1>0, <1>10 DEF ServerResponse, Acks, PendingOK
  <2>4. PendingOK'
    BY <1>0, <1>10, <2>3 DEF ServerResponse, ghosts, PendingOK, Pending
  <2> QED
    BY <2>1, <2>2, <2>4 DEF CommandInv
<1>11. ASSUME NEW m \in air, RequestAck(m) PROVE CommandInv'
  <2>1. IdsOK'
    BY <1>0, <1>11, QuietIdsOK DEF RequestAck
  <2>2. ResetIsReported'
    BY <1>0, <1>11 DEF RequestAck, ghosts, ResetIsReported
  <2>3. PendingOK'
    BY <1>0, <1>11 DEF RequestAck, ghosts, PendingOK, Pending
  <2> QED
    BY <2>1, <2>2, <2>3 DEF CommandInv
<1>12. ASSUME NEW m \in air, Lose(m) PROVE CommandInv'
  <2>1. IdsOK'
    BY <1>0, <1>12, QuietIdsOK DEF Lose, Lost
  <2> QED
    BY <1>0, <1>12, <2>1 DEF Lose, Lost, ghosts, CommandInv, PendingOK, Pending,
       ResetIsReported
<1>13. CASE UNCHANGED vars
  <2>1. IdsOK'
    BY <1>0, <1>13, QuietIdsOK DEF vars
  <2> QED
    BY <1>0, <1>13, <2>1 DEF vars, CommandInv, PendingOK, Pending, ResetIsReported
<1>14. CASE Cycle
  BY <1>14, <1>1, <1>2, <1>3, <1>4, <1>5, <1>6, <1>7, <1>8 DEF Cycle
<1>15. CASE Receive
  BY <1>15, <1>10, <1>11 DEF Receive
<1> QED
  BY <1>9, <1>12, <1>13, <1>14, <1>15 DEF Next

\* The MCU is reset only when a parent has the result of the command, or the
\* result could not be put together, whatever is lost, late or refused.
THEOREM SpecResetIsReported == Spec => []ResetIsReported
<1>1. Init => CommandInv
  BY InitCommandInv
<1>2. CommandInv /\ [Next]_vars => CommandInv'
  BY NextCommandInv
<1>3. CommandInv => ResetIsReported
  BY DEF CommandInv
<1> QED
  BY <1>1, <1>2, <1>3, PTL DEF Spec

(***************************************************************************)
(* Type correctness                                                        *)
(***************************************************************************)
\* What answers a request: an acknowledgement, or a command to one that asks.
KindsOK == \A m \in air : m.is.kind \in Acks \union {"command"}

FlagsOK  == {requested, processed, mcureset, reset} \subseteq BOOLEAN
StateOK  == st \in States /\ ack \in Acks \union {"none"}
BufferOK == payload.kind \in {"none", "ask", "command", "result"}
TriesOK  == retries \in 0..(Retries - 1)

TypeInv == IdsOK /\ KindsOK /\ FlagsOK /\ StateOK /\ BufferOK /\ TriesOK

LEMMA InitTypeInv == Init => TypeInv
<1> SUFFICES ASSUME Init PROVE TypeInv
  OBVIOUS
<1>1. FlagsOK
  BY DEF Init, FlagsOK
<1> QED
  BY <1>1, RequestsAssumption, CommandAssumption
     DEF Init, TypeInv, IdsOK, Ids, KindsOK, StateOK, States, BufferOK, TriesOK,
         Nothing, Payload

LEMMA KindsAfterSend ==
    ASSUME KindsOK, NEW n, NEW full,
           \A m \in full : m.is.kind \in Acks \union {"command"}, Sent(n, full)
    PROVE  KindsOK'
BY AirAfterSend, AckFields DEF KindsOK, Acks

LEMMA IdsOfCycle ==
    ASSUME IdsOK, Cycle
    PROVE  IdsOK'
<1>1. CASE Idle \/ GotCommand \/ CommandTimeout \/ ResultAcked \/ ResultRefused
  BY <1>1, QuietIdsOK
     DEF Idle, GotCommand, CommandTimeout, ResultAcked, ResultRefused, requestVars
<1>2. CASE GetCommand
  BY <1>2, GetCommandIdsOK
<1>3. CASE ProcessCmd \/ RetryDelay
  BY <1>3, QuietIdsOK DEF ProcessCmd, RetryDelay, Cleared
<1>4. CASE SendResult
  <2>1. CASE NotSent(id)
    BY <2>1, IdsNotSent DEF IdsOK
  <2>2. ASSUME id' = Id(id), last' = (IF id = 0 THEN id' ELSE last),
               Sent(id', {Ack(id', "ACK")}) \/ HalfAnswered(id', {})
        PROVE  IdsOK'
    <3>1. id' \in Ids \ {0} /\ last' \in {last, id'}
      BY <2>2, IdIsNew DEF IdsOK
    <3>2. CASE Sent(id', {Ack(id', "ACK")})
      BY <3>1, <3>2, AckFields, IdsAfterSend
    <3>3. CASE HalfAnswered(id', {})
      <4>1. Sent(id', {})
        BY <3>3 DEF Sent
      <4> QED
        BY <3>1, <4>1, IdsAfterSend
    <3> QED
      BY <2>2, <3>2, <3>3
  <2> QED
    BY <1>4, <2>1, <2>2 DEF SendResult
<1> QED
  BY <1>1, <1>2, <1>3, <1>4 DEF Cycle

LEMMA KindsOfCycle ==
    ASSUME KindsOK, Cycle
    PROVE  KindsOK'
<1>1. CASE Idle \/ GotCommand \/ CommandTimeout \/ ResultAcked \/ ResultRefused
  BY <1>1 DEF Idle, GotCommand, CommandTimeout, ResultAcked, ResultRefused,
     requestVars, KindsOK
<1>2. CASE ProcessCmd \/ RetryDelay
  BY <1>2 DEF ProcessCmd, RetryDelay, KindsOK
<1>3. CASE GetCommand
  <2>1. CASE NotSent(0)
    BY <2>1 DEF NotSent, KindsOK
  <2>2. ASSUME NEW d \in Details(id'), Sent(id', {Ack(id', "ACK"), d})
        PROVE  KindsOK'
    <3>1. d.is.kind = "command"
      BY <2>2 DEF Details, Answer, Payload
    <3>2. \A m \in {Ack(id', "ACK"), d} : m.is.kind \in Acks \union {"command"}
      BY <3>1, AckFields DEF Acks
    <3> QED
      BY <2>2, <3>2, KindsAfterSend
  <2>3. CASE Sent(id', {Ack(id', "ACK")})
    BY <2>3, AckFields, KindsAfterSend DEF Acks
  <2> QED
    BY <1>3, <2>1, <2>2, <2>3 DEF GetCommand
<1>4. CASE SendResult
  <2>1. CASE NotSent(id)
    BY <2>1 DEF NotSent, KindsOK
  <2>2. CASE Sent(id', {Ack(id', "ACK")})
    BY <2>2, AckFields, KindsAfterSend DEF Acks
  <2>3. CASE HalfAnswered(id', {})
    <3>1. Sent(id', {})
      BY <2>3 DEF Sent
    <3> QED
      BY <3>1, KindsAfterSend
  <2> QED
    BY <1>4, <2>1, <2>2, <2>3 DEF SendResult
<1> QED
  BY <1>1, <1>2, <1>3, <1>4 DEF Cycle

\* The flags are set, cleared, kept, or (the reset's) set by one another.
LEMMA FlagsOfNext ==
    ASSUME FlagsOK, [Next]_vars
    PROVE  FlagsOK'
<1>1. requested' \in BOOLEAN
  <2>1. requested' = requested \/ requested' = TRUE \/ requested' = FALSE
    BY DEF Next, Cycle, Idle, GetCommand, GotCommand, CommandTimeout, ProcessCmd,
       SendResult, ResultAcked, ResultRefused, RetryDelay, Cleared,
       OperationRequest, Receive, ServerResponse, RequestAck, Lose, vars
  <2> QED
    BY <2>1 DEF FlagsOK
<1>2. processed' \in BOOLEAN
  <2>1. processed' = processed \/ processed' = TRUE \/ processed' = FALSE
    BY DEF Next, Cycle, Idle, GetCommand, GotCommand, CommandTimeout, ProcessCmd,
       SendResult, ResultAcked, ResultRefused, RetryDelay, Cleared,
       OperationRequest, Receive, ServerResponse, RequestAck, Lose, vars
  <2> QED
    BY <2>1 DEF FlagsOK
<1>3. mcureset' \in BOOLEAN
  <2>1. \/ mcureset' = mcureset \/ mcureset' = FALSE
        \/ mcureset' = (mcureset \/ payload.of = "mcureset")
    BY DEF Next, Cycle, Idle, GetCommand, GotCommand, CommandTimeout, ProcessCmd,
       SendResult, ResultAcked, ResultRefused, RetryDelay, Cleared,
       OperationRequest, Receive, ServerResponse, RequestAck, Lose, vars
  <2> QED
    BY <2>1 DEF FlagsOK
<1>4. reset' \in BOOLEAN
  <2>1. reset' = reset \/ reset' = (reset \/ mcureset)
    BY DEF Next, Cycle, Idle, GetCommand, GotCommand, CommandTimeout, ProcessCmd,
       SendResult, ResultAcked, ResultRefused, RetryDelay, ghosts,
       OperationRequest, Receive, ServerResponse, RequestAck, Lose, vars
  <2> QED
    BY <2>1 DEF FlagsOK
<1> QED
  BY <1>1, <1>2, <1>3, <1>4 DEF FlagsOK

LEMMA NextTypeInv == TypeInv /\ [Next]_vars => TypeInv'
<1> SUFFICES ASSUME TypeInv, [Next]_vars PROVE TypeInv'
  OBVIOUS
<1>0. /\ IdsOK /\ KindsOK /\ FlagsOK /\ StateOK /\ BufferOK /\ TriesOK
  BY DEF TypeInv
<1>1. FlagsOK'
  BY <1>0, FlagsOfNext
<1>2. CASE Cycle
  <2>1. IdsOK' /\ KindsOK'
    BY <1>0, <1>2, IdsOfCycle, KindsOfCycle
  <2>2. StateOK'
    BY <1>0, <1>2 DEF Cycle, Idle, GetCommand, GotCommand, CommandTimeout,
       ProcessCmd, SendResult, ResultAcked, ResultRefused, RetryDelay, Cleared,
       requestVars, StateOK, States
  <2>3. BufferOK'
    BY <1>0, <1>2 DEF Cycle, Idle, GetCommand, GotCommand, CommandTimeout,
       ProcessCmd, SendResult, ResultAcked, ResultRefused, RetryDelay, Cleared,
       BufferOK, Payload, Nothing, Ask
  <2>4. TriesOK'
    BY <1>0, <1>2, CommandAssumption DEF Cycle, Idle, GetCommand, GotCommand,
       CommandTimeout, ProcessCmd, SendResult, ResultAcked, ResultRefused,
       RetryDelay, Cleared, TriesOK
  <2> QED
    BY <1>1, <2>1, <2>2, <2>3, <2>4 DEF TypeInv
<1>3. CASE OperationRequest \/ UNCHANGED vars
  <2>1. IdsOK'
    BY <1>0, <1>3, QuietIdsOK DEF OperationRequest, requestVars, vars
  <2>2. KindsOK' /\ StateOK' /\ BufferOK' /\ TriesOK'
    BY <1>0, <1>3 DEF OperationRequest, requestVars, vars, KindsOK, StateOK,
       BufferOK, TriesOK
  <2> QED
    BY <1>1, <2>1, <2>2 DEF TypeInv
<1>4. ASSUME NEW m \in air, ServerResponse(m) PROVE TypeInv'
  <2>1. IdsOK'
    BY <1>0, <1>4, QuietIdsOK DEF ServerResponse
  <2>2. m.is.kind = "command"
    BY <1>0, <1>4 DEF ServerResponse, KindsOK
  <2>3. KindsOK' /\ StateOK' /\ BufferOK' /\ TriesOK'
    BY <1>0, <1>4, <2>2 DEF ServerResponse, KindsOK, StateOK, BufferOK, TriesOK
  <2> QED
    BY <1>1, <2>1, <2>3 DEF TypeInv
<1>5. ASSUME NEW m \in air, RequestAck(m) \/ Lose(m) PROVE TypeInv'
  <2>1. IdsOK'
    BY <1>0, <1>5, QuietIdsOK DEF RequestAck, Lose, Lost
  <2>2. KindsOK' /\ StateOK' /\ BufferOK' /\ TriesOK'
    BY <1>0, <1>5 DEF RequestAck, Lose, Lost, KindsOK, StateOK, BufferOK, TriesOK
  <2> QED
    BY <1>1, <2>1, <2>2 DEF TypeInv
<1> QED
  BY <1>2, <1>3, <1>4, <1>5 DEF Next, Receive

\* The machine's context stays within its ranges, and it gives up a result
\* before the count of its sends gets to the limit.
THEOREM SpecTypeOK == Spec => []TypeOK
<1>1. Init => TypeInv
  BY InitTypeInv
<1>2. TypeInv /\ [Next]_vars => TypeInv'
  BY NextTypeInv
<1>3. TypeInv => TypeOK
  BY DEF TypeInv, TypeOK, IdsOK, Ids, FlagsOK, StateOK, BufferOK, TriesOK
<1> QED
  BY <1>1, <1>2, <1>3, PTL DEF Spec
=============================================================================
