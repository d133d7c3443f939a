-------------------------- MODULE MeshUpdate_proofs ---------------------------
(***************************************************************************)
(* What a mesh node boots, and when, and the types: proofs about           *)
(* MeshUpdate, for every set of versions, every length of a file and every *)
(* limit.                                                                  *)
(***************************************************************************)
EXTENDS MeshUpdate, TLAPS

(***************************************************************************)
(* The requests: ids in their range, and what may be under way once one    *)
(* has been made                                                           *)
(***************************************************************************)
Ids == 0..MaxId

\* What is under way has an id other than 0, by which a machine that waits
\* for nothing goes.
IdsOK ==
    /\ last \in Ids /\ id \in Ids
    /\ \A m \in air : m.id \in Ids \ {0}

\* meshCommsSend gives a message without an id a new one, never 0.
LEMMA IdIsNew ==
    ASSUME last \in Ids, NEW n \in Ids
    PROVE  Id(n) \in Ids \ {0} /\ (n # 0 => Id(n) = n)
<1>1. CASE n = 0
  <2>1. last % MaxId \in 0..(MaxId - 1)
    BY RequestsAssumption DEF Ids
  <2> QED
    BY <1>1, <2>1, RequestsAssumption DEF Id, Ids
<1>2. CASE n # 0
  BY <1>2 DEF Id
<1> QED
  BY <1>1, <1>2

\* After a request every message under way to it is one of its answers, or
\* was under way to its first send.
LEMMA AirAfterSend ==
    ASSUME NEW n, NEW full, Sent(n, full)
    PROVE  \A m \in air' : \/ m \in air /\ (n = id \/ m.id # n)
                           \/ m \in full
                           \/ m = Ack(n, "NACK")
<1>1. CASE Answered(n, full)
  BY <1>1 DEF Answered, StillUnderWay
<1>2. CASE HalfAnswered(n, full)
  <2> PICK some \in (SUBSET full) \union {{Ack(n, "NACK")}} :
             air' = StillUnderWay(n) \union some
    BY <1>2 DEF HalfAnswered
  <2>1. \A m \in some : m \in full \/ m = Ack(n, "NACK")
    OBVIOUS
  <2> QED
    BY <2>1 DEF StillUnderWay
<1> QED
  BY <1>1, <1>2 DEF Sent

LEMMA AckFields ==
    ASSUME NEW n, NEW k
    PROVE  Ack(n, k).id = n /\ Ack(n, k).is.kind = k
BY DEF Ack, Answer, Payload

LEMMA IdsAfterSend ==
    ASSUME IdsOK, NEW n \in Ids \ {0}, NEW full, \A m \in full : m.id = n,
           Sent(n, full), id' = n, last' \in {last, n}
    PROVE  IdsOK'
<1>1. \A m \in air' : m.id \in Ids \ {0}
  BY AirAfterSend, AckFields DEF IdsOK
<1> QED
  BY <1>1 DEF IdsOK

LEMMA IdsNotSent ==
    ASSUME IdsOK, NEW n \in Ids, NotSent(n)
    PROVE  IdsOK'
<1>1. Id(0) \in Ids
  BY IdIsNew, RequestsAssumption DEF IdsOK, Ids
<1> QED
  BY <1>1, RequestsAssumption DEF IdsOK, NotSent, Ids

\* The steps that send nothing keep the ids in their range.
LEMMA QuietIdsOK ==
    ASSUME IdsOK, air' \subseteq air, last' = last, id' \in {id, 0}
    PROVE  IdsOK'
BY RequestsAssumption DEF IdsOK, Ids

(***************************************************************************)
(* The file                                                                *)
(***************************************************************************)

\* While a file is being got the hash is that of a version; an update that
\* has started is that of a whole file.
FileInv ==
    /\ boot \in BOOLEAN
    /\ st = "DOWNLOAD_FILE" => hash \in Versions
    /\ result = "UPDATE_STARTED" => \E v \in Versions : Whole(app, v)

\* Only an acknowledged result makes the node boot something else.
LEMMA BootChanges ==
    ASSUME [Next]_vars, ~ResultAcked
    PROVE  boot' = boot
<1>1. CASE Idle \/ GetInfo \/ GotInfo \/ InfoTimeout \/ SendResult \/ ResultRefused
              \/ RetryDelay
  BY <1>1 DEF Idle, GetInfo, GotInfo, InfoTimeout, SendResult, ResultRefused,
              RetryDelay, ghosts
<1>2. CASE ProcessDownload
  <2>1. CASE DownloadIdle
    BY <2>1 DEF DownloadIdle, ghosts
  <2>2. CASE GetChunk \/ WriteChunk \/ ChunkBad
    BY <2>2 DEF GetChunk, WriteChunk, ChunkBad, ghosts
  <2>3. CASE WriteFails \/ Verify \/ DownloadRetry
    BY <2>3 DEF WriteFails, Verify, DownloadRetry, ghosts
  <2> QED
    BY <1>2, <2>1, <2>2, <2>3 DEF ProcessDownload
<1>3. CASE UpdateRequest
  BY <1>3 DEF UpdateRequest, ghosts
<1>4. ASSUME NEW m \in air, ServerResponse(m) \/ RequestAck(m) \/ Lose(m)
      PROVE  boot' = boot
  BY <1>4 DEF ServerResponse, RequestAck, Lose, ghosts
<1>5. CASE UNCHANGED vars
  BY <1>5 DEF vars
<1> QED
  BY <1>1, <1>2, <1>3, <1>4, <1>5 DEF Next, Cycle, Receive

LEMMA InitFileInv == Init => FileInv
BY DEF Init, FileInv

LEMMA NextFileInv == FileInv /\ [Next]_vars => FileInv'
<1> SUFFICES ASSUME FileInv, [Next]_vars PROVE FileInv'
  OBVIOUS
<1>0. boot' \in BOOLEAN
  BY BootChanges DEF FileInv, ResultAcked
<1>1. ASSUME UNCHANGED <<hash, result, app>>, st' \in {st} \union (States \ {"DOWNLOAD_FILE"})
      PROVE  FileInv'
  BY <1>0, <1>1 DEF FileInv, Whole
<1>2. CASE Idle
  BY <1>0, <1>2 DEF Idle, FileInv, Whole
<1>3. CASE GetInfo \/ InfoTimeout \/ SendResult \/ ResultRefused
  BY <1>1, <1>3 DEF GetInfo, InfoTimeout, SendResult, ResultRefused, downloadVars, States
<1>4. CASE GotInfo
  BY <1>0, <1>4 DEF GotInfo, FileInv
<1>5. CASE ResultAcked \/ RetryDelay
  BY <1>1, <1>5 DEF ResultAcked, RetryDelay, downloadVars, States
<1>6. CASE DownloadIdle
  BY <1>1, <1>6 DEF DownloadIdle, Prepared, PrepareFails, States
<1>7. CASE GetChunk \/ WriteChunk \/ ChunkBad
  BY <1>1, <1>7 DEF GetChunk, WriteChunk, ChunkBad
<1>8. CASE WriteFails
  BY <1>0, <1>8 DEF WriteFails, Prepared, PrepareFails, FileInv
<1>9. CASE Verify
  <2>1. hash \in Versions /\ hash' = hash
    BY <1>9 DEF Verify, FileInv
  <2>2. result' = "UPDATE_STARTED" => app' = file /\ Whole(file, hash)
    BY <1>9 DEF Verify
  <2>3. result' = "UPDATE_STARTED" => Whole(app', hash)
    BY <2>2 DEF Whole
  <2> QED
    BY <1>0, <2>1, <2>3 DEF FileInv, Whole
<1>10. CASE DownloadRetry
  BY <1>0, <1>10 DEF DownloadRetry, FileInv, Whole
<1>11. CASE UpdateRequest
  BY <1>1, <1>11 DEF UpdateRequest, downloadVars
<1>12. ASSUME NEW m \in air, ServerResponse(m) \/ RequestAck(m) \/ Lose(m)
       PROVE  FileInv'
  BY <1>1, <1>12 DEF ServerResponse, RequestAck, Lose, downloadVars
<1>13. CASE UNCHANGED vars
  BY <1>1, <1>13 DEF vars
<1>14. CASE Cycle
  BY <1>14, <1>2, <1>3, <1>4, <1>5, <1>6, <1>7, <1>8, <1>9, <1>10
     DEF Cycle, ProcessDownload
<1> QED
  BY <1>11, <1>12, <1>13, <1>14 DEF Next, Receive

LEMMA BootsWhenAcked ==
    ASSUME FileInv, [Next]_vars, boot' # boot
    PROVE  ResultAcked /\ result = "UPDATE_STARTED"
BY BootChanges DEF FileInv, ResultAcked

\* The node is told to boot a whole file of one version, whatever the server
\* does with its file and wherever the download fails.
THEOREM SpecBootsVerified == Spec => BootsVerified
<1>1. Init => FileInv
  BY InitFileInv
<1>2. FileInv /\ [Next]_vars => FileInv'
  BY NextFileInv
<1>3. FileInv /\ [Next]_vars
        => [boot' # boot => \E v \in Versions : Whole(app, v)]_vars
  BY BootsWhenAcked DEF FileInv
<1> QED
  BY <1>1, <1>2, <1>3, PTL DEF Spec, BootsVerified

(***************************************************************************)
(* The report                                                              *)
(***************************************************************************)

Started == Payload("result", "UPDATE_STARTED")

\* From the verification of the file until the firmware is to be booted.
Reporting == ~boot /\ result = "UPDATE_STARTED"

\* The answers under way to the current request are acknowledgements, positive
\* only when a parent has got the result.
OwnAnswers ==
    \A m \in air : m.id = id => /\ m.is.kind \in Acks
                                /\ m.is.kind = "ACK" => received = Started

ReportOK ==
    /\ Reporting => st \in {"DOWNLOAD_FILE", "SEND_RESULT", "WAIT_RESPONSE", "RETRY_DELAY"}
    /\ Reporting /\ st = "DOWNLOAD_FILE" => dl = "IDLE" /\ ~(offset < Chunks)
    /\ Reporting /\ st # "DOWNLOAD_FILE" =>
          /\ processed /\ payload = Started /\ OwnAnswers
          /\ st = "WAIT_RESPONSE" /\ ack = "ACK" => received = Started

ReportInv == IdsOK /\ ReportOK

LEMMA InitReportInv == Init => ReportInv
BY RequestsAssumption
   DEF Init, ReportInv, IdsOK, Ids, ReportOK, Reporting

LEMMA GetIdsOK ==
    ASSUME IdsOK, NEW answers, \A d \in answers : d.id = Id(0), Get(answers)
    PROVE  IdsOK'
<1>1. id' \in Ids \ {0} /\ last' = id' /\ id' = Id(0)
  BY IdIsNew, RequestsAssumption DEF Get, IdsOK, Ids
<1>2. ASSUME NEW d \in answers, Sent(id', {Ack(id', "ACK"), d})
      PROVE  IdsOK'
  <2>1. \A m \in {Ack(id', "ACK"), d} : m.id = id'
    BY <1>1, AckFields
  <2> QED
    BY <1>1, <1>2, <2>1, IdsAfterSend
<1>3. CASE Sent(id', {Ack(id', "ACK")})
  BY <1>1, <1>3, AckFields, IdsAfterSend
<1> QED
  BY <1>2, <1>3 DEF Get

LEMMA AskIdsOK ==
    ASSUME IdsOK, NotSent(0) \/ Get(Info(Id(0))) \/ Get(Chunk(Id(0)))
    PROVE  IdsOK'
<1>1. CASE NotSent(0)
  BY <1>1, IdsNotSent, RequestsAssumption DEF Ids
<1>2. \A d \in Info(Id(0)) \union Chunk(Id(0)) : d.id = Id(0)
  BY DEF Info, Chunk, Answer
<1> QED
  BY <1>1, <1>2, GetIdsOK

\* Outside a report nothing is claimed.
LEMMA NotReporting ==
    ASSUME IdsOK', ~Reporting'
    PROVE  ReportInv'
BY DEF ReportInv, ReportOK

LEMMA SendResultKeeps ==
    ASSUME ReportInv, SendResult
    PROVE  ReportInv'
<1> USE DEF ReportInv
<1>0. result' = result /\ boot' = boot /\ processed' = processed /\ payload' = payload
      /\ st = "SEND_RESULT" /\ ack' = "none"
  BY DEF SendResult
<1>1. CASE NotSent(id) /\ st' = "RETRY_DELAY" /\ UNCHANGED received
  <2>1. IdsOK'
    BY <1>1, IdsNotSent DEF IdsOK
  <2>2. id' = 0 /\ air' = air
    BY <1>1 DEF NotSent
  <2>3. OwnAnswers'
    BY <2>1, <2>2 DEF OwnAnswers, IdsOK
  <2> QED
    BY <1>0, <1>1, <2>1, <2>3 DEF ReportOK, Reporting
<1>2. ASSUME id' = Id(id), last' = (IF id = 0 THEN id' ELSE last),
             st' = "WAIT_RESPONSE",
             \/ Sent(id', {Ack(id', "ACK")}) /\ received' = payload
             \/ HalfAnswered(id', {}) /\ UNCHANGED received
      PROVE  ReportInv'
  <2>1. id' \in Ids \ {0} /\ (id # 0 => id' = id)
    BY <1>2, IdIsNew DEF IdsOK
  <2>2. HalfAnswered(id', {}) => Sent(id', {})
    BY DEF Sent
  <2>3. IdsOK'
    BY <1>2, <2>1, <2>2, AckFields, IdsAfterSend
  <2>4. ASSUME Reporting' PROVE OwnAnswers'
    <3>1. Reporting /\ OwnAnswers /\ payload = Started
      BY <1>0, <2>4 DEF Reporting, ReportOK
    <3>2. ASSUME NEW m \in air', m.id = id'
          PROVE  m.is.kind \in Acks /\ (m.is.kind = "ACK" => received' = Started)
      <4>1. CASE Sent(id', {Ack(id', "ACK")}) /\ received' = payload
        <5>1. \/ m \in air /\ id' = id
              \/ m = Ack(id', "ACK") \/ m = Ack(id', "NACK")
          BY <4>1, <3>2, AirAfterSend
        <5>2. m.is.kind \in Acks
          BY <5>1, <3>1, <3>2, AckFields DEF OwnAnswers, Acks
        <5> QED
          BY <4>1, <3>1, <5>2
      <4>2. CASE HalfAnswered(id', {}) /\ UNCHANGED received
        <5>1. (m \in air /\ id' = id) \/ m = Ack(id', "NACK")
          BY <4>2, <3>2, <2>2, AirAfterSend
        <5> QED
          BY <4>2, <5>1, <3>1, <3>2, AckFields DEF OwnAnswers, Acks
      <4> QED
        BY <1>2, <4>1, <4>2
    <3> QED
      BY <3>2 DEF OwnAnswers
  <2> QED
    BY <1>0, <1>2, <2>3, <2>4 DEF ReportOK, Reporting
<1> QED
  BY <1>1, <1>2 DEF SendResult

LEMMA NextReportInv == ReportInv /\ [Next]_vars => ReportInv'
<1> SUFFICES ASSUME ReportInv, [Next]_vars PROVE ReportInv'
  OBVIOUS
<1>0. IdsOK /\ ReportOK
  BY DEF ReportInv
<1>1. CASE Idle \/ GetInfo \/ GotInfo \/ InfoTimeout
  <2>1. IdsOK'
    BY <1>0, <1>1, QuietIdsOK, AskIdsOK
       DEF Idle, GetInfo, GotInfo, InfoTimeout, requestVars
  <2>2. ~Reporting
    BY <1>0, <1>1 DEF Idle, GetInfo, GotInfo, InfoTimeout, ReportOK
  <2>3. boot' = boot /\ result' \in {result, "UNKNOWN", "INTERNAL_ERROR", "UPDATE_INFO_ERROR"}
    BY <1>1 DEF Idle, GetInfo, GotInfo, InfoTimeout, ghosts
  <2> QED
    BY <2>1, <2>2, <2>3, NotReporting DEF Reporting
<1>2. CASE SendResult
  BY <1>2, SendResultKeeps
<1>3. CASE ResultAcked
  <2>1. IdsOK'
    BY <1>0, <1>3, QuietIdsOK DEF ResultAcked, requestVars
  <2>2. ~Reporting'
    BY <1>3 DEF ResultAcked, Reporting
  <2> QED
    BY <2>1, <2>2, NotReporting
<1>4. CASE ResultRefused
  <2>1. IdsOK'
    BY <1>0, <1>4, QuietIdsOK DEF ResultRefused, requestVars
  <2> QED
    BY <1>0, <1>4, <2>1 DEF ResultRefused, requestVars, downloadVars, ghosts,
       ReportInv, ReportOK, Reporting, OwnAnswers
<1>5. CASE RetryDelay
  <2>1. IdsOK'
    BY <1>0, <1>5, QuietIdsOK DEF RetryDelay, requestVars
  <2>2. Reporting => st' \in {"SEND_RESULT", "RETRY_DELAY"}
    BY <1>0, <1>5 DEF RetryDelay, ReportOK
  <2> QED
    BY <1>0, <1>5, <2>1, <2>2 DEF RetryDelay, requestVars, downloadVars, ghosts,
       ReportInv, ReportOK, Reporting, OwnAnswers
<1>6. CASE DownloadIdle
  <2>1. IdsOK'
    BY <1>0, <1>6, QuietIdsOK DEF DownloadIdle, Prepared, PrepareFails
  <2>2. /\ UNCHANGED <<air, result, boot, received, offset>>
        /\ st = "DOWNLOAD_FILE"
    BY <1>6 DEF DownloadIdle, ghosts
  <2>3. Reporting => /\ Prepared(result) \/ PrepareFails
                     /\ dl' = dl
    <3>1. Reporting => ~(offset < Chunks)
      BY <1>0, <2>2 DEF ReportOK
    <3> QED
      BY <1>6, <3>1 DEF DownloadIdle
  <2>4. ReportOK'
    <3> SUFFICES ASSUME Reporting' PROVE ReportOK'
      BY DEF ReportOK
    <3>1. Reporting
      BY <2>2 DEF Reporting
    <3>2. CASE PrepareFails
      BY <1>0, <2>2, <2>3, <3>1, <3>2 DEF PrepareFails, ReportOK
    <3>3. CASE Prepared(result)
      BY <2>1, <2>2, <3>1, <3>3 DEF Prepared, ReportOK, Reporting, OwnAnswers,
         IdsOK, Started
    <3> QED
      BY <2>3, <3>1, <3>2, <3>3
  <2> QED
    BY <2>1, <2>4 DEF ReportInv
<1>7. CASE GetChunk \/ WriteChunk \/ ChunkBad \/ DownloadRetry
  <2>1. IdsOK'
    BY <1>0, <1>7, QuietIdsOK, AskIdsOK
       DEF GetChunk, WriteChunk, ChunkBad, DownloadRetry, requestVars
  <2>2. ~Reporting
    BY <1>0, <1>7 DEF GetChunk, WriteChunk, ChunkBad, DownloadRetry, ReportOK
  <2>3. boot' = boot /\ result' \in {result, "DOWNLOAD_ERROR"}
    BY <1>7 DEF GetChunk, WriteChunk, ChunkBad, DownloadRetry, ghosts
  <2> QED
    BY <2>1, <2>2, <2>3, NotReporting DEF Reporting
<1>8. CASE WriteFails
  <2>1. IdsOK'
    BY <1>0, <1>8, QuietIdsOK DEF WriteFails, Prepared, PrepareFails
  <2>2. ~Reporting'
    BY <1>8 DEF WriteFails, Reporting
  <2> QED
    BY <2>1, <2>2, NotReporting
<1>9. CASE Verify
  <2>1. IdsOK'
    BY <1>0, <1>9, QuietIdsOK DEF Verify, Prepared, PrepareFails
  <2>2. /\ st = "DOWNLOAD_FILE" /\ air' = air
        /\ dl' = "IDLE" /\ offset' = Chunks
        /\ Prepared(result') \/ PrepareFails
    BY <1>9 DEF Verify
  <2>3. ReportOK'
    <3>1. ~(Chunks < Chunks)
      BY UpdateAssumption
    <3>2. CASE PrepareFails
      BY <2>2, <3>1, <3>2 DEF PrepareFails, ReportOK
    <3>3. CASE Prepared(result')
      BY <2>1, <2>2, <3>3 DEF Prepared, ReportOK, Reporting, OwnAnswers, IdsOK, Started
    <3> QED
      BY <2>2, <3>2, <3>3
  <2> QED
    BY <2>1, <2>3 DEF ReportInv
<1>10. CASE UpdateRequest
  <2>1. IdsOK'
    BY <1>0, <1>10, QuietIdsOK DEF UpdateRequest, requestVars
  <2>2. ~Reporting'
    BY <1>0, <1>10 DEF UpdateRequest, ghosts, ReportOK, Reporting
  <2> QED
    BY <2>1, <2>2, NotReporting
<1>11. ASSUME NEW m \in air, ServerResponse(m) PROVE ReportInv'
  <2>1. IdsOK'
    BY <1>0, <1>11, QuietIdsOK DEF ServerResponse
  <2>2. Reporting /\ st # "DOWNLOAD_FILE" => m.id # id
    BY <1>0, <1>11 DEF ServerResponse, ReportOK, OwnAnswers
  <2>3. ReportOK'
    BY <1>0, <1>11, <2>2 DEF ServerResponse, downloadVars, ghosts, ReportOK,
       Reporting, OwnAnswers
  <2> QED
    BY <2>1, <2>3 DEF ReportInv
<1>12. ASSUME NEW m \in air, RequestAck(m) PROVE ReportInv'
  <2>1. IdsOK'
    BY <1>0, <1>12, QuietIdsOK DEF RequestAck
  <2>2. ReportOK'
    BY <1>0, <1>12 DEF RequestAck, downloadVars, ghosts, ReportOK, Reporting,
       OwnAnswers
  <2> QED
    BY <2>1, <2>2 DEF ReportInv
<1>13. ASSUME NEW m \in air, Lose(m) PROVE ReportInv'
  <2>1. IdsOK'
    BY <1>0, <1>13, QuietIdsOK DEF Lose, Lost
  <2>2. ReportOK'
    BY <1>0, <1>13 DEF Lose, Lost, downloadVars, ghosts, ReportOK, Reporting,
       OwnAnswers
  <2> QED
    BY <2>1, <2>2 DEF ReportInv
<1>14. CASE UNCHANGED vars
  <2>1. IdsOK'
    BY <1>0, <1>14, QuietIdsOK DEF vars
  <2>2. ReportOK'
    BY <1>0, <1>14 DEF vars, ReportOK, Reporting, OwnAnswers
  <2> QED
    BY <2>1, <2>2 DEF ReportInv
<1>15. CASE Cycle
  BY <1>15, <1>1, <1>2, <1>3, <1>4, <1>5, <1>6, <1>7, <1>8, <1>9
     DEF Cycle, ProcessDownload
<1>16. CASE Receive
  BY <1>16, <1>11, <1>12 DEF Receive
<1> QED
  BY <1>10, <1>13, <1>14, <1>15, <1>16 DEF Next

\* The node leaves for a new firmware only when a parent has got the result
\* "update started", whatever is lost, late, refused or sent again.
THEOREM SpecReportedFirst == Spec => ReportedFirst
<1>1. Init => ReportInv
  BY InitReportInv
<1>2. ReportInv /\ [Next]_vars => ReportInv'
  BY NextReportInv
<1>3. Init => FileInv
  BY InitFileInv
<1>4. FileInv /\ [Next]_vars => FileInv'
  BY NextFileInv
<1>5. FileInv /\ ReportInv /\ [Next]_vars
        => [boot' # boot => received = Payload("result", "UPDATE_STARTED")]_vars
  <2> SUFFICES ASSUME FileInv, ReportInv, [Next]_vars, boot' # boot PROVE received = Started
    BY DEF Started
  <2>1. ResultAcked /\ result = "UPDATE_STARTED"
    BY BootsWhenAcked
  <2>2. ~boot
    BY <2>1 DEF FileInv, ResultAcked
  <2>3. Reporting /\ st = "WAIT_RESPONSE" /\ ack = "ACK"
    BY <2>1, <2>2 DEF ResultAcked, Reporting
  <2> QED
    BY <2>3 DEF ReportInv, ReportOK
<1> QED
  BY <1>1, <1>2, <1>3, <1>4, <1>5, PTL DEF Spec, ReportedFirst

(***************************************************************************)
(* Type correctness                                                        *)
(***************************************************************************)
\* What a buffer, a message or a chunk of the file may be about.
Contents == Versions \union Results \union {"bad", "none"}

Kinds == {"none", "ask", "askchunk", "info", "chunk", "result"}

AnswerOK(m) == m.is.kind \in Acks \union {"info", "chunk"} /\ m.is.of \in Contents

AnswersOK == \A m \in air : AnswerOK(m)

\* The machine of the request: its states, flags, buffer and count.
MachineOK ==
    /\ st \in States /\ ack \in Acks \union {"none"}
    /\ payload.kind \in Kinds /\ payload.of \in Contents
    /\ retries \in 0..(Wrap - 1)

FlagsOK == requested \in BOOLEAN /\ processed \in BOOLEAN /\ boot \in BOOLEAN

\* The machine of the file.  A chunk is asked for only while one is missing;
\* one error is left until the download has failed; and until its result is
\* known the file is as long as the offset says.
DownloadOK ==
    /\ dl \in DownloadStates /\ result \in Results
    /\ hash \in Versions \union {"none"}
    /\ offset \in 0..Chunks /\ chunkErr \in 0..ChunkErrs
    /\ dl \in {"GET_CHUNK", "WAIT_CHUNK"} => offset < Chunks
    /\ file \in Seq(Contents)
    /\ result = "UNKNOWN" => chunkErr < ChunkErrs /\ Len(file) = offset

TypeInv == IdsOK /\ AnswersOK /\ MachineOK /\ FlagsOK /\ DownloadOK

LEMMA InitTypeInv == Init => TypeInv
<1> SUFFICES ASSUME Init PROVE TypeInv
  OBVIOUS
<1>1. FlagsOK
  BY DEF Init, FlagsOK
<1>2. IdsOK /\ AnswersOK
  BY RequestsAssumption DEF Init, IdsOK, Ids, AnswersOK
<1>3. MachineOK
  BY UpdateAssumption DEF Init, MachineOK, States, Nothing, Payload, Kinds, Contents
<1>4. DownloadOK
  BY UpdateAssumption DEF Init, DownloadOK, DownloadStates, Results, Contents
<1> QED
  BY <1>1, <1>2, <1>3, <1>4 DEF TypeInv

LEMMA AckIsAnswer ==
    ASSUME NEW n
    PROVE  AnswerOK(Ack(n, "ACK")) /\ AnswerOK(Ack(n, "NACK"))
BY DEF AnswerOK, Ack, Answer, Payload, Acks, Contents

LEMMA AnswersAfterSend ==
    ASSUME AnswersOK, NEW n, NEW full, \A m \in full : AnswerOK(m), Sent(n, full)
    PROVE  AnswersOK'
<1>1. ASSUME NEW m \in air' PROVE AnswerOK(m)
  BY <1>1, AirAfterSend, AckIsAnswer DEF AnswersOK
<1> QED
  BY <1>1 DEF AnswersOK, AnswerOK

LEMMA GetKeepsAnswers ==
    ASSUME AnswersOK, NEW answers, \A d \in answers : AnswerOK(d), Get(answers)
    PROVE  AnswersOK'
<1>1. ASSUME NEW d \in answers, Sent(id', {Ack(id', "ACK"), d})
      PROVE  AnswersOK'
  <2>1. \A m \in {Ack(id', "ACK"), d} : AnswerOK(m)
    BY AckIsAnswer
  <2> QED
    BY <1>1, <2>1, AnswersAfterSend
<1>2. CASE Sent(id', {Ack(id', "ACK")})
  BY <1>2, AckIsAnswer, AnswersAfterSend
<1> QED
  BY <1>1, <1>2 DEF Get

LEMMA AskKeepsAnswers ==
    ASSUME AnswersOK, NotSent(0) \/ Get(Info(Id(0))) \/ Get(Chunk(Id(0)))
    PROVE  AnswersOK'
<1>1. CASE NotSent(0)
  BY <1>1 DEF NotSent, AnswersOK, AnswerOK
<1>2. \A d \in Info(Id(0)) \union Chunk(Id(0)) : AnswerOK(d)
  BY DEF Info, Chunk, Answer, AnswerOK, Payload, Contents
<1> QED
  BY <1>1, <1>2, GetKeepsAnswers

LEMMA SendResultKeepsIds ==
    ASSUME IdsOK, AnswersOK, SendResult
    PROVE  IdsOK' /\ AnswersOK'
<1>1. CASE NotSent(id)
  <2>1. IdsOK'
    BY <1>1, IdsNotSent DEF IdsOK
  <2> QED
    BY <1>1, <2>1 DEF NotSent, AnswersOK, AnswerOK
<1>2. ASSUME id' = Id(id), last' = (IF id = 0 THEN id' ELSE last),
             Sent(id', {Ack(id', "ACK")}) \/ HalfAnswered(id', {})
      PROVE  IdsOK' /\ AnswersOK'
  <2>1. id' \in Ids \ {0} /\ last' \in {last, id'}
    BY <1>2, IdIsNew DEF IdsOK
  <2>2. HalfAnswered(id', {}) => Sent(id', {})
    BY DEF Sent
  <2>3. CASE Sent(id', {Ack(id', "ACK")})
    BY <2>1, <2>3, AckFields, AckIsAnswer, IdsAfterSend, AnswersAfterSend
  <2>4. CASE Sent(id', {})
    BY <2>1, <2>4, IdsAfterSend, AnswersAfterSend
  <2> QED
    BY <1>2, <2>2, <2>3, <2>4
<1> QED
  BY <1>1, <1>2 DEF SendResult

\* The steps that send nothing keep what is under way.
LEMMA QuietAnswersOK ==
    ASSUME AnswersOK, air' \subseteq air
    PROVE  AnswersOK'
BY DEF AnswersOK, AnswerOK

LEMMA AirOfNext ==
    ASSUME IdsOK, AnswersOK, [Next]_vars
    PROVE  IdsOK' /\ AnswersOK'
<1>1. CASE Idle \/ InfoTimeout \/ ResultAcked \/ ResultRefused \/ RetryDelay
  BY <1>1, QuietIdsOK, QuietAnswersOK
     DEF Idle, InfoTimeout, ResultAcked, ResultRefused, RetryDelay, requestVars
<1>2. CASE GetInfo \/ GetChunk
  BY <1>2, AskIdsOK, AskKeepsAnswers DEF GetInfo, GetChunk
<1>3. CASE GotInfo \/ WriteChunk \/ ChunkBad \/ DownloadRetry
  BY <1>3, QuietIdsOK, QuietAnswersOK
     DEF GotInfo, WriteChunk, ChunkBad, DownloadRetry, requestVars
<1>4. CASE SendResult
  BY <1>4, SendResultKeepsIds
<1>5. CASE DownloadIdle \/ WriteFails \/ Verify
  BY <1>5, QuietIdsOK, QuietAnswersOK
     DEF DownloadIdle, WriteFails, Verify, Prepared, PrepareFails
<1>6. CASE UpdateRequest \/ UNCHANGED vars
  BY <1>6, QuietIdsOK, QuietAnswersOK DEF UpdateRequest, requestVars, vars
<1>7. ASSUME NEW m \in air, ServerResponse(m) \/ RequestAck(m) \/ Lose(m)
      PROVE  IdsOK' /\ AnswersOK'
  BY <1>7, QuietIdsOK, QuietAnswersOK DEF ServerResponse, RequestAck, Lose, Lost
<1> QED
  BY <1>1, <1>2, <1>3, <1>4, <1>5, <1>6, <1>7 DEF Next, Cycle, ProcessDownload, Receive

\* The flags are set, cleared, kept, or (to boot) set by an acknowledged result.
LEMMA FlagsOfNext ==
    ASSUME FlagsOK, [Next]_vars
    PROVE  FlagsOK'
<1>1. requested' = requested \/ requested' = TRUE \/ requested' = FALSE
  BY DEF Next, Cycle, ProcessDownload, Idle, GetInfo, GotInfo, InfoTimeout,
     DownloadIdle, GetChunk, WriteChunk, ChunkBad, WriteFails, Verify,
     DownloadRetry, SendResult, ResultAcked, ResultRefused, RetryDelay,
     UpdateRequest, Receive, ServerResponse, RequestAck, Lose, vars
<1>2. processed' = processed \/ processed' = TRUE \/ processed' = FALSE
  BY DEF Next, Cycle, ProcessDownload, Idle, GetInfo, GotInfo, InfoTimeout,
     DownloadIdle, GetChunk, WriteChunk, ChunkBad, WriteFails, Verify,
     DownloadRetry, SendResult, ResultAcked, ResultRefused, RetryDelay,
     UpdateRequest, Receive, ServerResponse, RequestAck, Lose, vars,
     Prepared, PrepareFails
<1>3. boot' = boot \/ boot' = (boot \/ result = "UPDATE_STARTED")
  BY BootChanges DEF ResultAcked
<1>4. requested' \in BOOLEAN
  BY <1>1 DEF FlagsOK
<1>5. processed' \in BOOLEAN
  BY <1>2 DEF FlagsOK
<1>6. boot' \in BOOLEAN
  BY <1>3 DEF FlagsOK
<1> QED
  BY <1>4, <1>5, <1>6 DEF FlagsOK

LEMMA NextMachineOK ==
    ASSUME AnswersOK, MachineOK, DownloadOK, [Next]_vars
    PROVE  MachineOK'
<1>1. CASE Idle \/ GetInfo \/ InfoTimeout \/ ResultAcked \/ ResultRefused
  BY <1>1 DEF Idle, GetInfo, InfoTimeout, ResultAcked, ResultRefused, requestVars,
     NotSent, Get, MachineOK, States, Kinds, Contents, Payload, Nothing, Ask
<1>2. CASE GotInfo \/ SendResult \/ UNCHANGED vars
  BY <1>2 DEF GotInfo, SendResult, vars, MachineOK, States
<1>3. CASE RetryDelay
  <2>1. (retries + 1) % Wrap \in 0..(Wrap - 1)
    BY UpdateAssumption DEF MachineOK
  <2> QED
    BY <1>3, <2>1 DEF RetryDelay, requestVars, MachineOK, States
<1>4. CASE GetChunk \/ WriteChunk \/ ChunkBad \/ DownloadRetry
  BY <1>4 DEF GetChunk, WriteChunk, ChunkBad, DownloadRetry, requestVars, Get,
     MachineOK, States, Kinds, Contents, Payload, Nothing
<1>5. CASE DownloadIdle
  BY <1>5 DEF DownloadIdle, Prepared, PrepareFails, AskChunk, DownloadOK, MachineOK,
     States, Kinds, Contents, Payload
<1>6. CASE WriteFails \/ Verify
  <2>1. /\ Prepared(result') \/ PrepareFails
        /\ result' \in Results /\ ack' = ack /\ retries' = retries
    BY <1>6 DEF WriteFails, Verify, Results
  <2> QED
    BY <2>1 DEF Prepared, PrepareFails, MachineOK, States, Kinds, Contents, Payload
<1>7. CASE UpdateRequest
  BY <1>7, UpdateAssumption DEF UpdateRequest, requestVars, MachineOK
<1>8. ASSUME NEW m \in air, ServerResponse(m) \/ RequestAck(m) \/ Lose(m)
      PROVE  MachineOK'
  <2>1. AnswerOK(m)
    BY DEF AnswersOK
  <2> QED
    BY <1>8, <2>1 DEF ServerResponse, RequestAck, Lose, AnswerOK, Acks, MachineOK, Kinds
<1> QED
  BY <1>1, <1>2, <1>3, <1>4, <1>5, <1>6, <1>7, <1>8
     DEF Next, Cycle, ProcessDownload, Receive

LEMMA NextDownloadOK ==
    ASSUME MachineOK, DownloadOK, [Next]_vars
    PROVE  DownloadOK'
<1>1. ASSUME UNCHANGED downloadVars, UNCHANGED result
      PROVE  DownloadOK'
  BY <1>1 DEF downloadVars, DownloadOK
<1>2. CASE GetInfo \/ InfoTimeout \/ SendResult \/ ResultAcked \/ ResultRefused \/ RetryDelay
  BY <1>1, <1>2 DEF GetInfo, InfoTimeout, SendResult, ResultAcked, ResultRefused,
     RetryDelay
<1>3. CASE Idle
  BY <1>3 DEF Idle, DownloadOK
<1>4. CASE GotInfo
  <2>1. CASE /\ dl' = "IDLE" /\ offset' = 0 /\ chunkErr' = 0 /\ file' = <<>>
             /\ result' = "UNKNOWN" /\ hash' \in Versions
    BY <2>1, UpdateAssumption DEF DownloadOK, DownloadStates, Results
  <2>2. CASE /\ UNCHANGED <<dl, offset, chunkErr, file>>
             /\ result' \in {"INTERNAL_ERROR", "UPDATE_INFO_ERROR"}
             /\ hash' \in Versions \union {hash}
    BY <2>2 DEF DownloadOK, Results
  <2> QED
    BY <1>4, <2>1, <2>2 DEF GotInfo
<1>5. CASE DownloadIdle \/ GetChunk
  BY <1>5 DEF DownloadIdle, GetChunk, DownloadOK, DownloadStates
<1>6. CASE WriteChunk
  <2>1. offset < Chunks /\ offset' = offset + 1 /\ chunkErr' = 0
    BY <1>6 DEF WriteChunk, DownloadOK
  <2>2. file' \in Seq(Contents) /\ Len(file') = Len(file) + 1
    BY <1>6 DEF WriteChunk, DownloadOK, MachineOK
  <2> QED
    BY <1>6, <2>1, <2>2, UpdateAssumption DEF WriteChunk, DownloadOK, DownloadStates
<1>7. CASE ChunkBad \/ WriteFails
  BY <1>7 DEF ChunkBad, WriteFails, DownloadOK, DownloadStates, Results
<1>8. CASE Verify
  <2>1. /\ result' \in Results \ {"UNKNOWN"} /\ file' \in {file, <<>>}
        /\ offset' = Chunks /\ dl' = "IDLE" /\ UNCHANGED <<hash, chunkErr>>
    BY <1>8 DEF Verify, Results
  <2>2. file' \in Seq(Contents)
    <3>1. CASE file' = file
      BY <3>1 DEF DownloadOK
    <3>2. CASE file' = <<>>
      BY <3>2
    <3> QED
      BY <2>1, <3>1, <3>2
  <2>3. offset' \in 0..Chunks /\ chunkErr' \in 0..ChunkErrs
    BY <2>1, UpdateAssumption DEF DownloadOK
  <2> QED
    BY <2>1, <2>2, <2>3 DEF DownloadOK, DownloadStates
<1>9. CASE DownloadRetry
  BY <1>9, UpdateAssumption DEF DownloadRetry, DownloadOK, DownloadStates, Results
<1>10. CASE UpdateRequest \/ UNCHANGED vars
  BY <1>1, <1>10 DEF UpdateRequest, vars, downloadVars
<1>11. ASSUME NEW m \in air, ServerResponse(m) \/ RequestAck(m) \/ Lose(m)
       PROVE  DownloadOK'
  BY <1>1, <1>11 DEF ServerResponse, RequestAck, Lose
<1> QED
  BY <1>2, <1>3, <1>4, <1>5, <1>6, <1>7, <1>8, <1>9, <1>10, <1>11
     DEF Next, Cycle, ProcessDownload, Receive

\* Both machines stay within their ranges: no chunk is asked for beyond the end
\* of the file, the errors stop at their limit, and until a download has
\* succeeded or failed its file is as long as its offset says.
THEOREM SpecTypeOK == Spec => []TypeOK
<1>1. Init => TypeInv
  BY InitTypeInv
<1>2. TypeInv /\ [Next]_vars => TypeInv'
  BY AirOfNext, FlagsOfNext, NextMachineOK, NextDownloadOK DEF TypeInv
<1>3. TypeInv => TypeOK
  BY DEF TypeInv, TypeOK, IdsOK, Ids, MachineOK, FlagsOK, DownloadOK, Kinds
<1> QED
  BY <1>1, <1>2, <1>3, PTL DEF Spec
=============================================================================
