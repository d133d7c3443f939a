-------------------------- MODULE CloudComms_proofs --------------------------
(***************************************************************************)
(* Proofs about CloudComms, for every size of the send buffer and every    *)
(* retry limit.                                                            *)
(***************************************************************************)
EXTENDS CloudComms, WellFoundedInduction, TLAPS

(***************************************************************************)
(* The send buffer                                                         *)
(***************************************************************************)

Buffers == [used : SUBSET SendSlot, sendq : Seq(SendSlot)]

\* SlotsMatchQueue, of a buffer.
Matched(b) ==
    /\ b.used = {b.sendq[k] : k \in 1..Len(b.sendq)}
    /\ \A j, k \in 1..Len(b.sendq) : b.sendq[j] = b.sendq[k] => j = k

\* dtlsSendHandler's loop stops at a vacant slot.
LEMMA FirstSlot ==
    ASSUME NEW S \in SUBSET SendSlot, S # {}
    PROVE  First(S) \in S
<1>1. S \subseteq Nat
  BY DEF SendSlot
<1>2. PICK s \in S : \A t \in S : ~(<<t, s>> \in OpToRel(<, Nat))
  BY <1>1, WFMin, NatLessThanWellFounded
<1>3. ASSUME NEW t \in S
      PROVE  ~(t < s)
  <2>1. t \in Nat /\ s \in Nat
    BY <1>1
  <2> QED
    BY <1>2, <2>1, Zenon DEF OpToRel
<1>4. \A t \in S : s <= t
  BY <1>1, <1>3
<1> QED
  BY <1>4 DEF First

\* Appending a pointer that is not queued keeps the pointers distinct and
\* adds it to the slots in use.
LEMMA AppendMatched ==
    ASSUME NEW u \in SUBSET SendSlot, NEW q \in Seq(SendSlot),
           u = {q[k] : k \in 1..Len(q)},
           \A j, k \in 1..Len(q) : q[j] = q[k] => j = k,
           NEW s \in SendSlot, s \notin u
    PROVE  /\ u \cup {s} = {Append(q, s)[k] : k \in 1..Len(Append(q, s))}
           /\ \A j, k \in 1..Len(Append(q, s)) :
                 Append(q, s)[j] = Append(q, s)[k] => j = k
<1> DEFINE r == Append(q, s)
<1>1. /\ r \in Seq(SendSlot)
      /\ Len(r) = Len(q) + 1
      /\ r[Len(q) + 1] = s
      /\ \A k \in 1..Len(q) : r[k] = q[k]
      /\ Len(q) \in Nat
  OBVIOUS
<1> HIDE DEF r
<1>2. \A k \in 1..Len(r) : k \in 1..Len(q) \/ k = Len(q) + 1
  BY <1>1
<1>3. \A k \in 1..Len(q) : k \in 1..Len(r)
  BY <1>1
<1>4. Len(q) + 1 \in 1..Len(r)
  BY <1>1
<1>5. \A x : x \in u \cup {s} <=> \E k \in 1..Len(r) : x = r[k]
  BY <1>1, <1>2, <1>3, <1>4
<1>6. ASSUME NEW j \in 1..Len(r), NEW k \in 1..Len(r), r[j] = r[k]
      PROVE  j = k
  <2>1. CASE j \in 1..Len(q) /\ k \in 1..Len(q)
    BY <1>1, <1>6, <2>1
  <2>2. CASE j = Len(q) + 1 /\ k = Len(q) + 1
    BY <2>2
  <2>3. CASE j \in 1..Len(q) /\ k = Len(q) + 1
    BY <1>1, <1>6, <2>3
  <2>4. CASE j = Len(q) + 1 /\ k \in 1..Len(q)
    BY <1>1, <1>6, <2>4
  <2> QED
    BY <1>2, <2>1, <2>2, <2>3, <2>4
<1>7. u \cup {s} = {r[k] : k \in 1..Len(r)}
  BY <1>5
<1> QED
  BY <1>6, <1>7 DEF r

\* Filling a slot, or dropping the datagram when all are in use, keeps the
\* buffer matched.
LEMMA FilledMatched ==
    ASSUME NEW b \in Buffers, Matched(b)
    PROVE  Filled(b) \in Buffers /\ Matched(Filled(b))
<1>1. CASE Vacant(b.used) = {}
  BY <1>1 DEF Filled
<1>2. CASE Vacant(b.used) # {}
  <2> DEFINE s == First(Vacant(b.used))
             f == [used |-> b.used \cup {s}, sendq |-> Append(b.sendq, s)]
  <2>1. s \in SendSlot /\ s \notin b.used
    BY <1>2, FirstSlot DEF Vacant
  <2>2. b.used \in SUBSET SendSlot /\ b.sendq \in Seq(SendSlot)
    BY DEF Buffers
  <2>3. Filled(b) = f
    BY <1>2 DEF Filled
  <2> HIDE DEF s
  <2>4. f \in Buffers
    BY <2>1, <2>2 DEF Buffers
  <2>5. Matched(f)
    <3> DEFINE u == b.used
               q == b.sendq
    <3>1. /\ u \in SUBSET SendSlot /\ q \in Seq(SendSlot) /\ s \notin u
          /\ u = {q[k] : k \in 1..Len(q)}
          /\ \A j, k \in 1..Len(q) : q[j] = q[k] => j = k
      BY <2>1, <2>2 DEF Matched
    <3>2. f = [used |-> u \cup {s}, sendq |-> Append(q, s)]
      OBVIOUS
    <3> HIDE DEF u, q
    <3>3. /\ u \cup {s} = {Append(q, s)[k] : k \in 1..Len(Append(q, s))}
          /\ \A j, k \in 1..Len(Append(q, s)) :
                Append(q, s)[j] = Append(q, s)[k] => j = k
      BY <2>1, <3>1, AppendMatched
    <3>4. f.used = u \cup {s} /\ f.sendq = Append(q, s)
      BY <3>2
    <3> HIDE DEF f
    <3> QED
      BY <3>3, <3>4 DEF Matched
  <2> QED
    BY <2>3, <2>4, <2>5
<1> QED
  BY <1>1, <1>2

BufferOK == used \subseteq SendSlot /\ sendq \in Seq(SendSlot) /\ SlotsMatchQueue

LEMMA BufferMatched == BufferOK <=> Buffer \in Buffers /\ Matched(Buffer)
BY DEF BufferOK, Buffer, Buffers, Matched, SlotsMatchQueue

\* Sending any number of datagrams at once keeps the send buffer in order.
LEMMA SendKeepsBuffer ==
    ASSUME BufferOK, NEW n, SendDatagrams(n)
    PROVE  BufferOK'
<1>1. Buffer \in Buffers /\ Matched(Buffer)
  BY BufferMatched
<1>2. Filled(Buffer) \in Buffers /\ Matched(Filled(Buffer))
  BY <1>1, FilledMatched
<1>3. /\ Filled(Filled(Buffer)) \in Buffers
      /\ Matched(Filled(Filled(Buffer)))
  BY <1>2, FilledMatched
<1>4. /\ Filled(Filled(Filled(Buffer))) \in Buffers
      /\ Matched(Filled(Filled(Filled(Buffer))))
  BY <1>3, FilledMatched
<1>5. PICK b \in Buffers : Matched(b) /\ used' = b.used /\ sendq' = b.sendq
  BY <1>1, <1>2, <1>3, <1>4 DEF SendDatagrams
<1> QED
  BY <1>5 DEF Buffers, Matched, BufferOK, SlotsMatchQueue

\* SEND OK releases exactly the slot whose pointer leaves the queue.
LEMMA PopKeepsBuffer ==
    ASSUME BufferOK, sendq # <<>>,
           used' = used \ {Head(sendq)}, sendq' = Tail(sendq)
    PROVE  BufferOK'
<1>1. /\ Tail(sendq) \in Seq(SendSlot)
      /\ Len(Tail(sendq)) = Len(sendq) - 1
      /\ \A k \in 1..Len(Tail(sendq)) : Tail(sendq)[k] = sendq[k + 1]
      /\ Head(sendq) = sendq[1]
      /\ Len(sendq) \in Nat /\ Len(sendq) > 0
  BY DEF BufferOK
<1>2. \A k \in 1..Len(Tail(sendq)) : k + 1 \in 1..Len(sendq)
  BY <1>1
<1>3. \A k \in 1..Len(sendq) : k = 1 \/ k - 1 \in 1..Len(Tail(sendq))
  BY <1>1
<1>4. \A j, k \in 1..Len(sendq) : sendq[j] = sendq[k] => j = k
  BY DEF BufferOK, SlotsMatchQueue
<1>5. \A j, k \in 1..Len(sendq') : sendq'[j] = sendq'[k] => j = k
  BY <1>1, <1>2, <1>4
<1>6. \A x \in used' : \E k \in 1..Len(sendq') : x = sendq'[k]
  <2> SUFFICES ASSUME NEW x \in used
               PROVE  x = Head(sendq) \/ \E k \in 1..Len(Tail(sendq)) : x = Tail(sendq)[k]
    OBVIOUS
  <2>1. PICK k \in 1..Len(sendq) : x = sendq[k]
    BY DEF BufferOK, SlotsMatchQueue
  <2>2. CASE k = 1
    BY <2>1, <2>2, <1>1
  <2>3. CASE k # 1
    <3>1. k - 1 \in 1..Len(Tail(sendq)) /\ (k - 1) + 1 = k
      BY <2>3, <1>3
    <3> QED
      BY <2>1, <3>1, <1>1
  <2> QED
    BY <2>2, <2>3
<1>7. \A k \in 1..Len(sendq') : sendq'[k] \in used'
  <2> SUFFICES ASSUME NEW k \in 1..Len(Tail(sendq))
               PROVE  Tail(sendq)[k] \in used /\ Tail(sendq)[k] # Head(sendq)
    OBVIOUS
  <2>1. k + 1 \in 1..Len(sendq) /\ 1 \in 1..Len(sendq) /\ k + 1 # 1
    BY <1>1, <1>2
  <2> QED
    BY <2>1, <1>1, <1>4 DEF BufferOK, SlotsMatchQueue
<1>8. used' = {sendq'[k] : k \in 1..Len(sendq')}
  BY <1>6, <1>7
<1> QED
  BY <1>1, <1>5, <1>8 DEF BufferOK, SlotsMatchQueue

(***************************************************************************)
(* The inductive invariant.  None of the properties is inductive alone:    *)
(* the retry count is bounded only because a link that ran out of tries    *)
(* goes through UDP_STATE_INIT, SEND OK finds a pointer to release only    *)
(* because the task sends from a queue that is not empty, and a handshake  *)
(* flag that is set while connecting is the current attempt's.             *)
(***************************************************************************)

\* Where the retry count of the UDP link may stand at its limit.
RetryBound ==
    /\ udp \in {"connect", "connecting", "ready"} => uretry < UdpRetryLimit
    /\ at \in {"request", "send", "refused", "rx", "dropUdp", "dropDtls"} =>
          uretry < UdpRetryLimit
    /\ udp = "close" => \/ uretry < UdpRetryLimit
                        \/ /\ uretry = UdpRetryLimit
                           /\ dtls = "init"
                           /\ at \in {"udp", "close", "app", "dropApp"}
    /\ uretry > UdpRetryLimit => /\ udp = "init"
                                 /\ \/ at = "udp"
                                    \/ at = "dtls" /\ dtls = "init"
    /\ dretry = DtlsRetryLimit => dtls = "init"

\* What the task's position says about the link.
PositionOK ==
    /\ at = "close" => udp = "close"
    /\ at = "request" => udp = "connecting"
    /\ at = "send" => sendq # <<>>

HandshakeCounts ==
    dtls = "connecting" /\ bState => at = "dtls" /\ cli = "connected"

IInv == /\ TypeOK /\ SlotsMatchQueue /\ SendNeedsSession
        /\ RetryBound /\ PositionOK /\ HandshakeCounts

LEMMA InitIInv == Init => IInv
<1> SUFFICES ASSUME Init PROVE IInv
  OBVIOUS
<1> USE CloudAssumption DEF Init
<1>1. /\ uretry \in 0..UdpRetryLimit + 1 /\ dretry \in 0..DtlsRetryLimit
      /\ sid \in -1..MaxSession
  OBVIOUS
<1>2. used \subseteq SendSlot /\ sendq \in Seq(SendSlot)
  OBVIOUS
<1>3. /\ at \in Positions /\ udp \in LinkStates /\ dtls \in LinkStates
      /\ cli \in ClientStates
  BY DEF Positions, LinkStates, ClientStates
<1>4. /\ lastSent \in BOOLEAN /\ bState \in BOOLEAN /\ initialOk \in BOOLEAN
      /\ rx \in BOOLEAN /\ receiving \in BOOLEAN
  OBVIOUS
<1>5. TypeOK
  BY <1>1, <1>2, <1>3, <1>4 DEF TypeOK
<1>6. SlotsMatchQueue
  BY DEF SlotsMatchQueue
<1>7. SendNeedsSession /\ RetryBound /\ PositionOK /\ HandshakeCounts
  BY DEF SendNeedsSession, RetryBound, PositionOK, HandshakeCounts
<1> QED
  BY <1>5, <1>6, <1>7 DEF IInv

\* The buffer's part of the invariant.
LEMMA IInvBuffer == IInv => BufferOK
BY DEF IInv, TypeOK, BufferOK

\* A step that keeps the buffer in order keeps IInv if it keeps the rest.
LEMMA Assemble ==
    ASSUME BufferOK',
           at' \in Positions, udp' \in LinkStates, sid' \in -1..MaxSession,
           uretry' \in 0..UdpRetryLimit + 1, lastSent' \in BOOLEAN,
           dtls' \in LinkStates, bState' \in BOOLEAN, initialOk' \in BOOLEAN,
           dretry' \in 0..DtlsRetryLimit, cli' \in ClientStates,
           rx' \in BOOLEAN, receiving' \in BOOLEAN,
           SendNeedsSession', RetryBound', PositionOK', HandshakeCounts'
    PROVE  IInv'
BY DEF IInv, BufferOK, TypeOK

\* The UDP link's machine.
LEMMA UdpIInv ==
    ASSUME IInv,
           \/ UdpInit \/ UdpConnecting \/ UdpClose \/ UdpReady
           \/ \E c \in BOOLEAN : UdpConnect(c)
           \/ \E i \in -1..MaxSession : RequestReturned(i)
           \/ CloseReturned \/ SendFailed \/ RecheckSession
    PROVE  IInv'
<1> USE CloudAssumption DEF IInv, udpVars, dtlsVars, sendVars
<1>1. BufferOK'
  BY IInvBuffer DEF BufferOK, SlotsMatchQueue, UdpInit, UdpConnecting, UdpClose,
     UdpReady, UdpConnect, RequestReturned, CloseReturned, SendFailed,
         RecheckSession, Blocks
<1> USE DEF TypeOK, Positions, LinkStates, ClientStates, SendNeedsSession,
            RetryBound, PositionOK, HandshakeCounts
<1>2. CASE UdpInit
  <2>1. uretry' \in 0..UdpRetryLimit + 1 /\ sid' \in -1..MaxSession
    BY <1>2 DEF UdpInit
  <2>2. RetryBound'
    BY <1>2 DEF UdpInit
  <2>3. SendNeedsSession' /\ PositionOK' /\ HandshakeCounts'
    BY <1>2 DEF UdpInit
  <2>4. /\ at' \in Positions /\ udp' \in LinkStates /\ lastSent' \in BOOLEAN
        /\ UNCHANGED <<dtlsVars, cli, rx, receiving>>
    BY <1>2 DEF UdpInit
  <2> QED
    BY <1>1, <2>1, <2>2, <2>3, <2>4, Assemble
<1>3. CASE UdpConnecting \/ UdpClose \/ UdpReady
  BY <1>1, <1>3, Assemble DEF UdpConnecting, UdpClose, UdpReady, Blocks
<1>4. ASSUME NEW c \in BOOLEAN, UdpConnect(c)
      PROVE  IInv'
  BY <1>1, <1>4, Assemble DEF UdpConnect
<1>5. ASSUME NEW i \in -1..MaxSession, RequestReturned(i)
      PROVE  IInv'
  BY <1>1, <1>5, Assemble DEF RequestReturned
<1>6. CASE CloseReturned
  BY <1>1, <1>6, Assemble DEF CloseReturned
<1>7. CASE SendFailed
  BY <1>1, <1>7, Assemble DEF SendFailed, Blocks
<1>8. CASE RecheckSession
  BY <1>1, <1>8, Assemble DEF RecheckSession
<1> QED
  BY <1>2, <1>3, <1>4, <1>5, <1>6, <1>7, <1>8

LEMMA SendOkIInv == IInv /\ SendOk => IInv'
<1> SUFFICES ASSUME IInv, SendOk PROVE IInv'
  OBVIOUS
<1>1. BufferOK'
  BY IInvBuffer, PopKeepsBuffer DEF IInv, PositionOK, SendOk
<1> QED
  BY <1>1, Assemble, CloudAssumption
     DEF IInv, SendOk, TypeOK, Positions, LinkStates, ClientStates,
         SendNeedsSession, RetryBound, PositionOK, HandshakeCounts, dtlsVars

\* disconnect(), in both of its parts.
LEMMA ReconnectIInv ==
    ASSUME IInv, RefreshSession \/ AppReconnects \/ ReconnectReturns
    PROVE  IInv'
<1> USE CloudAssumption DEF IInv
<1>1. BufferOK'
  <2>1. CASE RefreshSession \/ AppReconnects
    BY <2>1, IInvBuffer, SendKeepsBuffer
       DEF RefreshSession, AppReconnects, StartReconnect, CloseClient,
           BufferOK, SlotsMatchQueue
  <2>2. CASE ReconnectReturns
    BY <2>2 DEF ReconnectReturns, BufferOK, SlotsMatchQueue
  <2> QED
    BY <2>1, <2>2
<1>2. cli' \in ClientStates
  BY DEF RefreshSession, AppReconnects, ReconnectReturns, StartReconnect,
         CloseClient, TypeOK, ClientStates
<1> USE DEF TypeOK, Positions, LinkStates, SendNeedsSession, RetryBound,
            PositionOK, HandshakeCounts, udpVars, dtlsVars
<1>3. CASE RefreshSession
  BY <1>1, <1>2, <1>3, Assemble DEF RefreshSession, StartReconnect
<1>4. CASE AppReconnects
  BY <1>1, <1>2, <1>4, Assemble DEF AppReconnects, StartReconnect
<1>5. CASE ReconnectReturns
  BY <1>1, <1>2, <1>5, Assemble DEF ReconnectReturns
<1> QED
  BY <1>3, <1>4, <1>5

\* Every outcome of receiving leads to the DTLS part of the cycle.
LEMMA ReceiveIInv == IInv /\ Receive => IInv'
<1> SUFFICES ASSUME IInv, Receive PROVE IInv'
  OBVIOUS
<1> USE CloudAssumption DEF IInv
<1>1. BufferOK'
  BY IInvBuffer, SendKeepsBuffer
     DEF Receive, NothingReceived, ReceiveOther, ReceiveFlight, ReceiveConnected,
         ReceiveError, ReceiveAlert, CloseClient, Blocks, sendVars, BufferOK,
         SlotsMatchQueue
<1> USE DEF TypeOK, Positions, LinkStates, ClientStates, SendNeedsSession,
            RetryBound, PositionOK, HandshakeCounts, udpVars, dtlsVars, sendVars
<1>2. CASE NothingReceived
  BY <1>1, <1>2, Assemble DEF NothingReceived, Blocks
<1>3. CASE ReceiveOther
  <2>1. UNCHANGED <<udp, sid, uretry, lastSent, dtls, initialOk, dretry>>
    BY <1>3 DEF ReceiveOther, Handled
  <2>2. SendNeedsSession' /\ RetryBound' /\ PositionOK'
    BY <1>3 DEF ReceiveOther, Handled
  <2>3. HandshakeCounts'
    BY <1>3 DEF ReceiveOther, Handled
  <2>4. at' \in Positions /\ bState' \in BOOLEAN /\ cli' \in ClientStates
    BY <1>3 DEF ReceiveOther, Handled
  <2>5. rx' \in BOOLEAN /\ receiving' \in BOOLEAN
    BY <1>3 DEF ReceiveOther, Handled
  <2> QED
    BY <1>1, <2>1, <2>2, <2>3, <2>4, <2>5, Assemble
<1>7. CASE ReceiveFlight
  BY <1>1, <1>7, Assemble DEF ReceiveFlight, Handled
<1>4. CASE ReceiveConnected
  BY <1>1, <1>4, Assemble DEF ReceiveConnected, Handled
<1>5. CASE ReceiveError
  BY <1>1, <1>5, Assemble DEF ReceiveError, CloseClient, Handled
<1>6. CASE ReceiveAlert
  BY <1>1, <1>6, Assemble DEF ReceiveAlert, Handled
<1> QED
  BY <1>2, <1>3, <1>4, <1>5, <1>6, <1>7 DEF Receive

\* The DTLS machine.
LEMMA ProcessDtlsIInv == IInv /\ ProcessDtls => IInv'
<1> SUFFICES ASSUME IInv, ProcessDtls PROVE IInv'
  OBVIOUS
<1> USE CloudAssumption DEF IInv
<1>1. BufferOK'
  BY IInvBuffer, SendKeepsBuffer
     DEF ProcessDtls, DtlsInit, DtlsWaits, DtlsConnect, DtlsConnectFails,
         DtlsConnecting, DtlsTimeout, DtlsClose, CloseClient, sendVars, BufferOK,
         SlotsMatchQueue
<1> USE DEF TypeOK, Positions, LinkStates, ClientStates, SendNeedsSession,
            RetryBound, PositionOK, HandshakeCounts, udpVars, dtlsVars, sendVars,
            CycleEnds
<1>2. CASE DtlsInit
  <2>1. 0 \in 0..DtlsRetryLimit
    OBVIOUS
  <2> QED
    BY <1>1, <1>2, <2>1, Assemble DEF DtlsInit
<1>3. CASE DtlsWaits
  BY <1>1, <1>3, Assemble DEF DtlsWaits
<1>4. CASE DtlsConnect
  BY <1>1, <1>4, Assemble DEF DtlsConnect
<1>5. CASE DtlsConnectFails
  BY <1>1, <1>5, Assemble DEF DtlsConnectFails
<1>6. CASE DtlsConnecting
  BY <1>1, <1>6, Assemble DEF DtlsConnecting
<1>7. CASE DtlsTimeout
  BY <1>1, <1>7, Assemble DEF DtlsTimeout
<1>8. CASE DtlsClose
  BY <1>1, <1>8, Assemble DEF DtlsClose, CloseClient
<1> QED
  BY <1>2, <1>3, <1>4, <1>5, <1>6, <1>7, <1>8 DEF ProcessDtls

\* The cloud services and the modem task's callback.
LEMMA OthersIInv ==
    ASSUME IInv,
           \/ AppIdle \/ AppSends
           \/ ReceiveStarts \/ ReceiveStores \/ ReceiveGivesUp
           \/ UNCHANGED cloudVars
    PROVE  IInv'
<1> USE CloudAssumption DEF IInv
<1>1. BufferOK'
  BY IInvBuffer, SendKeepsBuffer
     DEF AppIdle, AppSends, ReceiveStarts, ReceiveStores, ReceiveGivesUp,
         cloudVars, Blocks, sendVars, BufferOK, SlotsMatchQueue
<1> USE DEF TypeOK, Positions, LinkStates, ClientStates, SendNeedsSession,
            RetryBound, PositionOK, HandshakeCounts, udpVars, dtlsVars, sendVars
<1>2. CASE AppIdle
  BY <1>1, <1>2, Assemble DEF AppIdle, Blocks
<1>3. CASE AppSends
  BY <1>1, <1>3, Assemble DEF AppSends
<1>4. CASE ReceiveStarts
  BY <1>1, <1>4, Assemble DEF ReceiveStarts
<1>6. CASE ReceiveStores
  <2>1. UNCHANGED <<udp, sid, uretry, lastSent, dtls, initialOk, dretry>>
    BY <1>6 DEF ReceiveStores
  <2>2. SendNeedsSession' /\ RetryBound' /\ PositionOK'
    BY <1>6 DEF ReceiveStores
  <2>3. HandshakeCounts'
    BY <1>6 DEF ReceiveStores
  <2>4. at' \in Positions /\ bState' \in BOOLEAN /\ cli' \in ClientStates
    BY <1>6 DEF ReceiveStores
  <2>5. rx' \in BOOLEAN /\ receiving' \in BOOLEAN
    BY <1>6 DEF ReceiveStores
  <2> QED
    BY <1>1, <2>1, <2>2, <2>3, <2>4, <2>5, Assemble
<1>7. CASE ReceiveGivesUp
  <2>1. UNCHANGED <<udp, sid, uretry, lastSent, dtls, initialOk, dretry>>
    BY <1>7 DEF ReceiveGivesUp
  <2>2. SendNeedsSession' /\ RetryBound' /\ PositionOK'
    BY <1>7 DEF ReceiveGivesUp
  <2>3. HandshakeCounts'
    BY <1>7 DEF ReceiveGivesUp
  <2>4. at' \in Positions /\ bState' \in BOOLEAN /\ cli' \in ClientStates
    BY <1>7 DEF ReceiveGivesUp
  <2>5. rx' \in BOOLEAN /\ receiving' \in BOOLEAN
    BY <1>7 DEF ReceiveGivesUp
  <2> QED
    BY <1>1, <2>1, <2>2, <2>3, <2>4, <2>5, Assemble
<1>5. CASE UNCHANGED cloudVars
  BY <1>1, <1>5, Assemble DEF cloudVars
<1> QED
  BY <1>2, <1>3, <1>4, <1>5, <1>6, <1>7

(***************************************************************************)
(* The theorems                                                            *)
(***************************************************************************)

THEOREM SpecIInv == Spec => []IInv
<1>1. IInv /\ [Next]_cloudVars => IInv'
  BY UdpIInv, SendOkIInv, ReconnectIInv, ReceiveIInv, ProcessDtlsIInv, OthersIInv
     DEF Next, LocalStep, CallReturn
<1> QED
  BY <1>1, InitIInv, PTL DEF Spec

\* Type correctness; the retry counts stay within one step of their limits.
THEOREM SpecTypeOK == Spec => []TypeOK
<1>1. IInv => TypeOK
  BY DEF IInv
<1> QED
  BY <1>1, SpecIInv, PTL

\* No payload of the send buffer is lost, sent twice or overwritten while its
\* pointer is queued, for every size of the buffer.
THEOREM SpecSlotsMatchQueue == Spec => []SlotsMatchQueue
<1>1. IInv => SlotsMatchQueue
  BY DEF IInv
<1> QED
  BY <1>1, SpecIInv, PTL

\* The task sends only on a session it holds.
THEOREM SpecSendNeedsSession == Spec => []SendNeedsSession
<1>1. IInv => SendNeedsSession
  BY DEF IInv
<1> QED
  BY <1>1, SpecIInv, PTL

\* The link is declared ready on the handshake of the current attempt only.
THEOREM SpecReadyNeedsHandshake == Spec => ReadyNeedsHandshake
<1>1. IInv /\ [Next]_cloudVars =>
        [dtls = "connecting" /\ dtls' = "ready" => cli = "connected"]_cloudVars
  <2> SUFFICES ASSUME IInv, Next, dtls = "connecting", dtls' = "ready"
               PROVE  cli = "connected"
    OBVIOUS
  <2>1. bState
    BY DEF Next, LocalStep, CallReturn, UdpInit, UdpConnecting, UdpClose,
           UdpReady, UdpConnect, RequestReturned, CloseReturned, SendOk,
           SendFailed, RecheckSession, RefreshSession, ReconnectReturns,
           StartReconnect,
           Receive, NothingReceived, ReceiveOther, ReceiveFlight,
           ReceiveConnected, ReceiveError, ReceiveAlert, ProcessDtls, DtlsInit,
           DtlsWaits, DtlsConnect, DtlsConnectFails, DtlsConnecting,
           DtlsTimeout, DtlsClose, AppIdle, AppSends, AppReconnects,
           ReceiveStarts, ReceiveStores, ReceiveGivesUp, Blocks, dtlsVars
  <2> QED
    BY <2>1 DEF IInv, HandshakeCounts
<1> QED
  BY <1>1, SpecIInv, PTL DEF Spec, ReadyNeedsHandshake
=============================================================================
