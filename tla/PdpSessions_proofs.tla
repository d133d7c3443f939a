------------------------- MODULE PdpSessions_proofs -------------------------
(***************************************************************************)
(* Proofs about PdpSessions, for every table size, every set of addresses  *)
(* and every bound on the modem's buffer: first with its most general      *)
(* client, then (CloudLink) with the cloud task as its client.             *)
(***************************************************************************)
EXTENDS CloudLink, FiniteSetTheorems, WellFoundedInduction, TLAPS

(***************************************************************************)
(* Operators of the model                                                  *)
(***************************************************************************)

\* The search loops of the code stop at an entry of the set they look for.
LEMMA FirstIsMember ==
    ASSUME NEW S \in SUBSET Slots, S # {}
    PROVE  First(S) \in S
<1>1. S \subseteq Nat
  BY DEF Slots
<1>2. PICK s \in S : \A t \in S : ~(<<t, s>> \in OpToRel(<, Nat))
  BY <1>1, WFMin, NatLessThanWellFounded
<1>3. ASSUME NEW t \in S
      PROVE  ~(t < s)
  <2>1. t \in Nat /\ s \in Nat
    BY <1>1
  <2> QED
    BY <1>2, <2>1, Zenon DEF OpToRel
<1>4. \A t \in S : s <= t
  BY <1>1, <1>3
<1> QED
  BY <1>4 DEF First

\* A search by id finds an entry with that id.
LEMMA WithIdFinds ==
    ASSUME NEW i, WithId(i) # {}
    PROVE  /\ First(WithId(i)) \in Slots
           /\ sessions[First(WithId(i))].id = i
BY FirstIsMember DEF WithId

\* The queue of pointers never holds more than its capacity.
LEMMA QueuedType ==
    ASSUME NEW s \in Slots, TypeOK
    PROVE  Queued(s) \in Seq(Slots) /\ Len(Queued(s)) <= MaxSessions
BY ConstantsAssumption DEF Queued, QueueFull, TypeOK

\* Popping keeps the queue well typed.
LEMMA PopType ==
    ASSUME TypeOK, queue # <<>>
    PROVE  /\ Current \in Slots
           /\ Tail(queue) \in Seq(Slots)
           /\ Len(Tail(queue)) <= MaxSessions
BY ConstantsAssumption DEF TypeOK, Current

\* Ids wrap within the table size.
LEMMA NextIdType ==
    ASSUME TypeOK
    PROVE  NextId \in Ids
BY ConstantsAssumption DEF NextId, TypeOK, Ids

\* Every write to one entry: if the entry is a session afterwards, the table
\* keeps its type and its vacant entries stay clean.
LEMMA EntryUpdate ==
    ASSUME TypeOK, VacantIsClean, NEW s \in Slots, NEW e \in Session, e.id > 0,
           sessions' = [sessions EXCEPT ![s] = e]
    PROVE  sessions' \in [Slots -> Session] /\ VacantIsClean'
<1>1. sessions' \in [Slots -> Session]
  BY DEF TypeOK
<1>2. ASSUME NEW t \in Slots
      PROVE  sessions'[t].id = 0 <=> sessions'[t] = EmptySession
  <2>1. CASE t = s
    <3>1. e # EmptySession
      BY DEF EmptySession
    <3> QED
      BY <2>1, <3>1, <1>1 DEF TypeOK, Session
  <2>2. CASE t # s
    BY <2>2 DEF TypeOK, VacantIsClean
  <2> QED
    BY <2>1, <2>2
<1> QED
  BY <1>1, <1>2 DEF VacantIsClean

\* A request of the client that only returns changes nothing but its own state.
LEMMA ReturnType ==
    ASSUME TypeOK, UNCHANGED <<tableVars, mpc, cur, modemVars, hasData, pdpError>>,
           NEW i \in -1..MaxSessions, RequestReturns(i)
    PROVE  TypeOK'
BY ConstantsAssumption DEF TypeOK, Calls, RequestReturns, tableVars, modemVars

(***************************************************************************)
(* The inductive invariant.  TypeOK alone is not inductive: retrieving a   *)
(* datagram decrements the counter of the served entry's socket, which     *)
(* only exists because a served entry keeps a session id.                  *)
(***************************************************************************)
IInv == TypeOK /\ VacantIsClean /\ ServedEntryStays

LEMMA InitIInv == Init => IInv
<1> SUFFICES ASSUME Init PROVE IInv
  OBVIOUS
<1>1. EmptySession \in Session
  BY ConstantsAssumption DEF EmptySession, Session, Requests
<1>2. TypeOK
  <2>1. sessions \in [Slots -> Session]
    BY <1>1 DEF Init, EmptyTable
  <2>2. /\ socket \in [Ids -> Addrs \cup {NoAddr}]
        /\ buffered \in [Ids -> 0..MaxBuffered]
    BY ConstantsAssumption DEF Init, AllClosed, NoneBuffered
  <2>3. queue \in Seq(Slots) /\ Len(queue) <= MaxSessions
    BY ConstantsAssumption DEF Init
  <2>4. /\ count \in 0..MaxSessions /\ cur \in 0..MaxSessions
        /\ sid \in -1..MaxSessions
    BY ConstantsAssumption DEF Init
  <2> QED
    BY <2>1, <2>2, <2>3, <2>4 DEF Init, TypeOK, ModemSteps, Calls
<1>3. VacantIsClean
  BY DEF Init, VacantIsClean, EmptyTable, EmptySession
<1>4. ServedEntryStays
  BY DEF Init, ServedEntryStays
<1> QED
  BY <1>2, <1>3, <1>4 DEF IInv

\* No call that merely starts touches what the modem task works on.
LEMMA ClientStartIInv == IInv /\ ClientStart => IInv'
<1> SUFFICES ASSUME IInv, ClientStart PROVE IInv'
  OBVIOUS
<1> USE DEF IInv, ClientStart, StartRequest, StartClose, StartSend, ForgetSession,
            tableVars, modemVars
<1>1. TypeOK'
  BY ConstantsAssumption DEF TypeOK, Calls
<1>2. VacantIsClean'
  BY DEF VacantIsClean
<1>3. ServedEntryStays'
  BY DEF ServedEntryStays, Current
<1> QED
  BY <1>1, <1>2, <1>3

\* A call of the client changes the table only while the modem task does not
\* hold it.
LEMMA ClientCallIInv == IInv /\ ClientCall => IInv'
<1> SUFFICES ASSUME IInv, ClientCall PROVE IInv'
  OBVIOUS
<1> USE DEF IInv, ClientCall, modemVars
<1>1. CASE RequestSession
  <2> USE <1>1 DEF RequestSession, RequestReturns
  <2>1. CASE UNCHANGED tableVars
    <3>1. TypeOK'
      BY <2>1, ConstantsAssumption DEF TypeOK, Calls, tableVars
    <3>2. VacantIsClean'
      BY <2>1 DEF VacantIsClean, tableVars
    <3>3. ServedEntryStays'
      BY <2>1 DEF ServedEntryStays, Current, tableVars
    <3> QED
      BY <3>1, <3>2, <3>3
  <2>2. CASE ~UNCHANGED tableVars
    <3> DEFINE s == First(Candidates(cfg))
    <3>1. Candidates(cfg) # {} /\ ClaimSession(s)
      BY <2>2
    <3>2. s \in Slots
      BY <3>1, FirstIsMember DEF Candidates
    <3> DEFINE e == [id |-> NextId, addr |-> cfg, req |-> "CREATE",
                     send |-> sessions[s].send, inc |-> sessions[s].inc]
    <3>3. /\ sessions' = [sessions EXCEPT ![s] = e]
          /\ count' = NextId
          /\ queue' = Queued(s)
      BY <2>2, <3>1 DEF ClaimSession
    <3>4. NextId \in Ids /\ Queued(s) \in Seq(Slots)
             /\ Len(Queued(s)) <= MaxSessions
      BY <3>2, NextIdType, QueuedType
    <3> HIDE DEF s
    <3>5. sessions[s] \in Session
      BY <3>2 DEF TypeOK
    <3>6. e \in Session /\ e.id > 0
      BY <3>4, <3>5 DEF Session, Requests, Ids, TypeOK
    <3> HIDE DEF e
    <3>7. sessions' \in [Slots -> Session] /\ VacantIsClean'
      BY <3>2, <3>3, <3>6, EntryUpdate
    <3>8. count' \in 0..MaxSessions
      BY <3>3, <3>4, ConstantsAssumption DEF Ids
    <3>9. TypeOK'
      BY <3>3, <3>4, <3>7, <3>8, ConstantsAssumption DEF TypeOK, Calls
    <3>10. ServedEntryStays'
      BY DEF ServedEntryStays, SessionsLocked
    <3> QED
      BY <3>7, <3>9, <3>10
  <2> QED
    BY <2>1, <2>2
<1>2. CASE WaitCreatedSession
  <2> USE <1>2 DEF WaitCreatedSession, RequestReturns, tableVars
  <2> DEFINE i == IF PortMatches = {} THEN -1 ELSE sessions[First(PortMatches)].id
  <2>1. i \in -1..MaxSessions
    <3>1. CASE PortMatches = {}
      BY <3>1, ConstantsAssumption
    <3>2. CASE PortMatches # {}
      <4>1. First(PortMatches) \in Slots
        BY <3>2, FirstIsMember DEF PortMatches
      <4>2. sessions[First(PortMatches)].id \in 0..MaxSessions
        BY <4>1 DEF TypeOK, Session
      <4> QED
        BY <3>2, <4>2, ConstantsAssumption
    <3> QED
      BY <3>1, <3>2
  <2>2. TypeOK'
    BY <2>1, ReturnType
  <2>3. VacantIsClean'
    BY DEF VacantIsClean
  <2>4. ServedEntryStays'
    BY DEF ServedEntryStays, SessionsLocked
  <2> QED
    BY <2>2, <2>3, <2>4
<1>3. CASE WaitTimeout \/ LockTimeout
  <2> USE <1>3 DEF WaitTimeout, LockTimeout, RequestReturns, tableVars
  <2>1. TypeOK'
    <3>1. CASE RequestReturns(-1)
      BY <3>1, ReturnType, ConstantsAssumption
    <3>2. CASE ~RequestReturns(-1)
      BY <3>2 DEF TypeOK, Calls
    <3> QED
      BY <3>1, <3>2
  <2>2. VacantIsClean'
    BY DEF VacantIsClean
  <2>3. ServedEntryStays'
    BY DEF ServedEntryStays, Current
  <2> QED
    BY <2>1, <2>2, <2>3
<1>4. CASE CloseSession
  <2> USE <1>4 DEF CloseSession
  <2>1. CASE WithId(sid) = {}
    <3>1. TypeOK'
      BY <2>1, ConstantsAssumption DEF TypeOK, Calls, tableVars
    <3>2. VacantIsClean'
      BY <2>1 DEF VacantIsClean, tableVars
    <3>3. ServedEntryStays'
      BY <2>1 DEF ServedEntryStays, Current, tableVars
    <3> QED
      BY <3>1, <3>2, <3>3
  <2>2. CASE WithId(sid) # {}
    <3> DEFINE s == First(WithId(sid))
    <3>1. s \in Slots /\ sessions[s].id = sid /\ sid > 0
      BY <2>2, WithIdFinds DEF TypeOK
    <3>2. /\ sessions' = [sessions EXCEPT ![s].req = "CLOSE"]
          /\ queue' = Queued(s)
          /\ UNCHANGED count
      BY <2>2
    <3>3. Queued(s) \in Seq(Slots) /\ Len(Queued(s)) <= MaxSessions
      BY <3>1, QueuedType
    <3> HIDE DEF s
    <3> DEFINE e == [sessions[s] EXCEPT !.req = "CLOSE"]
    <3>4. e \in Session /\ e.id > 0 /\ sessions' = [sessions EXCEPT ![s] = e]
      <4>1. sessions[s] \in Session
        BY <3>1 DEF TypeOK
      <4>2. e \in Session
        BY <4>1 DEF Session, Requests
      <4>3. e.id = sid
        BY <3>1, <4>1 DEF Session
      <4>4. sessions' = [sessions EXCEPT ![s] = e]
        BY <3>1, <3>2
      <4> QED
        BY <3>1, <4>2, <4>3, <4>4
    <3> HIDE DEF e
    <3>5. sessions' \in [Slots -> Session] /\ VacantIsClean'
      BY <3>1, <3>4, EntryUpdate
    <3>6. TypeOK'
      BY <3>2, <3>3, <3>5, ConstantsAssumption DEF TypeOK, Calls
    <3>7. ServedEntryStays'
      BY DEF ServedEntryStays, SessionsLocked
    <3> QED
      BY <3>5, <3>6, <3>7
  <2> QED
    BY <2>1, <2>2
<1>5. CASE SendData
  <2> USE <1>5 DEF SendData
  <2>1. CASE ~CanSend
    <3>1. TypeOK'
      BY <2>1, ConstantsAssumption DEF TypeOK, Calls
    <3>2. VacantIsClean'
      BY <2>1 DEF VacantIsClean
    <3>3. ServedEntryStays'
      BY DEF ServedEntryStays, SessionsLocked
    <3> QED
      BY <3>1, <3>2, <3>3
  <2>2. CASE CanSend
    <3> DEFINE s == First(WithId(sid))
    <3>1. s \in Slots /\ sessions[s].id = sid /\ sid > 0
      BY <2>2, WithIdFinds DEF TypeOK, CanSend
    <3>2. sessions' = [sessions EXCEPT ![s].send = TRUE]
      BY <2>2
    <3> HIDE DEF s
    <3> DEFINE e == [sessions[s] EXCEPT !.send = TRUE]
    <3>4. e \in Session /\ e.id > 0 /\ sessions' = [sessions EXCEPT ![s] = e]
      <4>1. sessions[s] \in Session
        BY <3>1 DEF TypeOK
      <4>2. e \in Session
        BY <4>1 DEF Session
      <4>3. e.id = sid
        BY <3>1, <4>1 DEF Session
      <4>4. sessions' = [sessions EXCEPT ![s] = e]
        BY <3>1, <3>2
      <4> QED
        BY <3>1, <4>2, <4>3, <4>4
    <3> HIDE DEF e
    <3>5. sessions' \in [Slots -> Session] /\ VacantIsClean'
      BY <3>1, <3>4, EntryUpdate
    <3>6. TypeOK'
      BY <3>5, ConstantsAssumption DEF TypeOK, Calls
    <3>7. ServedEntryStays'
      BY DEF ServedEntryStays, SessionsLocked
    <3> QED
      BY <3>5, <3>6, <3>7
  <2> QED
    BY <2>1, <2>2
<1> QED
  BY <1>1, <1>2, <1>3, <1>4, <1>5

\* A create request is answered while the modem task holds the table.
LEMMA AdoptSocketIInv ==
    ASSUME IInv, queue # <<>>, sessions[Current].id > 0, mpc' = "send", NEW sock,
           AdoptSocket(sock),
           UNCHANGED <<cur, clientVars, buffered, ctxUp, hasData>>,
           socket' \in [Ids -> Addrs \cup {NoAddr}], pdpError' \in BOOLEAN
    PROVE  IInv'
<1> USE DEF IInv
<1>1. PICK i \in Ids :
         /\ sessions' = [sessions EXCEPT ![Current].id = i,
                                         ![Current].req = "NONE"]
         /\ queue' = Tail(queue)
         /\ UNCHANGED count
  BY DEF AdoptSocket
<1>2. /\ Current \in Slots
      /\ Tail(queue) \in Seq(Slots)
      /\ Len(Tail(queue)) <= MaxSessions
  BY PopType
<1> DEFINE m == [sessions[Current] EXCEPT !.id = i]
           e == [m EXCEPT !.req = "NONE"]
<1>3. sessions[Current] \in Session
  BY <1>2 DEF TypeOK
<1>4. m \in Session /\ m.id > 0
  BY <1>3 DEF Session, Ids
<1>5. sessions' = [sessions EXCEPT ![Current] = e]
  BY <1>1, <1>2 DEF TypeOK
<1> HIDE DEF m
<1>6. e \in Session /\ e.id > 0
  BY <1>4 DEF Session, Requests
<1> HIDE DEF e
<1>7. sessions' \in [Slots -> Session] /\ VacantIsClean'
  BY <1>2, <1>5, <1>6, EntryUpdate
<1>8. TypeOK'
  BY <1>1, <1>2, <1>7 DEF TypeOK, ModemSteps, clientVars
<1>9. ServedEntryStays'
  BY DEF ServedEntryStays
<1> QED
  BY <1>7, <1>8, <1>9

\* Steps of the modem task that leave the table alone, and do not go to a
\* state that has an entry in hand.
LEMMA TableUntouched ==
    ASSUME IInv, UNCHANGED <<tableVars, clientVars>>, mpc' \in {"send", "incoming", "idle"},
           cur' = cur, pdpError' \in BOOLEAN,
           socket' \in [Ids -> Addrs \cup {NoAddr}],
           buffered' \in [Ids -> 0..MaxBuffered],
           ctxUp' \in BOOLEAN, hasData' \in BOOLEAN
    PROVE  IInv'
<1>1. TypeOK'
  BY DEF IInv, TypeOK, ModemSteps, tableVars, clientVars
<1>2. VacantIsClean'
  BY DEF IInv, VacantIsClean, tableVars
<1>3. ServedEntryStays'
  BY DEF ServedEntryStays
<1> QED
  BY <1>1, <1>2, <1>3 DEF IInv

LEMMA ProcessSessionsIInv == IInv /\ ProcessSessions => IInv'
<1> SUFFICES ASSUME IInv, ProcessSessions PROVE IInv'
  OBVIOUS
<1> USE DEF IInv
<1> DEFINE id == sessions[Current].id
           opened == OpenedBy(id, sessions[Current].addr)
<1>1. mpc = "create" => /\ queue # <<>> /\ sessions[Current].id > 0
                        /\ Current \in Slots
                        /\ opened \in [Ids -> Addrs \cup {NoAddr}]
  <2> SUFFICES ASSUME mpc = "create"
               PROVE  /\ queue # <<>> /\ sessions[Current].id > 0
                      /\ Current \in Slots
                      /\ opened \in [Ids -> Addrs \cup {NoAddr}]
    OBVIOUS
  <2>1. queue # <<>> /\ sessions[Current].id > 0
    BY DEF ServedEntryStays
  <2>2. Current \in Slots
    BY <2>1, PopType
  <2>3. sessions[Current].addr \in Addrs \cup {NoAddr}
    BY <2>2 DEF TypeOK, Session
  <2>4. opened \in [Ids -> Addrs \cup {NoAddr}]
    BY <2>3 DEF TypeOK, OpenedBy
  <2> QED
    BY <2>1, <2>2, <2>4
<1> HIDE DEF id, opened
<1>2. CASE PeekRequest
  <2> USE <1>2 DEF PeekRequest, tableVars, clientVars, modemVars
  <2>1. TypeOK'
    BY DEF TypeOK, ModemSteps
  <2>2. VacantIsClean'
    BY DEF VacantIsClean
  <2>3. ServedEntryStays'
    <3>1. queue # <<>> => Current \in Slots
      BY PopType
    <3>2. queue # <<>> /\ sessions[Current].req = "CREATE" => sessions[Current].id > 0
      BY <3>1 DEF VacantIsClean, EmptySession, TypeOK, Session
    <3> QED
      BY <3>2 DEF ServedEntryStays, Current
  <2> QED
    BY <2>1, <2>2, <2>3
<1>3. CASE CreateExisting
  BY <1>1, <1>3, AdoptSocketIInv
     DEF CreateExisting, clientVars, modemVars, TypeOK
<1>4. CASE CreateOpened
  <2>1. socket' \in [Ids -> Addrs \cup {NoAddr}]
    BY <1>1, <1>4 DEF CreateOpened, opened, id
  <2>2. CASE AdoptSocket(socket')
    BY <1>1, <1>4, <2>1, <2>2, AdoptSocketIInv DEF CreateOpened
  <2>3. CASE UNCHANGED tableVars
    BY <1>4, <2>1, <2>3, TableUntouched DEF CreateOpened, TypeOK
  <2> QED
    BY <1>4, <2>2, <2>3 DEF CreateOpened
<1>5. CASE CreateRefused
  <2>1. CASE AdoptSocket(socket)
    BY <1>1, <1>5, <2>1, AdoptSocketIInv
       DEF CreateRefused, clientVars, modemVars, TypeOK
  <2>2. CASE UNCHANGED tableVars
    BY <1>5, <2>2, TableUntouched DEF CreateRefused, modemVars, TypeOK
  <2> QED
    BY <1>5, <2>1, <2>2 DEF CreateRefused
<1>6. CASE CreateNoResponse
  <2>1. socket' \in [Ids -> Addrs \cup {NoAddr}]
    BY <1>1, <1>6 DEF CreateNoResponse, opened, id, TypeOK
  <2> QED
    BY <1>6, <2>1, TableUntouched DEF CreateNoResponse, TypeOK
<1>7. CASE CreatePurge
  <2>1. /\ sessions' = EmptyTable /\ queue' = <<>> /\ mpc' = "send"
        /\ pdpError' \in BOOLEAN /\ ctxUp' \in BOOLEAN
        /\ UNCHANGED <<count, cur, clientVars, hasData>>
    BY <1>7 DEF CreatePurge, TypeOK
  <2>2. /\ socket' \in [Ids -> Addrs \cup {NoAddr}]
        /\ buffered' \in [Ids -> 0..MaxBuffered]
    BY <1>7, ConstantsAssumption
       DEF CreatePurge, TypeOK, AllSocketsClose, AllClosed, NoneBuffered
  <2>3. EmptySession \in Session /\ EmptySession.id = 0
    BY ConstantsAssumption DEF EmptySession, Session, Requests
  <2>4. sessions' \in [Slots -> Session] /\ VacantIsClean'
    BY <2>1, <2>3 DEF EmptyTable, VacantIsClean
  <2>5. queue' \in Seq(Slots) /\ Len(queue') <= MaxSessions
    BY <2>1, ConstantsAssumption
  <2>6. TypeOK'
    BY <2>1, <2>2, <2>4, <2>5 DEF TypeOK, ModemSteps, clientVars
  <2>7. ServedEntryStays'
    BY <2>1 DEF ServedEntryStays
  <2> QED
    BY <2>4, <2>6, <2>7
<1>8. CASE StopSession
  <2>1. /\ sessions' = [sessions EXCEPT ![Current] = EmptySession]
        /\ queue' = Tail(queue) /\ mpc' = "send"
        /\ UNCHANGED <<count, cur, clientVars, ctxUp, hasData, pdpError>>
    BY <1>8 DEF StopSession
  <2>2. /\ Current \in Slots
        /\ Tail(queue) \in Seq(Slots)
        /\ Len(Tail(queue)) <= MaxSessions
    BY <1>8, PopType DEF StopSession, ServedEntryStays
  <2>3. /\ socket' \in [Ids -> Addrs \cup {NoAddr}]
        /\ buffered' \in [Ids -> 0..MaxBuffered]
    <3>1. CASE UNCHANGED <<socket, buffered>>
      BY <3>1 DEF TypeOK
    <3>2. CASE ~UNCHANGED <<socket, buffered>>
      <4>1. PICK i : socket' = [socket EXCEPT ![i] = NoAddr]
                     /\ buffered' = [buffered EXCEPT ![i] = 0]
        BY <1>8, <3>2 DEF StopSession, OpenedBy
      <4>2. socket' \in [Ids -> Addrs \cup {NoAddr}]
        BY <4>1 DEF TypeOK
      <4>3. buffered' \in [Ids -> 0..MaxBuffered]
        <5>1. 0 \in 0..MaxBuffered
          BY ConstantsAssumption
        <5> QED
          BY <4>1, <5>1 DEF TypeOK
      <4> QED
        BY <4>2, <4>3
    <3> QED
      BY <3>1, <3>2
  <2>4. EmptySession \in Session /\ EmptySession.id = 0
    BY ConstantsAssumption DEF EmptySession, Session, Requests
  <2>5. sessions' \in [Slots -> Session]
    BY <2>1, <2>4 DEF TypeOK
  <2>6. VacantIsClean'
    BY <2>1, <2>2, <2>4 DEF VacantIsClean, TypeOK
  <2>7. TypeOK'
    BY <2>1, <2>2, <2>3, <2>5 DEF TypeOK, ModemSteps, clientVars
  <2>8. ServedEntryStays'
    BY <2>1 DEF ServedEntryStays
  <2> QED
    BY <2>6, <2>7, <2>8
<1>9. CASE ProcessSendData
  <2>1. /\ mpc' = "incoming" /\ pdpError' \in BOOLEAN
        /\ UNCHANGED <<count, queue, cur, clientVars, modemVars, hasData>>
    BY <1>9 DEF ProcessSendData, TypeOK
  <2>2. CASE UNCHANGED sessions
    BY <2>1, <2>2, TableUntouched DEF tableVars, modemVars, TypeOK
  <2>3. CASE ~UNCHANGED sessions
    <3> DEFINE s == First(Pending)
               e == [sessions[s] EXCEPT !.send = FALSE]
    <3>1. /\ Pending # {} /\ sessions[s].id > 0
          /\ sessions' = [sessions EXCEPT ![s].send = FALSE]
      BY <1>9, <2>3 DEF ProcessSendData
    <3>2. s \in Slots
      BY <3>1, FirstIsMember DEF Pending
    <3> HIDE DEF s
    <3>3. sessions[s] \in Session
      BY <3>2 DEF TypeOK
    <3>4. e \in Session /\ e.id > 0
      BY <3>1, <3>3 DEF Session
    <3>5. sessions' = [sessions EXCEPT ![s] = e]
      BY <3>1, <3>2
    <3> HIDE DEF e
    <3>6. sessions' \in [Slots -> Session] /\ VacantIsClean'
      BY <3>2, <3>4, <3>5, EntryUpdate
    <3>7. TypeOK'
      BY <2>1, <3>6 DEF TypeOK, ModemSteps, clientVars, modemVars
    <3>8. ServedEntryStays'
      BY <2>1 DEF ServedEntryStays
    <3> QED
      BY <3>6, <3>7, <3>8
  <2> QED
    BY <2>2, <2>3
<1>10. CASE ProcessIncomingData
  <2> USE <1>10 DEF ProcessIncomingData
  <2>1. Incoming # {} => First(Incoming) \in Slots /\ sessions[First(Incoming)].inc
    BY FirstIsMember DEF Incoming
  <2>2. TypeOK'
    BY <2>1, ConstantsAssumption
       DEF TypeOK, ModemSteps, Slots, tableVars, clientVars, modemVars
  <2>3. VacantIsClean'
    BY DEF VacantIsClean, tableVars
  <2>4. ServedEntryStays'
    <3>1. Incoming # {} => sessions[First(Incoming)].id > 0
      BY <2>1 DEF VacantIsClean, EmptySession, TypeOK, Session
    <3> QED
      BY <2>1, <3>1 DEF ServedEntryStays, tableVars, Slots
  <2> QED
    BY <2>2, <2>3, <2>4
<1>11. CASE Retrieve
  <2> USE <1>11 DEF Retrieve
  <2>1. cur \in Slots /\ sessions[cur].id \in Ids
    <3>1. cur \in Slots /\ sessions[cur].id > 0
      BY DEF ServedEntryStays, TypeOK, Slots
    <3> QED
      BY <3>1 DEF TypeOK, Session, Ids
  <2>2. buffered' \in [Ids -> 0..MaxBuffered]
    BY <2>1, ConstantsAssumption DEF TypeOK
  <2>3. TypeOK'
    BY <2>2 DEF TypeOK, ModemSteps, tableVars, clientVars
  <2>4. VacantIsClean'
    BY DEF VacantIsClean, tableVars
  <2>5. ServedEntryStays'
    BY DEF ServedEntryStays, tableVars
  <2> QED
    BY <2>3, <2>4, <2>5
<1>12. CASE RetrieveNone
  <2> DEFINE e == [sessions[cur] EXCEPT !.inc = FALSE]
  <2>1. cur \in Slots /\ sessions[cur].id > 0
    BY <1>12 DEF RetrieveNone, ServedEntryStays, TypeOK, Slots
  <2>2. sessions[cur] \in Session
    BY <2>1 DEF TypeOK
  <2>3. e \in Session /\ e.id > 0
    BY <2>1, <2>2 DEF Session
  <2>4. sessions' = [sessions EXCEPT ![cur] = e]
    BY <1>12, <2>1 DEF RetrieveNone
  <2> HIDE DEF e
  <2>5. sessions' \in [Slots -> Session] /\ VacantIsClean'
    BY <2>1, <2>3, <2>4, EntryUpdate
  <2>6. TypeOK'
    BY <1>12, <2>5, ConstantsAssumption
       DEF RetrieveNone, TypeOK, ModemSteps, clientVars, modemVars
  <2>7. ServedEntryStays'
    BY <1>12 DEF RetrieveNone, ServedEntryStays
  <2> QED
    BY <2>5, <2>6, <2>7
<1> QED
  BY <1>2, <1>3, <1>4, <1>5, <1>6, <1>7, <1>8, <1>9, <1>10, <1>11, <1>12
     DEF ProcessSessions

\* The receive callback leaves the session layer alone.
LEMMA CallbackReturnsIInv == IInv /\ CallbackReturns => IInv'
<1> SUFFICES ASSUME IInv, CallbackReturns PROVE IInv'
  OBVIOUS
<1> USE DEF IInv, CallbackReturns, tableVars, clientVars, modemVars
<1>1. TypeOK'
  BY DEF TypeOK, ModemSteps
<1>2. VacantIsClean'
  BY DEF VacantIsClean
<1>3. ServedEntryStays'
  BY DEF ServedEntryStays
<1> QED
  BY <1>1, <1>2, <1>3

\* Marking an entry as having incoming data.
LEMMA MarkIncoming ==
    ASSUME TypeOK, VacantIsClean, ServedEntryStays, UNCHANGED <<queue, mpc, cur>>,
           NEW s \in Slots, sessions[s].id > 0,
           sessions' = [sessions EXCEPT ![s].inc = TRUE]
    PROVE  /\ sessions' \in [Slots -> Session]
           /\ VacantIsClean'
           /\ ServedEntryStays'
<1> DEFINE e == [sessions[s] EXCEPT !.inc = TRUE]
<1>1. sessions[s] \in Session
  BY DEF TypeOK
<1>2. e \in Session /\ e.id > 0
  BY <1>1 DEF Session
<1>3. sessions' = [sessions EXCEPT ![s] = e]
  OBVIOUS
<1>4. e.id = sessions[s].id /\ e.req = sessions[s].req /\ e.inc
  BY <1>1 DEF Session
<1> HIDE DEF e
<1>5. \A t \in Slots : /\ sessions'[t].id = sessions[t].id
                        /\ sessions'[t].req = sessions[t].req
                        /\ sessions[t].inc => sessions'[t].inc
  BY <1>3, <1>4 DEF TypeOK
<1>6. queue # <<>> => Current \in Slots
  BY PopType
<1>7. cur > 0 => cur \in Slots
  BY DEF TypeOK, Slots
<1>8. UNCHANGED <<queue, mpc, cur>> /\ Current' = Current
  BY DEF Current
<1>9. mpc = "create" => /\ sessions'[Current].req = "CREATE"
                        /\ sessions'[Current].id > 0
  BY <1>5, <1>6 DEF ServedEntryStays
<1>10. mpc = "stop" => sessions'[Current].req # "CREATE"
  BY <1>5, <1>6 DEF ServedEntryStays
<1>11. mpc \in {"retrieve", "callback"} =>
         sessions'[cur].id > 0 /\ sessions'[cur].inc
  BY <1>5, <1>7 DEF ServedEntryStays
<1>12. ServedEntryStays'
  BY <1>8, <1>9, <1>10, <1>11 DEF ServedEntryStays
<1> QED
  BY <1>2, <1>3, <1>12, EntryUpdate

\* Nothing the modem or its network does takes an entry from the modem task.
LEMMA EnvironmentIInv == IInv /\ Environment => IInv'
<1> SUFFICES ASSUME IInv, Environment PROVE IInv'
  OBVIOUS
<1> USE DEF IInv
<1>1. ASSUME NEW i \in Ids, DatagramArrives(i)
      PROVE  IInv'
  <2> USE <1>1 DEF DatagramArrives
  <2>1. buffered' \in [Ids -> 0..MaxBuffered]
    <3>1. buffered[i] \in Nat /\ buffered[i] + 1 \in 0..MaxBuffered
      BY ConstantsAssumption DEF TypeOK
    <3> QED
      BY <3>1 DEF TypeOK
  <2>2. CASE WithId(i) = {}
    <3>1. TypeOK'
      BY <2>1, <2>2 DEF TypeOK, clientVars
    <3>2. VacantIsClean'
      BY <2>2 DEF VacantIsClean
    <3>3. ServedEntryStays'
      BY <2>2 DEF ServedEntryStays, Current
    <3> QED
      BY <3>1, <3>2, <3>3
  <2>3. CASE WithId(i) # {}
    <3> DEFINE s == First(WithId(i))
    <3>1. s \in Slots /\ sessions[s].id = i /\ i > 0
      BY <2>3, WithIdFinds DEF Ids
    <3>2. sessions' = [sessions EXCEPT ![s].inc = TRUE]
      BY <2>3
    <3> HIDE DEF s
    <3>3. /\ sessions' \in [Slots -> Session]
          /\ VacantIsClean'
          /\ ServedEntryStays'
      BY <3>1, <3>2, MarkIncoming
    <3>4. TypeOK'
      BY <2>1, <3>3 DEF TypeOK, clientVars
    <3> QED
      BY <3>3, <3>4
  <2> QED
    BY <2>2, <2>3
<1>2. CASE NetworkDeactivates \/ ModemReset \/ Activate
  <2>1. /\ UNCHANGED <<sessions, count, queue, mpc, cur, clientVars, pdpError>>
        /\ ctxUp' \in BOOLEAN /\ hasData' \in BOOLEAN
        /\ AllSocketsClose
    BY <1>2 DEF NetworkDeactivates, ModemReset, Activate, tableVars, TypeOK
  <2>2. /\ socket' \in [Ids -> Addrs \cup {NoAddr}]
        /\ buffered' \in [Ids -> 0..MaxBuffered]
    BY <2>1, ConstantsAssumption DEF AllSocketsClose, AllClosed, NoneBuffered
  <2>3. TypeOK'
    BY <2>1, <2>2 DEF TypeOK, clientVars
  <2>4. VacantIsClean'
    BY <2>1 DEF VacantIsClean
  <2>5. ServedEntryStays'
    BY <2>1 DEF ServedEntryStays, Current
  <2> QED
    BY <2>3, <2>4, <2>5
<1> QED
  BY <1>1, <1>2 DEF Environment

LEMMA StutterIInv == IInv /\ UNCHANGED pdpVars => IInv'
BY DEF IInv, pdpVars, TypeOK, VacantIsClean, ServedEntryStays, Current

LEMMA NextIInv == IInv /\ [Next]_pdpVars => IInv'
BY ClientStartIInv, ClientCallIInv, ProcessSessionsIInv,
   CallbackReturnsIInv, EnvironmentIInv, StutterIInv DEF Next

(***************************************************************************)
(* The theorems                                                            *)
(***************************************************************************)

\* Whatever the client calls and whatever the modem and its network do, the
\* inductive invariant holds.
THEOREM SpecIInv == Spec => []IInv
BY InitIInv, NextIInv, PTL DEF Spec

\* Type correctness of the session layer: in particular the queue of pointers
\* never exceeds its capacity and no socket counter underflows.
THEOREM SpecTypeOK == Spec => []TypeOK
<1>1. IInv => TypeOK
  BY DEF IInv
<1> QED
  BY <1>1, SpecIInv, PTL

\* A vacant entry carries nothing over to the session that takes it next.
THEOREM SpecVacantIsClean == Spec => []VacantIsClean
<1>1. IInv => VacantIsClean
  BY DEF IInv
<1> QED
  BY <1>1, SpecIInv, PTL

\* The entry the modem task works on stays the entry it looked up, over every
\* interleaving with the client and with notifications.
THEOREM SpecServedEntryStays == Spec => []ServedEntryStays
<1>1. IInv => ServedEntryStays
  BY DEF IInv
<1> QED
  BY <1>1, SpecIInv, PTL

(***************************************************************************)
(* The cloud task as the client (CloudLink).  Its calls keep to the        *)
(* protocol of the session layer because of where the task is when it      *)
(* makes them (CallOK, TaskOK).  The requests are exactly what is queued,  *)
(* each once (QueueOK), because the task closes only what it has not       *)
(* closed yet: when anything is queued, it has given its session up        *)
(* (Busy), so a close always finds the queue empty and a request finds     *)
(* room in it.                                                             *)
(***************************************************************************)

\* The call in progress is the one the task waits for.
CallOK ==
    /\ call \in {"request", "wait"} => at = "request"
    /\ call = "send" => at = "send"
    /\ call = "close" => at \in Closing

\* What a blocking call or a state of the link says about the rest.
TaskOK ==
    /\ at = "request" => udp = "connecting"
    /\ at \in {"send", "refused"} => udp = "ready"
    /\ at = "close" => udp = "close"
    /\ at \in {"dropUdp", "dropDtls", "dropApp"} => dtls = "init"
    /\ udp = "close" /\ sid > 0 =>
          dtls = "init" /\ at \in {"udp", "app", "close", "dropApp"}
    /\ udp = "ready" => sid > 0
    /\ udp = "connecting" => host \in Addrs
    /\ apn \in Addrs

\* The queue holds the entries with a request, each once.
QueueOK ==
    /\ NoOrphanRequest
    /\ \A k \in 1..Len(queue) : sessions[queue[k]].req # "NONE"
    /\ \A j, k \in 1..Len(queue) : queue[j] = queue[k] => j = k

\* The task has closed its session, or given it up, and is on its way to the
\* next request_session or to UDP_STATE_INIT, where it forgets the id.
Released ==
    \/ at = "request"
    \/ at = "udp" /\ udp = "init"
    \/ at = "rx" /\ udp = "init" /\ dtls = "init"
    \/ /\ udp \in {"init", "connect", "connecting"}
       /\ \/ at = "dtls" /\ dtls = "init"
          \/ at \in {"udp", "dtls"} /\ dtls = "connect" /\ ~bState

Busy == sid > 0 /\ queue # <<>> => Released

LinkInv == CallOK /\ TaskOK /\ QueueOK /\ Busy

(***************************************************************************)
(* Steps of the link are steps of the two tasks                            *)
(***************************************************************************)

\* Where the task is when it takes a step of its own, and when such a step
\* starts a call or changes the session id.
LEMMA LocalStepIs ==
    ASSUME Cloud!LocalStep
    PROVE  /\ at \in {"udp", "refused", "rx", "dtls", "app"}
           /\ at' = "request" => at = "udp" /\ udp = "connecting"
           /\ sid' # sid => sid' = -1 /\ at = "udp" /\ at' = "dtls"
<1> USE DEF Cloud!udpVars, Cloud!dtlsVars, Cloud!Blocks
<1>1. CASE Cloud!UdpInit \/ Cloud!UdpConnecting \/ Cloud!UdpClose \/ Cloud!UdpReady
  BY <1>1 DEF Cloud!UdpInit, Cloud!UdpConnecting, Cloud!UdpClose, Cloud!UdpReady
<1>2. CASE Cloud!RecheckSession \/ Cloud!RefreshSession \/ Cloud!Receive
  BY <1>2 DEF Cloud!RecheckSession, Cloud!RefreshSession, Cloud!Receive,
       Cloud!NothingReceived, Cloud!ReceiveOther, Cloud!ReceiveFlight,
       Cloud!ReceiveConnected, Cloud!ReceiveError, Cloud!ReceiveAlert,
       Cloud!Handled, Cloud!StartReconnect
<1>3. CASE Cloud!ProcessDtls
  BY <1>3 DEF Cloud!ProcessDtls, Cloud!DtlsInit, Cloud!DtlsWaits, Cloud!DtlsConnect,
       Cloud!DtlsConnectFails, Cloud!DtlsConnecting, Cloud!DtlsTimeout,
       Cloud!DtlsClose, Cloud!CycleEnds
<1>4. CASE Cloud!AppIdle \/ Cloud!AppSends \/ Cloud!AppReconnects
  BY <1>4 DEF Cloud!AppIdle, Cloud!AppSends, Cloud!AppReconnects,
       Cloud!StartReconnect
<1> QED
  BY <1>1, <1>2, <1>3, <1>4 DEF Cloud!LocalStep

\* What a call does when it is not over: it waits for the request it made.
LEMMA CallGoesOn ==
    ASSUME ClientCall, call' # "none"
    PROVE  call = "request" /\ call' = "wait" /\ sid' = sid
BY DEF ClientCall, RequestSession, RequestReturns, WaitCreatedSession,
       WaitTimeout, CloseSession, SendData, LockTimeout

\* No call is in progress when the task takes a step of its own.
LEMMA NoCall ==
    ASSUME TypeOK, LinkInv, at \notin Closing \cup {"request", "send"}
    PROVE  call = "none"
BY DEF LinkInv, CallOK, TypeOK, Calls

\* Every step of the link is a step of the session layer with its most
\* general client, or leaves it alone.
LEMMA PdpStep ==
    ASSUME TypeOK, LinkInv, [LinkNext]_linkVars
    PROVE  [Next]_pdpVars
<1> USE DEF pdpVars, pdpOnly
<1>1. CASE Connect
  BY <1>1 DEF Connect, Cloud!UdpConnect
<1>2. CASE CloudStep
  <2>1. UNCHANGED <<tableVars, mpc, cur, modemVars, hasData, pdpError>>
    BY <1>2 DEF CloudStep, tableVars, modemVars
  <2>2. call = "none"
    BY <1>2, LocalStepIs, NoCall DEF CloudStep, Closing
  <2>3. CASE at' = "request"
    <3>1. StartRequest(host) /\ host \in Addrs
      BY <1>2, <2>3, LocalStepIs DEF CloudStep, CallsPdp, LinkInv, TaskOK, Closing
    <3> QED
      BY <2>1, <3>1 DEF Next, ClientStart
  <2>4. CASE at' = "send"
    <3>1. StartSend
      BY <1>2, <2>4 DEF CloudStep, CallsPdp, Closing
    <3> QED
      BY <2>1, <3>1 DEF Next, ClientStart
  <2>5. CASE at' \in Closing /\ sid > 0
    <3>1. StartClose
      BY <1>2, <2>5 DEF CloudStep, CallsPdp, Closing
    <3> QED
      BY <2>1, <3>1 DEF Next, ClientStart
  <2>6. CASE at' \notin {"request", "send"} /\ ~(at' \in Closing /\ sid > 0)
    <3>1. UNCHANGED <<call, cfg>>
      BY <1>2, <2>6 DEF CloudStep, CallsPdp, Closing
    <3>2. sid' = sid \/ ForgetSession
      BY <1>2, <2>2, <3>1, LocalStepIs DEF CloudStep, ForgetSession
    <3> QED
      BY <2>1, <3>1, <3>2 DEF Next, ClientStart, tableVars, modemVars
  <2> QED
    BY <2>3, <2>4, <2>5, <2>6
<1>3. CASE CallStep
  BY <1>3 DEF CallStep, Next
<1>4. CASE NothingToClose
  BY <1>4 DEF NothingToClose, Cloud!CloseReturned, Cloud!ReconnectReturns
<1>5. CASE ModemStep \/ Callback
  BY <1>5 DEF ModemStep, Callback, Next
<1>6. CASE Activates \/ Surroundings
  BY <1>6 DEF Activates, Surroundings, Next, Environment
<1>7. CASE UNCHANGED linkVars
  BY <1>7 DEF linkVars
<1> QED
  BY <1>1, <1>2, <1>3, <1>4, <1>5, <1>6, <1>7 DEF LinkNext

\* Every step of the link is a step of the cloud task, of the modem task in
\* its receive callback, or leaves the cloud task alone.
LEMMA CloudRefined ==
    ASSUME TypeOK, TypeOK', [LinkNext]_linkVars
    PROVE  [Cloud!Next]_Cloud!cloudVars
<1> USE DEF cloudOnly, Cloud!cloudVars
<1>1. CASE Connect
  <2>1. Cloud!UdpConnect(hasData) /\ hasData \in BOOLEAN
    BY <1>1 DEF Connect, TypeOK
  <2> QED
    BY <2>1 DEF Cloud!Next, Cloud!CallReturn
<1>2. CASE CloudStep
  BY <1>2 DEF CloudStep, Cloud!Next
<1>3. CASE CallStep
  <2>1. CASE call' # "none"
    BY <1>3, <2>1, CallGoesOn DEF CallStep
  <2>2. CASE call' = "none"
    <3>1. sid' \in -1..MaxSessions
      BY DEF TypeOK
    <3> QED
      BY <1>3, <2>2, <3>1 DEF CallStep, Cloud!Next, Cloud!CallReturn
  <2> QED
    BY <2>1, <2>2
<1>4. CASE NothingToClose
  BY <1>4 DEF NothingToClose, Cloud!Next, Cloud!CallReturn
<1>5. CASE ModemStep
  <2>1. sid' = sid
    BY <1>5 DEF ModemStep, ProcessSessions, PeekRequest, CreateExisting,
         CreateOpened, CreateRefused, CreateNoResponse, CreatePurge, StopSession,
         ProcessSendData, ProcessIncomingData, Retrieve, RetrieveNone, clientVars
  <2> QED
    BY <1>5, <2>1 DEF ModemStep, Cloud!Next
<1>6. CASE Callback
  BY <1>6 DEF Callback, Cloud!Next
<1>7. CASE Activates \/ Surroundings
  BY <1>7 DEF Activates, Surroundings
<1>8. CASE UNCHANGED linkVars
  BY <1>8 DEF linkVars
<1> QED
  BY <1>1, <1>2, <1>3, <1>4, <1>5, <1>6, <1>7, <1>8 DEF LinkNext

(***************************************************************************)
(* The queue                                                               *)
(***************************************************************************)

\* A step that touches neither the queue nor a request.
LEMMA RequestsKept ==
    ASSUME TypeOK, QueueOK, queue' = queue,
           \A s \in Slots : sessions'[s].req = sessions[s].req
    PROVE  QueueOK'
<1>1. \A k \in 1..Len(queue) : queue[k] \in Slots
  BY DEF TypeOK
<1>2. NoOrphanRequest'
  BY DEF QueueOK, NoOrphanRequest
<1>3. \A k \in 1..Len(queue) : sessions'[queue[k]].req # "NONE"
  BY <1>1 DEF QueueOK
<1> QED
  BY <1>2, <1>3 DEF QueueOK

\* The head of the queue has been served.
LEMMA RequestServed ==
    ASSUME TypeOK, QueueOK, queue # <<>>, queue' = Tail(queue),
           sessions'[Current].req = "NONE",
           \A s \in Slots \ {Current} : sessions'[s].req = sessions[s].req
    PROVE  QueueOK'
<1>1. /\ queue \in Seq(Slots) /\ Len(queue) \in Nat \ {0}
      /\ Tail(queue) \in Seq(Slots) /\ Len(Tail(queue)) = Len(queue) - 1
      /\ \A k \in 1..Len(Tail(queue)) : Tail(queue)[k] = queue[k + 1]
      /\ Current = queue[1]
  BY DEF TypeOK, Current
<1>2. \A j, k \in 1..Len(queue) : queue[j] = queue[k] => j = k
  BY DEF QueueOK
<1>3. \A k \in 1..Len(queue') : /\ k + 1 \in 1..Len(queue) /\ 1 \in 1..Len(queue)
                                /\ queue'[k] = queue[k + 1]
                                /\ queue'[k] \in Slots \ {Current}
  <2> TAKE k \in 1..Len(queue')
  <2>1. k + 1 \in 1..Len(queue) /\ 1 \in 1..Len(queue) /\ k + 1 # 1
    BY <1>1
  <2>2. queue'[k] = queue[k + 1] /\ queue[k + 1] \in Slots
    BY <2>1, <1>1
  <2> QED
    BY <2>1, <2>2, <1>1, <1>2
<1>4. NoOrphanRequest'
  <2> SUFFICES ASSUME NEW s \in Slots, sessions'[s].req # "NONE"
               PROVE  \E k \in 1..Len(queue') : queue'[k] = s
    BY DEF NoOrphanRequest
  <2>1. s # Current /\ sessions[s].req # "NONE"
    OBVIOUS
  <2>2. PICK k \in 1..Len(queue) : queue[k] = s
    BY <2>1 DEF QueueOK, NoOrphanRequest
  <2>3. k # 1 /\ k - 1 \in 1..Len(queue') /\ (k - 1) + 1 = k
    BY <2>1, <2>2, <1>1
  <2> QED
    BY <2>2, <2>3, <1>3
<1>5. \A k \in 1..Len(queue') : sessions'[queue'[k]].req # "NONE"
  BY <1>3 DEF QueueOK
<1>6. \A j, k \in 1..Len(queue') : queue'[j] = queue'[k] => j = k
  <2> SUFFICES ASSUME NEW j \in 1..Len(queue'), NEW k \in 1..Len(queue'),
                      queue'[j] = queue'[k]
               PROVE  j = k
    OBVIOUS
  <2>1. queue[j + 1] = queue[k + 1]
    BY <1>3
  <2>2. j + 1 = k + 1
    BY <2>1, <1>2, <1>3
  <2> QED
    BY <2>2, <1>1
<1> QED
  BY <1>4, <1>5, <1>6 DEF QueueOK

\* A request is queued for an entry that had none.
LEMMA RequestQueued ==
    ASSUME TypeOK, QueueOK, NEW s \in Slots, sessions[s].req = "NONE",
           queue' = Append(queue, s), sessions'[s].req # "NONE",
           \A t \in Slots \ {s} : sessions'[t].req = sessions[t].req
    PROVE  QueueOK'
<1>1. /\ queue \in Seq(Slots) /\ Len(queue) \in Nat
      /\ Len(queue') = Len(queue) + 1 /\ queue'[Len(queue) + 1] = s
      /\ \A k \in 1..Len(queue) : queue'[k] = queue[k] /\ queue[k] \in Slots \ {s}
  BY DEF TypeOK, QueueOK
<1>2. \A k \in 1..Len(queue') : k = Len(queue) + 1 \/ k \in 1..Len(queue)
  BY <1>1
<1>3. NoOrphanRequest'
  <2> SUFFICES ASSUME NEW t \in Slots, sessions'[t].req # "NONE"
               PROVE  \E k \in 1..Len(queue') : queue'[k] = t
    BY DEF NoOrphanRequest
  <2>1. CASE t = s
    <3>1. Len(queue) + 1 \in 1..Len(queue')
      BY <1>1
    <3> QED
      BY <3>1, <2>1, <1>1
  <2>2. CASE t # s
    <3>1. PICK k \in 1..Len(queue) : queue[k] = t
      BY <2>2 DEF QueueOK, NoOrphanRequest
    <3>2. k \in 1..Len(queue')
      BY <1>1
    <3> QED
      BY <3>1, <3>2, <1>1
  <2> QED
    BY <2>1, <2>2
<1>4. \A k \in 1..Len(queue') : sessions'[queue'[k]].req # "NONE"
  BY <1>1, <1>2 DEF QueueOK
<1>5. \A j, k \in 1..Len(queue') : queue'[j] = queue'[k] => j = k
  BY <1>1, <1>2 DEF QueueOK
<1> QED
  BY <1>3, <1>4, <1>5 DEF QueueOK

\* While an entry has no request, there is room for one: what is queued are
\* other entries, each once.
LEMMA QueueHasRoom ==
    ASSUME TypeOK, QueueOK, NEW s \in Slots, sessions[s].req = "NONE"
    PROVE  ~QueueFull
<1> SUFFICES ASSUME Len(queue) >= MaxSessions PROVE FALSE
  BY DEF QueueFull
<1> DEFINE Places == 1..Len(queue)
           Others == Slots \ {s}
           f == [k \in Places |-> queue[k]]
<1>1. queue \in Seq(Slots) /\ Len(queue) \in Nat /\ MaxSessions \in Nat
  BY ConstantsAssumption DEF TypeOK
<1>2. f \in [Places -> Others]
  BY <1>1 DEF QueueOK
<1>3. IsFiniteSet(Slots) /\ Cardinality(Slots) = MaxSessions
  BY ConstantsAssumption, FS_Interval DEF Slots
<1>4. IsFiniteSet(Others) /\ Cardinality(Others) = MaxSessions - 1
  BY <1>3, FS_RemoveElement
<1>5. IsFiniteSet(Places) /\ Cardinality(Places) = Len(queue)
  <2> DEFINE n == Len(queue)
  <2>1. n \in Nat
    BY <1>1
  <2>2. IsFiniteSet(1..n) /\ Cardinality(1..n) = n
    <3> HIDE DEF n
    <3> QED
      BY <2>1, FS_Interval
  <2> QED
    BY <2>2
<1>6. Cardinality(Others) < Cardinality(Places)
  BY <1>1, <1>4, <1>5
<1>7. \E j, k \in Places : j # k /\ f[j] = f[k]
  <2> HIDE DEF f, Places, Others
  <2> QED
    BY <1>2, <1>4, <1>5, <1>6, FS_PigeonHole
<1> QED
  BY <1>7 DEF QueueOK

\* Served by a modem that lists a socket with the port.
LEMMA AdoptQueueOK ==
    ASSUME TypeOK, QueueOK, queue # <<>>, NEW sock, AdoptSocket(sock)
    PROVE  QueueOK'
<1>1. Current \in Slots
  BY PopType
<1>2. PICK i \in Ids :
         /\ sessions' = [sessions EXCEPT ![Current].id = i, ![Current].req = "NONE"]
         /\ queue' = Tail(queue)
  BY DEF AdoptSocket
<1>3. /\ sessions'[Current].req = "NONE"
      /\ \A s \in Slots \ {Current} : sessions'[s].req = sessions[s].req
  BY <1>1, <1>2 DEF TypeOK, Session
<1> QED
  BY <1>2, <1>3, RequestServed

\* The modem task removes a pointer together with its request.
LEMMA ModemQueueOK ==
    ASSUME IInv, QueueOK, ProcessSessions
    PROVE  QueueOK' /\ (queue' # <<>> => queue # <<>>)
<1> USE DEF IInv
<1>1. mpc \in {"create", "stop"} => queue # <<>> /\ Current \in Slots
  BY PopType DEF ServedEntryStays
<1>2. CASE UNCHANGED tableVars
  BY <1>2, RequestsKept DEF tableVars
<1>3. ASSUME queue # <<>>, NEW sock, AdoptSocket(sock)
      PROVE  QueueOK' /\ (queue' # <<>> => queue # <<>>)
  BY <1>3, AdoptQueueOK
<1>4. CASE PeekRequest \/ CreateNoResponse \/ ProcessIncomingData \/ Retrieve
  BY <1>2, <1>4 DEF PeekRequest, CreateNoResponse, ProcessIncomingData, Retrieve
<1>5. CASE CreateExisting \/ CreateOpened \/ CreateRefused
  BY <1>1, <1>2, <1>3, <1>5 DEF CreateExisting, CreateOpened, CreateRefused
<1>6. CASE CreatePurge
  <2>1. queue' = <<>> /\ \A s \in Slots : sessions'[s].req = "NONE"
    BY <1>6 DEF CreatePurge, EmptyTable, EmptySession
  <2> QED
    BY <2>1 DEF QueueOK, NoOrphanRequest
<1>7. CASE StopSession
  <2>1. /\ sessions' = [sessions EXCEPT ![Current] = EmptySession]
        /\ queue' = Tail(queue) /\ queue # <<>> /\ Current \in Slots
    BY <1>1, <1>7 DEF StopSession
  <2>2. /\ sessions'[Current].req = "NONE"
        /\ \A s \in Slots \ {Current} : sessions'[s].req = sessions[s].req
    BY <2>1 DEF TypeOK, EmptySession
  <2> QED
    BY <2>1, <2>2, RequestServed
<1>8. CASE ProcessSendData \/ RetrieveNone
  <2>1. queue' = queue
    BY <1>8 DEF ProcessSendData, RetrieveNone
  <2>2. \A s \in Slots : sessions'[s].req = sessions[s].req
    <3>1. CASE sessions' = sessions
      BY <3>1
    <3>2. ASSUME NEW s \in Slots, sessions' = [sessions EXCEPT ![s].send = FALSE]
          PROVE  \A t \in Slots : sessions'[t].req = sessions[t].req
      BY <3>2 DEF TypeOK, Session
    <3>3. CASE ProcessSendData
      <4>1. Pending # {} => First(Pending) \in Slots
        BY FirstIsMember DEF Pending
      <4> QED
        BY <3>1, <3>2, <3>3, <4>1 DEF ProcessSendData
    <3>4. CASE RetrieveNone
      <4>1. sessions' = [sessions EXCEPT ![cur].inc = FALSE]
        BY <3>4 DEF RetrieveNone
      <4> QED
        BY <4>1 DEF TypeOK, Session
    <3> QED
      BY <1>8, <3>3, <3>4
  <2> QED
    BY <2>1, <2>2, RequestsKept
<1> QED
  BY <1>4, <1>5, <1>6, <1>7, <1>8 DEF ProcessSessions

\* The surroundings touch no request.
LEMMA EnvironmentQueueOK ==
    ASSUME TypeOK, QueueOK, Environment
    PROVE  QueueOK' /\ queue' = queue
<1>1. CASE UNCHANGED tableVars
  BY <1>1, RequestsKept DEF tableVars
<1>2. ASSUME NEW i \in Ids, DatagramArrives(i)
      PROVE  QueueOK' /\ queue' = queue
  <2>1. queue' = queue
    BY <1>2 DEF DatagramArrives
  <2>2. \A s \in Slots : sessions'[s].req = sessions[s].req
    <3>1. CASE WithId(i) = {}
      BY <1>2, <3>1 DEF DatagramArrives
    <3>2. CASE WithId(i) # {}
      <4>1. sessions' = [sessions EXCEPT ![First(WithId(i))].inc = TRUE]
        BY <1>2, <3>2 DEF DatagramArrives
      <4> QED
        BY <4>1 DEF TypeOK, Session
    <3> QED
      BY <3>1, <3>2
  <2> QED
    BY <2>1, <2>2, RequestsKept
<1> QED
  BY <1>1, <1>2 DEF Environment, NetworkDeactivates, ModemReset, Activate

\* A call of the task finds the queue as it needs it: empty for a close, with
\* room for a request.
LEMMA CallQueueOK ==
    ASSUME IInv, LinkInv, ClientCall
    PROVE  /\ QueueOK'
           /\ at = "request" /\ sid' > 0 /\ call' = "none" => queue' = <<>>
           /\ at \notin Closing \cup {"request"} => queue' = queue
<1> USE DEF IInv, LinkInv
<1>1. CASE UNCHANGED tableVars
  <2>1. QueueOK' /\ queue' = queue
    BY <1>1, RequestsKept DEF tableVars
  <2>2. at = "request" /\ sid' > 0 /\ call' = "none" => queue = <<>>
    BY DEF ClientCall, RequestSession, RequestReturns, WaitCreatedSession,
       WaitTimeout, CloseSession, SendData, LockTimeout, CallOK, Closing
  <2> QED
    BY <2>1, <2>2
<1>2. CASE RequestSession
  <2> SUFFICES ASSUME ~UNCHANGED tableVars
               PROVE  QueueOK' /\ call' = "wait"
    BY <1>1, <1>2 DEF RequestSession, CallOK
  <2> DEFINE s == First(Candidates(cfg))
  <2>1. Candidates(cfg) # {} /\ ClaimSession(s)
    BY <1>2 DEF RequestSession
  <2>2. s \in Slots
    BY <2>1, FirstIsMember DEF Candidates
  <2>3. /\ sessions[s].id = 0
        /\ sessions' = [sessions EXCEPT ![s] =
                           [id |-> NextId, addr |-> cfg, req |-> "CREATE",
                            send |-> @.send, inc |-> @.inc]]
        /\ queue' = Queued(s)
    <3> HIDE DEF s
    <3> QED
      BY <2>1, <2>2 DEF ClaimSession, TypeOK, Session
  <2>4. sessions[s].req = "NONE"
    BY <2>2, <2>3 DEF VacantIsClean, EmptySession
  <2>5. ~QueueFull
    BY <2>2, <2>4, QueueHasRoom
  <2>6. /\ sessions'[s].req = "CREATE"
        /\ \A t \in Slots \ {s} : sessions'[t].req = sessions[t].req
    BY <2>2, <2>3 DEF TypeOK
  <2>7. QueueOK'
    <3> HIDE DEF s
    <3> QED
      BY <2>2, <2>3, <2>4, <2>5, <2>6, RequestQueued DEF Queued
  <2>8. call' = "wait"
    BY <1>2, <2>1, <2>3, <2>5 DEF RequestSession
  <2> QED
    BY <2>7, <2>8
<1>3. CASE CloseSession
  <2> SUFFICES ASSUME ~UNCHANGED tableVars
               PROVE  QueueOK' /\ at \in Closing
    BY <1>1, <1>3 DEF CloseSession, Closing
  <2> DEFINE s == First(WithId(sid))
  <2>1. /\ WithId(sid) # {}
        /\ sessions' = [sessions EXCEPT ![s].req = "CLOSE"]
        /\ queue' = Queued(s)
    BY <1>3 DEF CloseSession
  <2>2. s \in Slots
    BY <2>1, FirstIsMember DEF WithId
  <2>3. at \in Closing /\ sid > 0
    BY <1>3 DEF CloseSession, CallOK, TypeOK
  <2>4. queue = <<>>
    BY <2>3 DEF Busy, Released, Closing
  <2>5. sessions[s].req = "NONE"
    BY <2>2, <2>4 DEF QueueOK, NoOrphanRequest
  <2>6. ~QueueFull
    BY <2>2, <2>5, QueueHasRoom
  <2>7. /\ sessions'[s].req = "CLOSE"
        /\ \A t \in Slots \ {s} : sessions'[t].req = sessions[t].req
    BY <2>1, <2>2 DEF TypeOK, Session
  <2>8. QueueOK'
    <3> HIDE DEF s
    <3> QED
      BY <2>1, <2>2, <2>5, <2>6, <2>7, RequestQueued DEF Queued
  <2> QED
    BY <2>3, <2>8
<1>4. CASE SendData
  <2>1. queue' = queue /\ at = "send"
    BY <1>4 DEF SendData, CallOK
  <2>2. \A s \in Slots : sessions'[s].req = sessions[s].req
    BY <1>4 DEF SendData, TypeOK, Session
  <2> QED
    BY <2>1, <2>2, RequestsKept
<1>5. CASE WaitCreatedSession \/ WaitTimeout \/ LockTimeout
  BY <1>1, <1>5 DEF WaitCreatedSession, WaitTimeout, LockTimeout
<1> QED
  BY <1>2, <1>3, <1>4, <1>5 DEF ClientCall

(***************************************************************************)
(* The steps of the link                                                   *)
(***************************************************************************)

\* The data connection is looked up.
LEMMA ConnectLinkInv == ASSUME TypeOK, LinkInv, Connect PROVE LinkInv'
<1> USE DEF LinkInv
<1>1. UNCHANGED tableVars /\ UNCHANGED call /\ sid' = sid
  BY DEF Connect, Cloud!UdpConnect, pdpOnly, tableVars
<1>2. QueueOK'
  BY <1>1, RequestsKept DEF tableVars
<1>3. CallOK'
  BY <1>1, NoCall DEF Connect, Cloud!UdpConnect, CallOK, Closing
<1>4. TaskOK' /\ Busy'
  BY <1>1 DEF Connect, Cloud!UdpConnect, Cloud!dtlsVars, tableVars, TaskOK, Busy,
              Released
<1> QED
  BY <1>2, <1>3, <1>4

\* A step of the cloud task itself: what it has given up stays given up.
LEMMA CloudStepLinkInv == ASSUME TypeOK, LinkInv, CloudStep PROVE LinkInv'
<1> USE DEF LinkInv
<1>1. Cloud!LocalStep /\ queue' = queue /\ sessions' = sessions /\ addrVars' = addrVars
  BY DEF CloudStep
<1>2. QueueOK'
  BY <1>1, RequestsKept
<1>3. CallOK'
  <2>1. call = "none"
    BY <1>1, LocalStepIs, NoCall DEF Closing
  <2>2. CASE at' = "request"
    BY <2>2 DEF CloudStep, CallsPdp, StartRequest, CallOK, Closing
  <2>3. CASE at' = "send"
    BY <2>3 DEF CloudStep, CallsPdp, StartSend, CallOK, Closing
  <2>4. CASE at' \in Closing /\ sid > 0
    BY <2>4 DEF CloudStep, CallsPdp, StartClose, CallOK, Closing
  <2>5. CASE at' \notin {"request", "send"} /\ ~(at' \in Closing /\ sid > 0)
    BY <2>1, <2>5 DEF CloudStep, CallsPdp, CallOK, Closing
  <2> QED
    BY <2>2, <2>3, <2>4, <2>5
<1>4. TaskOK' /\ Busy'
  <2>1. apn' = apn /\ host' = host
    BY <1>1 DEF addrVars
  <2> USE DEF TaskOK, Busy, Released, Cloud!udpVars, Cloud!dtlsVars, Cloud!Blocks
  <2>2. CASE Cloud!UdpInit \/ Cloud!UdpConnecting \/ Cloud!UdpClose \/ Cloud!UdpReady
    BY <1>1, <2>1, <2>2 DEF Cloud!UdpInit, Cloud!UdpConnecting, Cloud!UdpClose,
                            Cloud!UdpReady
  <2>3. CASE Cloud!RecheckSession \/ Cloud!RefreshSession
    BY <1>1, <2>1, <2>3 DEF Cloud!RecheckSession, Cloud!RefreshSession,
         Cloud!StartReconnect
  <2>4. CASE Cloud!Receive
    BY <1>1, <2>1, <2>4 DEF Cloud!Receive, Cloud!NothingReceived,
         Cloud!ReceiveOther, Cloud!ReceiveFlight, Cloud!ReceiveConnected,
         Cloud!ReceiveError, Cloud!ReceiveAlert, Cloud!Handled
  <2>5. CASE Cloud!ProcessDtls
    BY <1>1, <2>1, <2>5 DEF Cloud!ProcessDtls, Cloud!DtlsInit, Cloud!DtlsWaits,
         Cloud!DtlsConnect, Cloud!DtlsConnectFails, Cloud!DtlsConnecting,
         Cloud!DtlsTimeout, Cloud!DtlsClose, Cloud!CycleEnds
  <2>6. CASE Cloud!AppIdle \/ Cloud!AppSends \/ Cloud!AppReconnects
    BY <1>1, <2>1, <2>6 DEF Cloud!AppIdle, Cloud!AppSends, Cloud!AppReconnects,
         Cloud!StartReconnect
  <2> QED
    BY <1>1, <2>2, <2>3, <2>4, <2>5, <2>6 DEF Cloud!LocalStep
<1> QED
  BY <1>2, <1>3, <1>4

\* A call runs; when it is over, the task goes on with its result.
LEMMA CallStepLinkInv == ASSUME IInv, LinkInv, CallStep PROVE LinkInv'
<1> USE DEF LinkInv
<1>1. ClientCall /\ apn' = apn /\ host' = host
  BY DEF CallStep, addrVars
<1>2. /\ QueueOK'
      /\ at = "request" /\ sid' > 0 /\ call' = "none" => queue' = <<>>
      /\ at \notin Closing \cup {"request"} => queue' = queue
  BY <1>1, CallQueueOK
<1>3. CASE call' # "none"
  <2>1. at = "request" /\ call' = "wait" /\ sid' = sid /\ UNCHANGED cloudOnly
    BY <1>1, <1>3, CallGoesOn DEF CallStep, CallOK
  <2> QED
    BY <1>1, <1>2, <2>1 DEF cloudOnly, CallOK, TaskOK, Busy, Released
<1>4. CASE call' = "none"
  <2>1. CallOK'
    BY <1>4 DEF CallOK
  <2>2. TaskOK' /\ Busy'
    <3> USE DEF TaskOK, Busy, Released, Closing, Cloud!udpVars, Cloud!dtlsVars
    <3>1. CASE Cloud!RequestReturned(sid')
      BY <1>1, <1>2, <1>4, <3>1 DEF Cloud!RequestReturned
    <3>2. CASE Cloud!CloseReturned
      BY <1>1, <1>2, <3>2 DEF Cloud!CloseReturned
    <3>3. CASE Cloud!ReconnectReturns
      BY <1>1, <1>2, <3>3 DEF Cloud!ReconnectReturns
    <3>4. CASE Cloud!SendOk \/ Cloud!SendFailed
      BY <1>1, <1>2, <3>4 DEF Cloud!SendOk, Cloud!SendFailed, Cloud!Blocks
    <3> QED
      BY <1>4, <3>1, <3>2, <3>3, <3>4 DEF CallStep
  <2> QED
    BY <1>2, <2>1, <2>2
<1> QED
  BY <1>3, <1>4

\* A close without a session.
LEMMA NothingToCloseLinkInv == ASSUME TypeOK, LinkInv, NothingToClose PROVE LinkInv'
<1> USE DEF LinkInv
<1>1. /\ UNCHANGED tableVars /\ call' = "none" /\ sid' = sid
      /\ apn' = apn /\ host' = host
  BY DEF NothingToClose, pdpOnly, tableVars, addrVars, Cloud!CloseReturned,
         Cloud!ReconnectReturns
<1>2. QueueOK'
  BY <1>1, RequestsKept DEF tableVars
<1>3. CallOK'
  BY <1>1 DEF CallOK
<1>4. TaskOK' /\ Busy'
  BY <1>1 DEF NothingToClose, Cloud!CloseReturned, Cloud!ReconnectReturns,
              Cloud!dtlsVars, tableVars, TaskOK, Busy, Released
<1> QED
  BY <1>2, <1>3, <1>4

\* A step that leaves the cloud task where it is and fills no queue.
LEMMA ElsewhereLinkInv ==
    ASSUME LinkInv, QueueOK', queue' # <<>> => queue # <<>>, call' = call,
           UNCHANGED <<at, udp, sid, dtls, bState, host>>, apn' \in Addrs
    PROVE  LinkInv'
BY DEF LinkInv, CallOK, TaskOK, Busy, Released

\* The modem task, its callback, and what is around the two tasks.
LEMMA OthersLinkInv ==
    ASSUME IInv, LinkInv,
           ModemStep \/ Callback \/ Activates \/ Surroundings \/ UNCHANGED linkVars
    PROVE  LinkInv'
<1>1. TypeOK /\ QueueOK /\ apn \in Addrs
  BY DEF IInv, LinkInv, TaskOK
<1>2. CASE ModemStep
  <2>1. QueueOK' /\ (queue' # <<>> => queue # <<>>)
    BY <1>1, <1>2, ModemQueueOK DEF ModemStep
  <2>2. call' = call /\ sid' = sid
    BY <1>2 DEF ModemStep, ProcessSessions, PeekRequest, CreateExisting,
         CreateOpened, CreateRefused, CreateNoResponse, CreatePurge, StopSession,
         ProcessSendData, ProcessIncomingData, Retrieve, RetrieveNone, clientVars
  <2>3. UNCHANGED <<at, udp, dtls, bState, host, apn>>
    BY <1>2 DEF ModemStep, Cloud!ReceiveStarts, cloudOnly, addrVars, Cloud!udpVars,
         Cloud!dtlsVars
  <2> QED
    BY <1>1, <2>1, <2>2, <2>3, ElsewhereLinkInv
<1>3. CASE Callback
  <2>1. /\ UNCHANGED tableVars /\ call' = call /\ sid' = sid
        /\ UNCHANGED <<at, udp, dtls, bState, host, apn>>
    BY <1>3 DEF Callback, CallbackReturns, Cloud!ReceiveStores, Cloud!ReceiveGivesUp,
         clientVars, addrVars, Cloud!udpVars, Cloud!dtlsVars
  <2>2. QueueOK' /\ queue' = queue
    BY <1>1, <2>1, RequestsKept DEF tableVars
  <2> QED
    BY <1>1, <2>1, <2>2, ElsewhereLinkInv
<1>4. CASE Activates \/ Surroundings
  <2>1. Environment
    BY <1>4 DEF Activates, Surroundings, Environment
  <2>2. QueueOK' /\ queue' = queue
    BY <1>1, <2>1, EnvironmentQueueOK
  <2>3. call' = call
    BY <2>1 DEF Environment, DatagramArrives, NetworkDeactivates, ModemReset,
         Activate, clientVars
  <2>4. UNCHANGED <<at, udp, sid, dtls, bState, host>> /\ apn' \in Addrs
    BY <1>1, <1>4 DEF Activates, Surroundings, cloudOnly, addrVars
  <2> QED
    BY <2>2, <2>3, <2>4, ElsewhereLinkInv
<1>5. CASE UNCHANGED linkVars
  <2>1. UNCHANGED <<sessions, queue, call, sid, at, udp, dtls, bState, host, apn>>
    BY <1>5 DEF linkVars, cloudOnly, pdpOnly, addrVars
  <2>2. QueueOK'
    BY <1>1, <2>1, RequestsKept
  <2> QED
    BY <1>1, <2>1, <2>2, ElsewhereLinkInv
<1> QED
  BY <1>2, <1>3, <1>4, <1>5

LEMMA LinkInitInv == ASSUME LinkInit PROVE IInv /\ LinkInv
<1>1. IInv
  BY InitIInv DEF LinkInit
<1>2. CallOK /\ TaskOK
  BY DEF LinkInit, Init, Cloud!Init, CallOK, TaskOK
<1>3. QueueOK /\ Busy
  BY DEF LinkInit, Init, EmptyTable, EmptySession, QueueOK, NoOrphanRequest, Busy
<1> QED
  BY <1>1, <1>2, <1>3 DEF LinkInv

LEMMA LinkNextInv ==
    ASSUME IInv, LinkInv, [LinkNext]_linkVars
    PROVE  IInv' /\ LinkInv'
<1>1. TypeOK
  BY DEF IInv
<1>2. IInv'
  BY <1>1, PdpStep, NextIInv
<1>3. LinkInv'
  BY <1>1, ConnectLinkInv, CloudStepLinkInv, CallStepLinkInv, NothingToCloseLinkInv,
     OthersLinkInv DEF LinkNext
<1> QED
  BY <1>2, <1>3

(***************************************************************************)
(* The theorems about the link                                             *)
(***************************************************************************)

\* The invariant of the link: the session layer's own, the calls and the
\* positions they belong to, and the queue against the requests.
THEOREM LinkSpecInv == LinkSpec => [](IInv /\ LinkInv)
BY LinkInitInv, LinkNextInv, PTL DEF LinkSpec

\* The cloud task's calls keep to the protocol that the session layer assumes
\* of its client: the link implements the session layer's specification.
THEOREM LinkImplementsPdp == LinkSpec => PdpSpec
<1>1. LinkInit => Init
  BY DEF LinkInit
<1>2. IInv /\ LinkInv /\ [LinkNext]_linkVars => [Next]_pdpVars
  BY PdpStep DEF IInv
<1> QED
  BY <1>1, <1>2, LinkSpecInv, PTL DEF LinkSpec, PdpSpec, Spec

\* What the session layer returns, and when it calls back, is what the cloud
\* task expects: the link implements the cloud task's specification.
THEOREM LinkImplementsCloud == LinkSpec => CloudSpec
<1>1. LinkInit => Cloud!Init
  BY DEF LinkInit
<1>2. /\ IInv /\ LinkInv
      /\ IInv' /\ LinkInv'
      /\ [LinkNext]_linkVars
      => [Cloud!Next]_Cloud!cloudVars
  BY CloudRefined DEF IInv
<1> QED
  BY <1>1, <1>2, LinkSpecInv, PTL DEF LinkSpec, CloudSpec, Cloud!Spec

\* No entry waits for a request that is not queued: request_session marks the
\* entry before xQueueSend, but the cloud task never finds the queue full.
THEOREM LinkNoOrphanRequest == LinkSpec => []NoOrphanRequest
<1>1. LinkInv => NoOrphanRequest
  BY DEF LinkInv, QueueOK
<1> QED
  BY <1>1, LinkSpecInv, PTL

\* The modem task closes only sessions that a close was requested for, although
\* it takes every request that is not CREATE for one.
THEOREM LinkStopsWhatWasClosed == LinkSpec => []StopsWhatWasClosed
<1>1. ASSUME IInv, LinkInv PROVE StopsWhatWasClosed
  <2> SUFFICES ASSUME mpc = "stop" PROVE sessions[Current].req = "CLOSE"
    BY DEF StopsWhatWasClosed
  <2>1. TypeOK /\ queue # <<>> /\ sessions[Current].req # "CREATE"
    BY <1>1 DEF IInv, ServedEntryStays
  <2>2. Current \in Slots /\ Current = queue[1] /\ 1 \in 1..Len(queue)
    BY <2>1, PopType DEF TypeOK, Current
  <2>3. sessions[Current].req # "NONE"
    BY <1>1, <2>2 DEF LinkInv, QueueOK
  <2>4. sessions[Current].req \in Requests
    BY <2>1, <2>2 DEF TypeOK, Session
  <2> QED
    BY <2>1, <2>3, <2>4 DEF Requests
<1> QED
  BY <1>1, LinkSpecInv, PTL

\* The session in use is settled: no request of an earlier attempt is left that
\* could open it again or close it under the task.
THEOREM LinkSettledWhenReady == LinkSpec => []SettledWhenReady
<1>1. ASSUME IInv, LinkInv PROVE SettledWhenReady
  <2> SUFFICES ASSUME udp = "ready", at \notin Closing
               PROVE  \A s \in Slots : sessions[s].req = "NONE"
    BY DEF SettledWhenReady
  <2>1. sid > 0 /\ at # "request"
    BY <1>1 DEF LinkInv, TaskOK
  <2>2. queue = <<>>
    BY <1>1, <2>1 DEF LinkInv, Busy, Released
  <2> QED
    BY <1>1, <2>2 DEF LinkInv, QueueOK, NoOrphanRequest
<1> QED
  BY <1>1, LinkSpecInv, PTL
=============================================================================
