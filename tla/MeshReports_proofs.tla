-------------------------- MODULE MeshReports_proofs --------------------------
(***************************************************************************)
(* Proofs about MeshReports, for every number of parents, entries, reports *)
(* and segments, and every bound: the entries and the queue of a parent,   *)
(* the types, and what has become of a report that has left the log.       *)
(***************************************************************************)
EXTENDS MeshReports, WellFoundedInduction, FiniteSetTheorems, TLAPS

(***************************************************************************)
(* Queues of pointers                                                      *)
(***************************************************************************)

Elements(q) == {q[i] : i \in 1..Len(q)}

Distinct(q) == \A i, j \in 1..Len(q) : q[i] = q[j] => i = j

\* xQueueSend of a pointer that is not queued.
LEMMA AppendDistinct ==
    ASSUME NEW q \in Seq(Slots), Distinct(q),
           NEW e \in Slots, e \notin Elements(q)
    PROVE  /\ Append(q, e) \in Seq(Slots) /\ Append(q, e) # <<>>
           /\ q # <<>> => Head(Append(q, e)) = Head(q)
           /\ Distinct(Append(q, e))
           /\ Elements(Append(q, e)) = Elements(q) \union {e}
<1> DEFINE r == Append(q, e)
<1>1. /\ r \in Seq(Slots) /\ Len(q) \in Nat
      /\ Len(r) = Len(q) + 1 /\ r # <<>>
      /\ q # <<>> => Head(r) = Head(q)
      /\ r[Len(q) + 1] = e
      /\ \A k \in 1..Len(q) : r[k] = q[k]
  OBVIOUS
<1> HIDE DEF r
<1>2. 1..Len(r) = (1..Len(q)) \union {Len(q) + 1}
  BY <1>1
<1>3. \A k \in 1..Len(q) : q[k] # e
  BY DEF Elements
<1>4. Distinct(r)
  <2> SUFFICES ASSUME NEW i \in 1..Len(r), NEW j \in 1..Len(r), r[i] = r[j]
               PROVE  i = j
    BY DEF Distinct
  <2>1. CASE i \in 1..Len(q) /\ j \in 1..Len(q)
    BY <2>1, <1>1 DEF Distinct
  <2>2. CASE i \in 1..Len(q) /\ j = Len(q) + 1
    BY <2>2, <1>1, <1>3
  <2>3. CASE i = Len(q) + 1 /\ j \in 1..Len(q)
    BY <2>3, <1>1, <1>3
  <2> QED
    BY <2>1, <2>2, <2>3, <1>2
<1>5. Elements(r) = Elements(q) \union {e}
  BY <1>1, <1>2 DEF Elements
<1> QED
  BY <1>1, <1>4, <1>5 DEF r

\* xQueueReceive takes out the head, and nothing else.
LEMMA TailDistinct ==
    ASSUME NEW q \in Seq(Slots), Distinct(q), q # <<>>
    PROVE  /\ Tail(q) \in Seq(Slots)
           /\ Head(q) \in Slots /\ Head(q) \in Elements(q)
           /\ Distinct(Tail(q))
           /\ Elements(Tail(q)) = Elements(q) \ {Head(q)}
<1> DEFINE r == Tail(q)
<1>1. /\ r \in Seq(Slots) /\ Len(q) \in Nat \ {0}
      /\ Len(r) = Len(q) - 1
      /\ Head(q) = q[1] /\ q[1] \in Slots
      /\ \A k \in 1..Len(r) : r[k] = q[k + 1]
  OBVIOUS
<1> HIDE DEF r
<1>2. \A k \in 1..Len(r) : k + 1 \in 1..Len(q) /\ k + 1 # 1
  BY <1>1
<1>3. Distinct(r)
  <2> SUFFICES ASSUME NEW i \in 1..Len(r), NEW j \in 1..Len(r), r[i] = r[j]
               PROVE  i = j
    BY DEF Distinct
  <2>1. q[i + 1] = q[j + 1]
    BY <1>1
  <2>2. i + 1 = j + 1
    BY <2>1, <1>2 DEF Distinct
  <2> QED
    BY <2>2, <1>1
<1>4. \A k \in 1..Len(r) : r[k] \in Elements(q) \ {q[1]}
  <2> TAKE k \in 1..Len(r)
  <2>1. r[k] = q[k + 1] /\ k + 1 \in 1..Len(q) /\ k + 1 # 1 /\ 1 \in 1..Len(q)
    BY <1>1, <1>2
  <2>2. q[k + 1] # q[1]
    BY <2>1 DEF Distinct
  <2> QED
    BY <2>1, <2>2 DEF Elements
<1>5. \A j \in 1..Len(q) : q[j] # q[1] => q[j] \in Elements(r)
  <2> SUFFICES ASSUME NEW j \in 1..Len(q), q[j] # q[1] PROVE q[j] \in Elements(r)
    OBVIOUS
  <2>1. j # 1
    OBVIOUS
  <2>2. j - 1 \in 1..Len(r) /\ (j - 1) + 1 = j
    BY <2>1, <1>1
  <2>3. r[j - 1] = q[j]
    BY <2>2, <1>1
  <2> QED
    BY <2>2, <2>3 DEF Elements
<1>6. Elements(r) = Elements(q) \ {q[1]}
  BY <1>4, <1>5 DEF Elements
<1>7. q[1] \in Elements(q)
  BY <1>1 DEF Elements
<1> QED
  BY <1>1, <1>3, <1>6, <1>7 DEF r

\* The search for an entry stops at one of those it looks for.
LEMMA MinIsMember ==
    ASSUME NEW S \in SUBSET Slots, S # {}
    PROVE  Min(S) \in S
<1>1. S \subseteq Nat
  BY DEF Slots
<1>2. PICK s \in S : \A t \in S : ~(<<t, s>> \in OpToRel(<, Nat))
  BY <1>1, WFMin, NatLessThanWellFounded
<1>3. ASSUME NEW t \in S
      PROVE  ~(t < s)
  <2>1. t \in Nat /\ s \in Nat
    BY <1>1
  <2> QED
    BY <1>2, <2>1, Zenon DEF OpToRel
<1>4. \A t \in S : s <= t
  BY <1>1, <1>3
<1> QED
  BY <1>4 DEF Min

(***************************************************************************)
(* One parent                                                              *)
(***************************************************************************)

Entry == [child : {"none", "child", "other"}, id : Nat, idx : Nat,
          partial : BOOLEAN, segs : Seq(Nat \X Nat)]

\* A parent's queue q and entries s, its state ps and its current entry c.
ParentOK(q, s, ps, c) ==
    /\ q \in Seq(Slots) /\ s \in [Slots -> Entry]
    /\ \A x \in Slots : s[x].segs = <<>> => ~s[x].partial
    /\ Distinct(q)
    /\ Elements(q) = {x \in Slots : s[x].segs # <<>>}
    /\ ps # "IDLE" => q # <<>> /\ c = Head(q) /\ ~s[c].partial

LEMMA FreeIsEntry == Free \in Entry /\ Free.segs = <<>> /\ ~Free.partial
BY DEF Free, Entry

LEMMA HeadIsUsed ==
    ASSUME NEW q, NEW s, NEW ps, NEW c, ParentOK(q, s, ps, c), q # <<>>
    PROVE  Head(q) \in Slots /\ s[Head(q)].segs # <<>>
BY TailDistinct DEF ParentOK

\* A complete request at the head of the queue is served.
LEMMA Serves ==
    ASSUME NEW q, NEW s, NEW ps, NEW c, ParentOK(q, s, ps, c),
           q # <<>>, ~s[Head(q)].partial, NEW ps2
    PROVE  ParentOK(q, s, ps2, Head(q))
BY DEF ParentOK

\* The head of the queue is removed, and its entry cleared.
LEMMA Removes ==
    ASSUME NEW q, NEW s, NEW ps, NEW c, ParentOK(q, s, ps, c), q # <<>>
    PROVE  ParentOK(Tail(q), [s EXCEPT ![Head(q)] = Free], "IDLE", c)
<1> DEFINE h == Head(q)
           t == [s EXCEPT ![h] = Free]
<1>1. q \in Seq(Slots) /\ s \in [Slots -> Entry] /\ Distinct(q)
      /\ (\A x \in Slots : s[x].segs = <<>> => ~s[x].partial)
      /\ Elements(q) = {x \in Slots : s[x].segs # <<>>}
  BY DEF ParentOK
<1>2. /\ Tail(q) \in Seq(Slots) /\ h \in Slots /\ Distinct(Tail(q))
      /\ Elements(Tail(q)) = Elements(q) \ {h}
  BY <1>1, TailDistinct
<1> HIDE DEF h
<1>3. /\ t \in [Slots -> Entry] /\ t[h] = Free
      /\ \A x \in Slots : x # h => t[x] = s[x]
  BY <1>1, <1>2, FreeIsEntry
<1> HIDE DEF t
<1>4. \A x \in Slots : t[x].segs = <<>> => ~t[x].partial
  BY <1>1, <1>3, FreeIsEntry
<1>5. Elements(Tail(q)) = {x \in Slots : t[x].segs # <<>>}
  BY <1>1, <1>2, <1>3, FreeIsEntry
<1>6. ParentOK(Tail(q), t, "IDLE", c)
  BY <1>2, <1>3, <1>4, <1>5 DEF ParentOK
<1> QED
  BY <1>6 DEF t, h

\* A request takes a free entry, and is queued.
LEMMA Adds ==
    ASSUME NEW q, NEW s, NEW ps, NEW c, ParentOK(q, s, ps, c),
           NEW x \in Slots, s[x].segs = <<>>, NEW e \in Entry, e.segs # <<>>
    PROVE  ParentOK(Append(q, x), [s EXCEPT ![x] = e], ps, c)
<1> DEFINE t == [s EXCEPT ![x] = e]
           r == Append(q, x)
<1>1. q \in Seq(Slots) /\ s \in [Slots -> Entry] /\ Distinct(q)
      /\ (\A y \in Slots : s[y].segs = <<>> => ~s[y].partial)
      /\ Elements(q) = {y \in Slots : s[y].segs # <<>>}
      /\ (ps # "IDLE" => q # <<>> /\ c = Head(q) /\ ~s[c].partial)
  BY DEF ParentOK
<1>2. /\ r \in Seq(Slots) /\ r # <<>> /\ Distinct(r)
      /\ q # <<>> => Head(r) = Head(q)
      /\ Elements(r) = Elements(q) \union {x}
  BY <1>1, AppendDistinct
<1>3. /\ t \in [Slots -> Entry] /\ t[x] = e
      /\ \A y \in Slots : y # x => t[y] = s[y]
  BY <1>1
<1> HIDE DEF t, r
<1>4. \A y \in Slots : t[y].segs = <<>> => ~t[y].partial
  BY <1>1, <1>3
<1>5. Elements(r) = {y \in Slots : t[y].segs # <<>>}
  BY <1>1, <1>2, <1>3
<1>6. ps # "IDLE" => r # <<>> /\ c = Head(r) /\ ~t[c].partial
  BY <1>1, <1>2, <1>3, HeadIsUsed
<1>7. ParentOK(r, t, ps, c)
  BY <1>2, <1>3, <1>4, <1>5, <1>6 DEF ParentOK
<1> QED
  BY <1>7 DEF t, r

\* A continuation is added to an incomplete request, which is not served.
LEMMA Extends ==
    ASSUME NEW q, NEW s, NEW ps, NEW c, ParentOK(q, s, ps, c),
           NEW x \in Slots, s[x].partial, NEW e \in Entry, e.segs # <<>>
    PROVE  ParentOK(q, [s EXCEPT ![x] = e], ps, c)
<1> DEFINE t == [s EXCEPT ![x] = e]
<1>1. q \in Seq(Slots) /\ s \in [Slots -> Entry] /\ Distinct(q)
      /\ (\A y \in Slots : s[y].segs = <<>> => ~s[y].partial)
      /\ Elements(q) = {y \in Slots : s[y].segs # <<>>}
      /\ (ps # "IDLE" => q # <<>> /\ c = Head(q) /\ ~s[c].partial)
  BY DEF ParentOK
<1>2. /\ t \in [Slots -> Entry] /\ t[x] = e
      /\ \A y \in Slots : y # x => t[y] = s[y]
  BY <1>1
<1> HIDE DEF t
<1>3. \A y \in Slots : t[y].segs = <<>> => ~t[y].partial
  BY <1>1, <1>2
<1>4. Elements(q) = {y \in Slots : t[y].segs # <<>>}
  BY <1>1, <1>2
<1>5. ps # "IDLE" => c = Head(q) /\ ~t[c].partial
  BY <1>1, <1>2, HeadIsUsed
<1>6. ParentOK(q, t, ps, c)
  BY <1>1, <1>2, <1>3, <1>4, <1>5 DEF ParentOK
<1> QED
  BY <1>6 DEF t

(***************************************************************************)
(* The invariant                                                           *)
(***************************************************************************)

MsgOK(m) == m.id \in Nat /\ m.idx \in Nat /\ m.rep \in Nat /\ m.partial \in BOOLEAN

AirOK == \A m \in air : MsgOK(m)

ChildOK ==
    /\ rep \in Nat /\ idx \in Nat /\ id \in Nat /\ partial \in BOOLEAN
    /\ prevId \in Nat /\ counter \in Nat /\ head \in Nat

Tables ==
    /\ queue \in [Parents -> Seq(Slots)] /\ slot \in [Parents -> [Slots -> Entry]]
    /\ pst \in [Parents -> PStates] /\ cur \in [Parents -> Nat]

ReportsInv ==
    /\ ChildOK /\ AirOK /\ Tables
    /\ \A p \in Parents : ParentOK(queue[p], slot[p], pst[p], cur[p])

LEMMA InvImplies == ReportsInv => EntriesQueued
BY DEF ReportsInv, ParentOK, Elements, Distinct, EntriesQueued, FreeSlots

LEMMA InitReportsInv == Init => ReportsInv
<1> SUFFICES ASSUME Init PROVE ReportsInv
  OBVIOUS
<1>1. ChildOK /\ AirOK
  BY DEF Init, ChildOK, AirOK
<1>2. Tables
  BY FreeIsEntry DEF Init, Tables, PStates
<1>3. ASSUME NEW p \in Parents
      PROVE  ParentOK(queue[p], slot[p], pst[p], cur[p])
  <2>1. /\ queue[p] = <<>> /\ slot[p] = [x \in Slots |-> Free] /\ pst[p] = "IDLE"
    BY DEF Init
  <2>2. 1..Len(queue[p]) = {}
    BY <2>1
  <2>3. slot[p] \in [Slots -> Entry] /\ \A x \in Slots : slot[p][x] = Free
    BY <2>1, FreeIsEntry
  <2>4. Elements(queue[p]) = {} /\ {x \in Slots : slot[p][x].segs # <<>>} = {}
    BY <2>2, <2>3, FreeIsEntry DEF Elements
  <2> QED
    BY <2>1, <2>2, <2>3, <2>4, FreeIsEntry DEF ParentOK, Distinct
<1> QED
  BY <1>1, <1>2, <1>3 DEF ReportsInv

\* Messages put into the air.
LEMMA SendsOK ==
    ASSUME AirOK, NEW m, MsgOK(m), Sends(m)
    PROVE  AirOK'
BY DEF AirOK, Sends, MsgOK

LEMMA AnswersOK ==
    ASSUME AirOK, NEW m, NEW ms, \A n \in ms : MsgOK(n), Answers(m, ms)
    PROVE  AirOK'
BY DEF AirOK, Answers, MsgOK

LEMMA MsgIsOK ==
    ASSUME NEW t, NEW p, NEW n \in Nat
    PROVE  MsgOK(Msg(t, p, n))
BY DEF Msg, MsgOK

\* A step of the child, or of what is around.
LEMMA ChildStep ==
    ASSUME ReportsInv, ChildOK', AirOK', UNCHANGED <<slot, queue, pst, cur>>
    PROVE  ReportsInv'
BY DEF ReportsInv, Tables

LEMMA Updated ==
    ASSUME NEW P, NEW S, NEW f \in [P -> S], NEW p \in P, NEW v \in S
    PROVE  /\ [f EXCEPT ![p] = v] \in [P -> S]
           /\ [f EXCEPT ![p] = v][p] = v
           /\ \A r \in P \ {p} : [f EXCEPT ![p] = v][r] = f[r]
OBVIOUS

LEMMA Same ==
    ASSUME NEW P, NEW S, NEW f \in [P -> S], NEW p \in P
    PROVE  [f EXCEPT ![p] = f[p]] = f
OBVIOUS

\* A step of one parent leaves the others alone.
LEMMA ParentStep ==
    ASSUME ReportsInv, ChildOK', AirOK', NEW p \in Parents,
           NEW q, NEW s, NEW ps \in PStates, NEW c \in Nat, ParentOK(q, s, ps, c),
           queue' = [queue EXCEPT ![p] = q], slot' = [slot EXCEPT ![p] = s],
           pst' = [pst EXCEPT ![p] = ps], cur' = [cur EXCEPT ![p] = c]
    PROVE  ReportsInv'
<1>1. q \in Seq(Slots) /\ s \in [Slots -> Entry]
  BY DEF ParentOK
<1>2. Tables
  BY DEF ReportsInv
<1>3. /\ queue' \in [Parents -> Seq(Slots)] /\ queue'[p] = q
      /\ \A r \in Parents \ {p} : queue'[r] = queue[r]
  BY <1>1, <1>2, Updated DEF Tables
<1>4. /\ slot' \in [Parents -> [Slots -> Entry]] /\ slot'[p] = s
      /\ \A r \in Parents \ {p} : slot'[r] = slot[r]
  BY <1>1, <1>2, Updated DEF Tables
<1>5. /\ pst' \in [Parents -> PStates] /\ pst'[p] = ps
      /\ \A r \in Parents \ {p} : pst'[r] = pst[r]
  BY <1>2, Updated DEF Tables
<1>6. /\ cur' \in [Parents -> Nat] /\ cur'[p] = c
      /\ \A r \in Parents \ {p} : cur'[r] = cur[r]
  BY <1>2, Updated DEF Tables
<1>7. Tables'
  BY <1>3, <1>4, <1>5, <1>6 DEF Tables
<1>8. ASSUME NEW r \in Parents
      PROVE  ParentOK(queue'[r], slot'[r], pst'[r], cur'[r])
  <2>1. CASE r = p
    BY <2>1, <1>3, <1>4, <1>5, <1>6
  <2>2. CASE r # p
    BY <2>2, <1>3, <1>4, <1>5, <1>6 DEF ReportsInv
  <2> QED
    BY <2>1, <2>2
<1> QED
  BY <1>7, <1>8 DEF ReportsInv

\* What a parent does not touch.
LEMMA Untouched ==
    ASSUME ReportsInv, NEW p \in Parents
    PROVE  /\ [queue EXCEPT ![p] = queue[p]] = queue
           /\ [slot EXCEPT ![p] = slot[p]] = slot
           /\ [pst EXCEPT ![p] = pst[p]] = pst
           /\ [cur EXCEPT ![p] = cur[p]] = cur
           /\ queue[p] \in Seq(Slots) /\ slot[p] \in [Slots -> Entry]
           /\ pst[p] \in PStates /\ cur[p] \in Nat
           /\ ParentOK(queue[p], slot[p], pst[p], cur[p])
<1>1. Tables
  BY DEF ReportsInv
<1> QED
  BY <1>1, Same DEF Tables, ReportsInv

LEMMA ChildUntouched ==
    ASSUME ReportsInv, UNCHANGED childVars
    PROVE  ChildOK'
BY DEF ReportsInv, ChildOK, childVars

(***************************************************************************)
(* The child                                                               *)
(***************************************************************************)

LEMMA ChildCycleKeeps ==
    ASSUME ReportsInv, ChildCycle
    PROVE  ReportsInv'
<1> USE DEF ChildOnly, payloadVars, answerVars, countVars
<1>0. ChildOK /\ AirOK
  BY DEF ReportsInv
<1>1. UNCHANGED <<slot, queue, pst, cur>>
  BY DEF ChildCycle, Idle, NoRoute, Data, NoData, SendReq, WaitAck, WaitResp,
         RetryDelay, parentVars
<1>2. CASE Idle \/ NoRoute \/ RetryDelay
  <2>1. ChildOK' /\ AirOK'
    BY <1>0, <1>2 DEF Idle, NoRoute, RetryDelay, ChildOK, AirOK
  <2> QED
    BY <1>1, <2>1, ChildStep
<1>3. CASE Data \/ NoData
  <2>1. ChildOK' /\ AirOK'
    BY <1>0, <1>3 DEF Data, NoData, NoPayload, ChildOK, AirOK
  <2> QED
    BY <1>1, <2>1, ChildStep
<1>4. CASE SendReq
  <2>1. id' \in Nat /\ counter' \in Nat /\ partial' \in BOOLEAN
    BY <1>0, <1>4 DEF SendReq, ChildOK
  <2>2. ChildOK'
    BY <1>0, <1>4, <2>1 DEF SendReq, ChildOK
  <2>3. MsgOK(Put(parent, id', idx, partial', rep))
    BY <1>0, <2>1 DEF Put, MsgOK, ChildOK
  <2>4. AirOK'
    <3>1. CASE air' = air
      BY <1>0, <3>1 DEF AirOK
    <3>2. CASE Sends(Put(parent, id', idx, partial', rep))
      BY <1>0, <2>3, <3>2, SendsOK
    <3> QED
      BY <1>4, <3>1, <3>2 DEF SendReq
  <2> QED
    BY <1>1, <2>2, <2>4, ChildStep
<1>5. CASE WaitAck
  <2>1. UNCHANGED <<prevId, counter, air>>
    BY <1>5 DEF WaitAck
  <2>2. \/ DataSent /\ UNCHANGED partial
        \/ NoPayload /\ UNCHANGED head
        \/ UNCHANGED <<payloadVars, head>>
    BY <1>5 DEF WaitAck
  <2>3. ChildOK'
    <3>1. CASE DataSent /\ UNCHANGED partial
      BY <1>0, <2>1, <3>1 DEF DataSent, ChildOK
    <3>2. CASE NoPayload /\ UNCHANGED head
      BY <1>0, <2>1, <3>2 DEF NoPayload, ChildOK
    <3>3. CASE UNCHANGED <<payloadVars, head>>
      BY <1>0, <2>1, <3>3 DEF ChildOK
    <3> QED
      BY <2>2, <3>1, <3>2, <3>3
  <2>4. AirOK'
    BY <1>0, <2>1 DEF AirOK
  <2> QED
    BY <1>1, <2>3, <2>4, ChildStep
<1>6. CASE WaitResp
  <2>1. ChildOK'
    BY <1>0, <1>6 DEF WaitResp, DataSent, ChildOK
  <2>2. MsgOK(Msg("respack", parent, id))
    BY <1>0, MsgIsOK DEF ChildOK
  <2>3. AirOK'
    <3>1. CASE air' = air
      BY <1>0, <3>1 DEF AirOK
    <3>2. CASE Sends(Msg("respack", parent, id))
      BY <1>0, <2>2, <3>2, SendsOK
    <3> QED
      BY <1>6, <3>1, <3>2 DEF WaitResp
  <2> QED
    BY <1>1, <2>1, <2>3, ChildStep
<1> QED
  BY <1>2, <1>3, <1>4, <1>5, <1>6 DEF ChildCycle

LEMMA ChildReceivesKeeps ==
    ASSUME ReportsInv, NEW m \in air, ReportAck(m) \/ ServerResponse(m)
    PROVE  ReportsInv'
<1> USE DEF ChildOnly, payloadVars, answerVars, countVars
<1>1. UNCHANGED <<slot, queue, pst, cur>>
  BY DEF ReportAck, ServerResponse, parentVars
<1>2. ChildOK'
  BY DEF ReportAck, ServerResponse, ReportsInv, ChildOK
<1>3. \A n \in {Msg("respack", parent, prevId)} : MsgOK(n)
  BY MsgIsOK DEF ReportsInv, ChildOK
<1>4. \/ Answers(m, {})
      \/ Answers(m, {Msg("respack", parent, prevId)})
  BY DEF ReportAck, ServerResponse
<1>5. AirOK'
  BY <1>3, <1>4, AnswersOK DEF ReportsInv
<1> QED
  BY <1>1, <1>2, <1>5, ChildStep

LEMMA AroundKeeps ==
    ASSUME ReportsInv,
           \/ \E p \in Parents : Synced(p)
           \/ Recheck \/ Reinit \/ Restart
           \/ \E m \in air : Lose(m)
    PROVE  ReportsInv'
<1> USE DEF payloadVars, answerVars, countVars
<1>1. UNCHANGED <<slot, queue, pst, cur>> /\ air' \subseteq air
  BY DEF Synced, Recheck, Reinit, Restart, Lose, parentVars
<1>2. AirOK'
  BY <1>1 DEF ReportsInv, AirOK
<1>3. ChildOK'
  <2>1. CASE \/ \E p \in Parents : Synced(p)
             \/ Recheck
             \/ \E m \in air : Lose(m)
    BY <2>1 DEF Synced, Recheck, Lose, childVars, ReportsInv, ChildOK
  <2>2. CASE Reinit
    BY <2>2 DEF Reinit, NoPayload, ReportsInv, ChildOK
  <2>3. CASE Restart
    BY <2>3 DEF Restart, NoPayload, ReportsInv, ChildOK
  <2> QED
    BY <2>1, <2>2, <2>3
<1> QED
  BY <1>1, <1>2, <1>3, ChildStep

(***************************************************************************)
(* A parent                                                                *)
(***************************************************************************)

LEMMA AppendType ==
    ASSUME NEW T, NEW q \in Seq(T), NEW e \in T
    PROVE  Append(q, e) \in Seq(T) /\ Append(q, e) # <<>>
<1>1. Append(q, e) \in Seq(T)
  OBVIOUS
<1>2. Len(q) \in Nat /\ Len(Append(q, e)) = Len(q) + 1
  OBVIOUS
<1>3. Len(Append(q, e)) # 0
  BY <1>2
<1>4. Len(<<>>) = 0
  OBVIOUS
<1> QED
  BY <1>1, <1>3, <1>4

\* meshCloudHandleRequest stores a segment ...
LEMMA StoredIsEntry ==
    ASSUME NEW s \in Entry, NEW m, MsgOK(m)
    PROVE  Stored(s, m) \in Entry /\ Stored(s, m).segs # <<>>
<1>1. <<m.rep, m.idx>> \in Nat \X Nat
  BY DEF MsgOK
<1>2. s.segs \in Seq(Nat \X Nat)
  BY DEF Entry
<1>3. Append(s.segs, <<m.rep, m.idx>>) \in Seq(Nat \X Nat)
      /\ Append(s.segs, <<m.rep, m.idx>>) # <<>>
  BY <1>1, <1>2, AppendType
<1> QED
  BY <1>3 DEF Stored, Entry, MsgOK

LEMMA AcceptsKeeps ==
    ASSUME ReportsInv, NEW p \in Parents, NEW m \in air, Accepts(p, m)
    PROVE  ReportsInv'
<1>1. MsgOK(m) /\ AirOK
  BY DEF ReportsInv, AirOK
<1>2. ChildOK'
  BY ChildUntouched DEF Accepts, ParentOnly
<1>3. AirOK'
  <2>1. \A n \in {Msg("ack", p, m.id)} : MsgOK(n)
    BY <1>1, MsgIsOK DEF MsgOK
  <2>2. Answers(m, {Msg("ack", p, m.id)})
    BY DEF Accepts
  <2> QED
    BY <1>1, <2>1, <2>2, AnswersOK
<1>4. UNCHANGED <<pst, cur>>
  BY DEF Accepts, ParentOnly
<1>5. /\ pst' = [pst EXCEPT ![p] = pst[p]] /\ pst[p] \in PStates
      /\ cur' = [cur EXCEPT ![p] = cur[p]] /\ cur[p] \in Nat
  BY <1>4, Untouched
<1>6. CASE UNCHANGED <<slot, queue>>
  BY <1>2, <1>3, <1>4, <1>6, ChildStep
<1>7. CASE /\ Places(p, m) # {}
           /\ slot' = [slot EXCEPT ![p][Min(Places(p, m))] = Stored(@, m)]
           /\ queue' = IF m.idx = 0
                         THEN [queue EXCEPT ![p] = Append(@, Min(Places(p, m)))]
                         ELSE queue
  <2> DEFINE x == Min(Places(p, m))
             e == Stored(slot[p][x], m)
  <2>1. Places(p, m) \in SUBSET Slots
    BY DEF Places, FreeSlots, Continued
  <2>2. x \in Places(p, m) /\ x \in Slots
    BY <1>7, <2>1, MinIsMember
  <2> HIDE DEF x
  <2>3. slot[p][x] \in Entry
    BY <2>2, Untouched
  <2>4. e \in Entry /\ e.segs # <<>>
    BY <1>1, <2>3, StoredIsEntry
  <2> HIDE DEF e
  <2>5. slot' = [slot EXCEPT ![p] = [slot[p] EXCEPT ![x] = e]]
    BY <1>7, Untouched DEF x, e
  <2>6. CASE m.idx = 0
    <3>1. slot[p][x].segs = <<>>
      BY <2>2, <2>6 DEF Places, FreeSlots
    <3>2. ParentOK(Append(queue[p], x), [slot[p] EXCEPT ![x] = e], pst[p], cur[p])
      BY <2>2, <2>4, <3>1, Untouched, Adds
    <3>3. queue' = [queue EXCEPT ![p] = Append(queue[p], x)]
      BY <1>7, <2>6 DEF x
    <3> QED
      BY <1>2, <1>3, <1>5, <2>5, <3>2, <3>3, ParentStep
  <2>7. CASE m.idx # 0
    <3>1. slot[p][x].partial
      BY <2>2, <2>7 DEF Places, Continued
    <3>2. ParentOK(queue[p], [slot[p] EXCEPT ![x] = e], pst[p], cur[p])
      BY <2>2, <2>4, <3>1, Untouched, Extends
    <3>3. queue' = [queue EXCEPT ![p] = queue[p]]
      BY <1>7, <2>7, Untouched
    <3> QED
      BY <1>2, <1>3, <1>5, <2>5, <3>2, <3>3, ParentStep
  <2> QED
    BY <2>6, <2>7
<1> QED
  BY <1>6, <1>7 DEF Accepts

\* ... or answers that it has no room, or not at all.
LEMMA HandleRequestKeeps ==
    ASSUME ReportsInv, NEW p \in Parents, NEW m \in air, HandleRequest(p, m)
    PROVE  ReportsInv'
<1>1. CASE Accepts(p, m)
  BY <1>1, AcceptsKeeps
<1>2. CASE /\ Answers(m, {Msg("nack", p, m.id)}) \/ Answers(m, {})
           /\ UNCHANGED <<slot, queue>> /\ ParentOnly(p)
  <2>1. ChildOK' /\ UNCHANGED <<slot, queue, pst, cur>>
    BY <1>2, ChildUntouched DEF ParentOnly
  <2>2. MsgOK(m) /\ AirOK
    BY DEF ReportsInv, AirOK
  <2>3. \A n \in {Msg("nack", p, m.id)} : MsgOK(n)
    BY <2>2, MsgIsOK DEF MsgOK
  <2>4. AirOK'
    BY <1>2, <2>2, <2>3, AnswersOK
  <2> QED
    BY <2>1, <2>4, ChildStep
<1> QED
  BY <1>1, <1>2 DEF HandleRequest

LEMMA OtherRequestKeeps ==
    ASSUME ReportsInv, NEW p \in Parents, OtherRequest(p)
    PROVE  ReportsInv'
<1> DEFINE x == Min(FreeSlots(p))
<1>1. FreeSlots(p) # {} /\ FreeSlots(p) \in SUBSET Slots
  BY DEF OtherRequest, FreeSlots
<1>2. x \in Slots /\ slot[p][x].segs = <<>>
  BY <1>1, MinIsMember DEF FreeSlots
<1>3. Other \in Entry /\ Other.segs # <<>>
  <2>1. <<0, 0>> \in Nat \X Nat
    OBVIOUS
  <2>2. <<<<0, 0>>>> \in Seq(Nat \X Nat) /\ <<<<0, 0>>>> # <<>>
    BY <2>1
  <2> QED
    BY <2>2 DEF Entry, Other
<1>4. slot' = [slot EXCEPT ![p] = [slot[p] EXCEPT ![x] = Other]]
      /\ queue' = [queue EXCEPT ![p] = Append(queue[p], x)]
      /\ UNCHANGED <<pst, cur, air, childVars>>
  BY Untouched DEF OtherRequest, ParentOnly
<1> HIDE DEF x
<1>5. ParentOK(Append(queue[p], x), [slot[p] EXCEPT ![x] = Other], pst[p], cur[p])
  BY <1>2, <1>3, Untouched, Adds
<1>6. ChildOK' /\ AirOK'
  BY <1>4, ChildUntouched DEF ReportsInv, AirOK
<1>7. /\ pst' = [pst EXCEPT ![p] = pst[p]] /\ pst[p] \in PStates
      /\ cur' = [cur EXCEPT ![p] = cur[p]] /\ cur[p] \in Nat
  BY <1>4, Untouched
<1> DEFINE q == Append(queue[p], x)
           s == [slot[p] EXCEPT ![x] = Other]
<1>8. slot' = [slot EXCEPT ![p] = s] /\ queue' = [queue EXCEPT ![p] = q]
  BY <1>4
<1>9. ParentOK(q, s, pst[p], cur[p])
  BY <1>5
<1> HIDE DEF q, s
<1> QED
  BY <1>6, <1>7, <1>8, <1>9, ParentStep

\* The request being served is done with, or the head is discarded.
LEMMA RequestSentKeepsInv ==
    ASSUME ReportsInv, ChildOK', AirOK', NEW p \in Parents, queue[p] # <<>>,
           queue' = [queue EXCEPT ![p] = Tail(@)],
           slot' = [slot EXCEPT ![p][Head(queue[p])] = Free],
           pst' = [pst EXCEPT ![p] = "IDLE"], cur' = cur
    PROVE  ReportsInv'
<1> DEFINE q == Tail(queue[p])
           s == [slot[p] EXCEPT ![Head(queue[p])] = Free]
           c == cur[p]
<1>1. ParentOK(q, s, "IDLE", c)
  BY Untouched, Removes
<1>2. queue' = [queue EXCEPT ![p] = q] /\ slot' = [slot EXCEPT ![p] = s]
  BY Untouched
<1>3. cur' = [cur EXCEPT ![p] = c] /\ c \in Nat /\ "IDLE" \in PStates
  BY Untouched DEF PStates
<1> HIDE DEF q, s, c
<1> QED
  BY <1>1, <1>2, <1>3, ParentStep

\* A request being served stays at the head of the queue.
LEMMA ServedStays ==
    ASSUME ReportsInv, ChildOK', AirOK', NEW p \in Parents, pst[p] # "IDLE",
           NEW ps \in PStates, pst' = [pst EXCEPT ![p] = ps],
           UNCHANGED <<slot, queue, cur>>
    PROVE  ReportsInv'
<1> DEFINE q == queue[p]
           s == slot[p]
           c == cur[p]
<1>1. ParentOK(q, s, ps, c)
  BY Untouched DEF ParentOK
<1>2. queue' = [queue EXCEPT ![p] = q] /\ slot' = [slot EXCEPT ![p] = s]
  BY Untouched
<1>3. cur' = [cur EXCEPT ![p] = c] /\ c \in Nat
  BY Untouched
<1> HIDE DEF q, s, c
<1> QED
  BY <1>1, <1>2, <1>3, ParentStep

LEMMA ParentCycleKeeps ==
    ASSUME ReportsInv, NEW p \in Parents, ParentCycle(p) \/ PDiscard(p)
    PROVE  ReportsInv'
<1>1. ChildOK'
  BY ChildUntouched DEF ParentCycle, PIdle, PSendReq, PWaitResp, PWaitAck,
     PRetryDelay, PDiscard
<1>2. AirOK
  BY DEF ReportsInv
<1>3. CASE PIdle(p)
  <2>1. queue[p] # <<>> /\ ~slot[p][Head(queue[p])].partial
        /\ cur' = [cur EXCEPT ![p] = Head(queue[p])]
        /\ pst' = [pst EXCEPT ![p] = "SEND_REQ"]
        /\ UNCHANGED <<slot, queue, air>>
    BY <1>3 DEF PIdle
  <2>2. ParentOK(queue[p], slot[p], "SEND_REQ", Head(queue[p]))
    BY <2>1, Untouched, Serves
  <2>3. Head(queue[p]) \in Nat
    BY <2>1, Untouched, HeadIsUsed DEF Slots
  <2>4. AirOK'
    BY <1>2, <2>1 DEF AirOK
  <2>5. /\ queue' = [queue EXCEPT ![p] = queue[p]]
        /\ slot' = [slot EXCEPT ![p] = slot[p]]
        /\ "SEND_REQ" \in PStates
    BY <2>1, Untouched DEF PStates
  <2> QED
    BY <1>1, <2>1, <2>2, <2>3, <2>4, <2>5, ParentStep
<1>4. CASE PSendReq(p)
  <2>1. pst[p] # "IDLE" /\ UNCHANGED <<slot, queue, cur, air>>
    BY <1>4 DEF PSendReq
  <2>2. \E ps \in PStates : pst' = [pst EXCEPT ![p] = ps]
    <3>1. pst' = [pst EXCEPT ![p] = "WAIT_RESP"] \/ pst' = [pst EXCEPT ![p] = "RETRY_DELAY"]
      BY <1>4 DEF PSendReq
    <3> QED
      BY <3>1 DEF PStates
  <2>3. AirOK'
    BY <1>2, <2>1 DEF AirOK
  <2> QED
    BY <1>1, <2>1, <2>2, <2>3, ServedStays
<1>5. CASE PWaitResp(p)
  <2>1. pst[p] # "IDLE" /\ UNCHANGED <<slot, queue, cur>>
    BY <1>5 DEF PWaitResp
  <2>2. \E ps \in PStates : pst' = [pst EXCEPT ![p] = ps]
    <3>1. pst' = [pst EXCEPT ![p] = "WAIT_ACK"] \/ pst' = [pst EXCEPT ![p] = "RETRY_DELAY"]
      BY <1>5 DEF PWaitResp
    <3> QED
      BY <3>1 DEF PStates
  <2>3. AirOK'
    <3>1. CASE air' = air
      BY <1>2, <3>1 DEF AirOK
    <3>2. CASE Sends(Msg(presp[p], p, slot[p][cur[p]].id))
      <4>1. ParentOK(queue[p], slot[p], pst[p], cur[p])
        BY Untouched
      <4>2. cur[p] \in Slots /\ slot[p] \in [Slots -> Entry]
        BY <2>1, <4>1, HeadIsUsed DEF ParentOK
      <4>3. slot[p][cur[p]].id \in Nat
        BY <4>2 DEF Entry
      <4> QED
        BY <1>2, <3>2, <4>3, MsgIsOK, SendsOK
    <3> QED
      BY <1>5, <3>1, <3>2 DEF PWaitResp
  <2> QED
    BY <1>1, <2>1, <2>2, <2>3, ServedStays
<1>6. CASE PWaitAck(p) \/ PRetryDelay(p)
  <2>1. pst[p] # "IDLE" /\ UNCHANGED <<cur, air>>
    BY <1>6 DEF PWaitAck, PRetryDelay
  <2>2. AirOK'
    BY <1>2, <2>1 DEF AirOK
  <2>3. CASE RequestSent(p)
    <3>1. queue[p] # <<>>
      BY <2>1, Untouched DEF ParentOK
    <3> QED
      BY <1>1, <2>1, <2>2, <2>3, <3>1, RequestSentKeepsInv DEF RequestSent
  <2>4. CASE ~RequestSent(p)
    <3>1. UNCHANGED <<slot, queue>>
      BY <1>6, <2>4 DEF PWaitAck, PRetryDelay
    <3>2. \E ps \in PStates : pst' = [pst EXCEPT ![p] = ps]
      <4>1. pst' = [pst EXCEPT ![p] = "WAIT_RESP"] \/ pst' = [pst EXCEPT ![p] = "IDLE"]
        BY <1>6, <2>4 DEF PWaitAck, PRetryDelay
      <4> QED
        BY <4>1 DEF PStates
    <3> QED
      BY <1>1, <2>1, <2>2, <3>1, <3>2, ServedStays
  <2> QED
    BY <2>3, <2>4
<1>7. CASE PDiscard(p)
  <2>1. pst[p] = "IDLE" /\ queue[p] # <<>> /\ UNCHANGED <<pst, cur, air>>
    BY <1>7 DEF PDiscard
  <2>2. pst' = [pst EXCEPT ![p] = "IDLE"]
    BY <2>1, Untouched
  <2>3. AirOK'
    BY <1>2, <2>1 DEF AirOK
  <2> QED
    BY <1>1, <1>7, <2>1, <2>2, <2>3, RequestSentKeepsInv DEF PDiscard
<1> QED
  BY <1>3, <1>4, <1>5, <1>6, <1>7 DEF ParentCycle

\* The steps that concern neither the entries nor the queue.
LEMMA ParentAroundKeeps ==
    ASSUME ReportsInv, NEW p \in Parents,
           \/ \E m \in air : ResponseAck(p, m)
           \/ OtherAck(p)
           \/ \E r \in Responses : ServerAnswers(p, r)
    PROVE  ReportsInv'
<1>1. UNCHANGED <<slot, queue, pst, cur, childVars>> /\ air' \subseteq air
  BY DEF ResponseAck, OtherAck, ServerAnswers, Answers
<1>2. ChildOK' /\ AirOK'
  BY <1>1, ChildUntouched DEF ReportsInv, AirOK
<1> QED
  BY <1>1, <1>2, ChildStep

(***************************************************************************)
(* The theorem                                                             *)
(***************************************************************************)

LEMMA NextReportsInv == ReportsInv /\ [Next]_vars => ReportsInv'
<1> SUFFICES ASSUME ReportsInv, [Next]_vars PROVE ReportsInv'
  OBVIOUS
<1>1. CASE ChildCycle
  BY <1>1, ChildCycleKeeps
<1>2. CASE ChildReceives
  BY <1>2, ChildReceivesKeeps DEF ChildReceives
<1>3. ASSUME NEW p \in Parents, ParentReceives(p)
      PROVE  ReportsInv'
  BY <1>3, HandleRequestKeeps, ParentAroundKeeps DEF ParentReceives
<1>4. ASSUME NEW p \in Parents,
             ParentCycle(p) \/ PDiscard(p) \/ OtherRequest(p) \/ OtherAck(p)
             \/ \E r \in Responses : ServerAnswers(p, r)
      PROVE  ReportsInv'
  BY <1>4, ParentCycleKeeps, OtherRequestKeeps, ParentAroundKeeps
<1>5. CASE \/ \E p \in Parents : Synced(p)
           \/ Recheck \/ Reinit \/ Restart
           \/ \E m \in air : Lose(m)
  BY <1>5, AroundKeeps
<1>6. CASE UNCHANGED vars
  <2>1. UNCHANGED <<slot, queue, pst, cur, childVars, air>>
    BY <1>6 DEF vars, childVars
  <2>2. ChildOK' /\ AirOK'
    BY <2>1, ChildUntouched DEF ReportsInv, AirOK
  <2> QED
    BY <2>1, <2>2, ChildStep
<1> QED
  BY <1>1, <1>2, <1>3, <1>4, <1>5, <1>6 DEF Next

\* A parent's entries are in use exactly while they are queued, each once,
\* and the one being served is the head of the queue and complete, whatever
\* children ask and whatever is lost, late or repeated.
THEOREM SpecEntriesQueued == Spec => []EntriesQueued
<1>1. Init => ReportsInv
  BY InitReportsInv
<1>2. ReportsInv /\ [Next]_vars => ReportsInv'
  BY NextReportsInv
<1>3. ReportsInv => EntriesQueued
  BY InvImplies
<1> QED
  BY <1>1, <1>2, <1>3, PTL DEF Spec

(***************************************************************************)
(* Types                                                                   *)
(***************************************************************************)

\* What the child is about: the report at the head of the log.  A message
\* id stands for a segment of it, and whoever waits has one.
InOrder(i, more) == i \in 0..(Segments - 1) /\ more = (i < Segments - 1)

PayloadInv ==
    /\ rep # 0 => rep = head
    /\ id # 0 => rep # 0 /\ InOrder(idx, partial)
    /\ st = "SEND_REQ" => rep # 0
    /\ st \in {"WAIT_ACK", "WAIT_RESP"} => id # 0

ControlType ==
    /\ phase \in {"SYNC", "CLOUD"} /\ forced \in BOOLEAN
    /\ parent \in Parents \union {NoParent}
    /\ st \in States /\ restarts \in Nat

PayloadType ==
    /\ rep \in 0..Reports /\ idx \in 0..(Segments - 1)
    /\ id \in 0..MaxId /\ partial \in BOOLEAN
    /\ head \in 1..(Reports + 1) /\ given \subseteq 1..Reports

CountType ==
    /\ acked \in BOOLEAN /\ ackOk \in BOOLEAN /\ resp \in {"none"} \union Responses
    /\ errors \in 0..(MaxRespErrors - 1) /\ retries \in 0..(SyncRetries + 1)
    /\ prevId \in 0..MaxId /\ counter \in 0..MaxId

ChildType == ControlType /\ PayloadType /\ CountType

\* A response is forwarded at most once more than FwdRetries, and the count
\* is above FwdRetries only until the acknowledgement is looked for.
ParentType ==
    /\ cur \in [Parents -> 0..QueueSize] /\ asked \in [Parents -> BOOLEAN]
    /\ presp \in [Parents -> {"none"} \union Responses]
    /\ fwd \in [Parents -> 0..(FwdRetries + 1)] /\ packed \in [Parents -> BOOLEAN]
    /\ pretries \in [Parents -> 0..(CloudRetries - 1)]
    /\ \A p \in Parents : pst[p] # "WAIT_ACK" => fwd[p] <= FwdRetries

\* Requests and responses have a message id.
HasId(m) ==
    /\ m.type = "put" => m.id # 0
    /\ m.type \in {"ok", "error"} => m.id # 0 /\ m.type \in Responses

AirType ==
    /\ IsFiniteSet(air) /\ Cardinality(air) <= MaxAir
    /\ \A m \in air : HasId(m)

SlotType ==
    \A p \in Parents : \A x \in Slots : slot[p][x].child = "child" => slot[p][x].id # 0

TypeInv == ChildType /\ PayloadInv /\ ParentType /\ AirType /\ SlotType

\* Messages put into the air stay within its bound.
LEMMA SendsType ==
    ASSUME AirType, NEW m, HasId(m), Sends(m)
    PROVE  AirType'
<1>1. IsFiniteSet(air) /\ Cardinality(air) \in Nat /\ MaxAir \in Nat
  BY FS_CardinalityType, ReportsAssumption DEF AirType
<1>2. /\ IsFiniteSet(air \union {m})
      /\ Cardinality(air \union {m}) <= Cardinality(air) + 1
  BY <1>1, FS_AddElement
<1>3. Cardinality(air \union {m}) \in Nat
  BY <1>2, FS_CardinalityType
<1>4. IsFiniteSet(air') /\ Cardinality(air') <= MaxAir
  BY <1>1, <1>2, <1>3 DEF Sends, AirType
<1> QED
  BY <1>4 DEF AirType, Sends

\* An answer takes the place of what it answers.
LEMMA AnswersType ==
    ASSUME AirType, NEW m \in air, NEW ms, NEW n, HasId(n),
           ms = {} \/ ms = {n}, Answers(m, ms)
    PROVE  AirType'
<1> DEFINE rest == air \ {m}
<1>1. IsFiniteSet(air) /\ Cardinality(air) \in Nat /\ MaxAir \in Nat
  BY FS_CardinalityType, ReportsAssumption DEF AirType
<1>2. IsFiniteSet(rest) /\ Cardinality(rest) = Cardinality(air) - 1
  BY <1>1, FS_RemoveElement
<1>3. /\ IsFiniteSet(rest \union {n})
      /\ Cardinality(rest \union {n}) <= Cardinality(rest) + 1
      /\ Cardinality(rest \union {n}) \in Nat
  <2>1. Cardinality(rest) \in Nat
    BY <1>2, FS_CardinalityType
  <2>2. IsFiniteSet(rest \union {n})
    BY <1>2, FS_AddElement
  <2>3. Cardinality(rest \union {n}) \in Nat
    BY <2>2, FS_CardinalityType
  <2> QED
    BY <1>2, <2>1, <2>2, <2>3, FS_AddElement
<1>4. air' = rest \/ air' = rest \union {n}
  <2>1. air' = rest \union ms
    BY DEF Answers
  <2> HIDE DEF rest
  <2> QED
    BY <2>1
<1>5. IsFiniteSet(air') /\ Cardinality(air') <= MaxAir
  BY <1>1, <1>2, <1>3, <1>4 DEF AirType
<1>6. \A k \in air' : k \in air \/ k = n
  BY <1>4
<1> HIDE DEF rest
<1> QED
  BY <1>5, <1>6 DEF AirType

LEMMA AirUnchanged ==
    ASSUME AirType, air' = air
    PROVE  AirType'
BY DEF AirType

LEMMA OtherMsgHasId ==
    ASSUME NEW t \in {"ack", "nack", "respack"}, NEW p, NEW n
    PROVE  HasId(Msg(t, p, n))
BY DEF HasId, Msg

\* The payload is kept, and nobody waits for it.
LEMMA PayloadKept ==
    ASSUME PayloadType, PayloadInv, UNCHANGED <<rep, idx, id, partial, head, given>>,
           st' \notin {"SEND_REQ", "WAIT_ACK", "WAIT_RESP"}
    PROVE  PayloadType' /\ PayloadInv'
BY DEF PayloadType, PayloadInv, InOrder

\* The payload is dropped.
LEMMA PayloadDropped ==
    ASSUME PayloadType, NoPayload, UNCHANGED <<head, given>>,
           st' \notin {"SEND_REQ", "WAIT_ACK", "WAIT_RESP"}
    PROVE  PayloadType' /\ PayloadInv'
<1>1. Segments \in 1..4 /\ Reports \in Nat /\ MaxId \in Nat
  BY ReportsAssumption
<1>2. rep' = 0 /\ idx' = 0 /\ id' = 0
  BY DEF NoPayload
<1>3. partial' \in BOOLEAN
  BY Zenon DEF NoPayload
<1>4. PayloadType'
  BY <1>1, <1>2, <1>3 DEF PayloadType
<1> QED
  BY <1>2, <1>4 DEF PayloadInv

\* A segment has got where it should: the next one, or the next report.
LEMMA DataSentType ==
    ASSUME PayloadType, PayloadInv, id # 0, DataSent, partial' = partial,
           given' \subseteq given \union {rep}
    PROVE  PayloadType' /\ PayloadInv'
<1>1. Segments \in 1..4 /\ Reports \in Nat /\ MaxId \in Nat
  BY ReportsAssumption
<1>2. InOrder(idx, partial) /\ rep = head /\ rep \in 1..Reports
  BY <1>1 DEF PayloadType, PayloadInv
<1>3. id' = 0 /\ st' = "IDLE"
  BY DEF DataSent
<1>4. given' \subseteq 1..Reports
  BY <1>2 DEF PayloadType
<1>5. CASE partial
  <2>1. idx' = idx + 1 /\ UNCHANGED <<rep, head>>
    BY <1>5 DEF DataSent
  <2>2. idx < Segments - 1
    BY <1>2, <1>5 DEF InOrder
  <2>3. idx' \in 0..(Segments - 1)
    BY <1>1, <2>1, <2>2 DEF PayloadType
  <2> QED
    BY <1>1, <1>2, <1>3, <1>4, <2>1, <2>3 DEF PayloadType, PayloadInv
<1>6. CASE ~partial
  <2>1. rep' = 0 /\ head' \in 1..(Reports + 1) /\ idx' = idx
    BY <1>1, <1>2, <1>6 DEF DataSent
  <2> QED
    BY <1>1, <1>3, <1>4, <2>1 DEF PayloadType, PayloadInv
<1> QED
  BY <1>5, <1>6

\* What a state of the child means for its payload.
LEMMA WaitsForReport ==
    ASSUME PayloadType, PayloadInv, st \in {"WAIT_ACK", "WAIT_RESP"}
    PROVE  id # 0 /\ rep # 0 /\ rep = head /\ InOrder(idx, partial)
BY DEF PayloadInv

LEMMA SendReqPayload ==
    ASSUME PayloadType, PayloadInv, CountType, SendReq
    PROVE  /\ PayloadType' /\ PayloadInv'
           /\ counter' \in 0..MaxId
           /\ \/ air' = air
              \/ /\ id' # 0 /\ InOrder(idx, partial')
                 /\ Sends(Put(parent, id', idx, partial', rep))
<1>1. Segments \in 1..4 /\ Reports \in Nat /\ MaxId \in Nat
  BY ReportsAssumption
<1>2. rep # 0 /\ rep = head /\ UNCHANGED <<rep, idx, head, given>>
      /\ partial' = (idx < Segments - 1)
  BY DEF SendReq, PayloadInv
<1>3. InOrder(idx, partial')
  BY <1>2 DEF InOrder, PayloadType
<1>4. CASE id' = 0 /\ st' = "RETRY_DELAY" /\ UNCHANGED <<counter, air>>
  BY <1>1, <1>2, <1>4 DEF PayloadType, PayloadInv, CountType
<1>5. CASE /\ id # 0 \/ counter < MaxId
           /\ counter' = IF id = 0 THEN counter + 1 ELSE counter
           /\ id' = IF id = 0 THEN counter' ELSE id
           /\ Sends(Put(parent, id', idx, partial', rep))
           /\ st' = "WAIT_ACK"
  <2>1. id' \in 1..MaxId /\ counter' \in 0..MaxId
    BY <1>1, <1>5 DEF PayloadType, CountType
  <2>2. PayloadType'
    BY <1>2, <2>1 DEF PayloadType
  <2>3. PayloadInv'
    BY <1>2, <1>3, <1>5, <2>1 DEF PayloadInv
  <2> QED
    BY <1>3, <1>5, <2>1, <2>2, <2>3
<1> QED
  BY <1>4, <1>5 DEF SendReq

LEMMA DataPayload ==
    ASSUME PayloadType, PayloadInv, Data
    PROVE  PayloadType' /\ PayloadInv'
<1>1. Segments \in 1..4 /\ Reports \in Nat /\ MaxId \in Nat
  BY ReportsAssumption
<1>2. st' = "SEND_REQ" /\ UNCHANGED <<head, given>>
  BY DEF Data
<1>3. CASE rep # 0 /\ UNCHANGED payloadVars
  BY <1>2, <1>3 DEF payloadVars, PayloadType, PayloadInv, InOrder
<1>4. CASE /\ rep = 0 /\ head <= Reports
           /\ rep' = head /\ idx' = 0 /\ id' = 0 /\ partial' = FALSE
  <2>1. rep' \in 1..Reports /\ rep' = head' /\ idx' = 0 /\ id' = 0
    BY <1>1, <1>2, <1>4 DEF PayloadType
  <2>2. partial' \in BOOLEAN
    BY <1>4, Zenon
  <2>3. PayloadType'
    BY <1>1, <1>2, <2>1, <2>2 DEF PayloadType
  <2> QED
    BY <1>2, <2>1, <2>3 DEF PayloadInv
<1> QED
  BY <1>3, <1>4 DEF Data

\* The child's payload through its own steps.
LEMMA CyclePayload ==
    ASSUME PayloadType, PayloadInv, CountType, ChildCycle
    PROVE  PayloadType' /\ PayloadInv'
<1>1. CASE Idle \/ NoRoute \/ RetryDelay
  <2>1. /\ UNCHANGED <<rep, idx, id, partial, head, given>>
        /\ st' \notin {"SEND_REQ", "WAIT_ACK", "WAIT_RESP"}
    BY <1>1 DEF Idle, NoRoute, RetryDelay, payloadVars
  <2> QED
    BY <2>1, PayloadKept
<1>2. CASE Data
  BY <1>2, DataPayload
<1>3. CASE NoData
  BY <1>3, PayloadDropped DEF NoData
<1>4. CASE SendReq
  BY <1>4, SendReqPayload
<1>5. CASE WaitAck
  <2>1. id # 0 /\ rep \in Nat
    BY <1>5, WaitsForReport, ReportsAssumption DEF WaitAck, PayloadType
  <2>2. CASE partial /\ DataSent /\ UNCHANGED partial
    BY <1>5, <2>1, <2>2, DataSentType DEF WaitAck
  <2>3. CASE st' = "WAIT_RESP" /\ UNCHANGED <<payloadVars, head>>
    BY <1>5, <2>1, <2>3 DEF WaitAck, payloadVars, PayloadType, PayloadInv, InOrder
  <2>4. CASE NoPayload /\ st' = "RETRY_DELAY" /\ UNCHANGED head
    BY <1>5, <2>4, PayloadDropped DEF WaitAck
  <2>5. CASE st' = "RETRY_DELAY" /\ UNCHANGED <<payloadVars, head>>
    BY <1>5, <2>5, PayloadKept DEF WaitAck, payloadVars
  <2> QED
    BY <1>5, <2>2, <2>3, <2>4, <2>5 DEF WaitAck
<1>6. CASE WaitResp
  <2>1. id # 0
    BY <1>6, WaitsForReport DEF WaitResp
  <2>2. CASE DataSent /\ UNCHANGED partial /\ given' \subseteq given \union {rep}
    BY <2>1, <2>2, DataSentType
  <2>3. CASE st' = "RETRY_DELAY" /\ UNCHANGED <<payloadVars, head, given>>
    BY <2>3, PayloadKept DEF payloadVars
  <2> QED
    BY <1>6, <2>2, <2>3 DEF WaitResp
<1> QED
  BY <1>1, <1>2, <1>3, <1>4, <1>5, <1>6 DEF ChildCycle

\* Its state machine and its counts.
LEMMA CycleCounts ==
    ASSUME PayloadType, PayloadInv, ControlType, CountType, ChildCycle
    PROVE  ControlType' /\ CountType'
<1> USE DEF ChildOnly, answerVars, countVars
<1>1. MaxId \in Nat /\ MaxRespErrors \in Nat \ {0} /\ SyncRetries \in Nat
  BY ReportsAssumption
<1>2. CASE Idle \/ NoRoute \/ Data \/ NoData
  BY <1>2 DEF Idle, NoRoute, Data, NoData, ControlType, CountType, States
<1>3. CASE SendReq
  <2>1. counter' \in 0..MaxId
    BY <1>3, SendReqPayload
  <2>2. UNCHANGED <<errors, retries, prevId>>
        /\ acked' = FALSE /\ ackOk' = FALSE /\ resp' = "none"
        /\ UNCHANGED <<phase, forced, parent, restarts>>
        /\ st' \in {"WAIT_ACK", "RETRY_DELAY"}
    BY <1>3 DEF SendReq
  <2>3. CountType'
    BY <2>1, <2>2 DEF CountType
  <2> QED
    BY <2>2, <2>3 DEF ControlType, States
<1>4. CASE WaitAck
  <2>1. UNCHANGED <<acked, ackOk, resp, prevId, counter, forced, parent, restarts>>
        /\ phase' \in {phase, "SYNC"}
        /\ st' \in {"IDLE", "WAIT_RESP", "RETRY_DELAY"}
        /\ errors' \in {errors, 0} /\ retries' \in {retries, 0}
    BY <1>4 DEF WaitAck, DataSent
  <2>2. CountType'
    BY <1>1, <2>1 DEF CountType
  <2> QED
    BY <2>1, <2>2 DEF ControlType, States
<1>5. CASE WaitResp
  <2>1. UNCHANGED <<acked, ackOk, resp, counter, phase, forced, parent, restarts>>
        /\ st' \in {"IDLE", "RETRY_DELAY"} /\ prevId' \in {prevId, id}
        /\ retries' \in {retries, 0}
    BY <1>5 DEF WaitResp, DataSent
  <2>2. \/ errors' = errors \/ errors' = 0
        \/ errors' = errors + 1 /\ ~(errors + 1 >= MaxRespErrors)
    BY <1>5 DEF WaitResp, DataSent, EnoughErrors
  <2>3. errors' \in 0..(MaxRespErrors - 1)
    BY <1>1, <2>2 DEF CountType
  <2>4. id \in 0..MaxId
    BY DEF PayloadType
  <2>5. CountType'
    BY <1>1, <2>1, <2>3, <2>4 DEF CountType
  <2> QED
    BY <2>1, <2>5 DEF ControlType, States
<1>6. CASE RetryDelay
  <2>1. UNCHANGED <<acked, ackOk, resp, errors, prevId, counter, forced, restarts>>
        /\ st' = "IDLE" /\ phase' \in {phase, "SYNC"} /\ parent' \in {parent, NoParent}
        /\ retries' = IF retries <= SyncRetries THEN retries + 1 ELSE retries
    BY <1>6 DEF RetryDelay
  <2>2. CountType'
    BY <1>1, <2>1 DEF CountType
  <2> QED
    BY <2>1, <2>2 DEF ControlType, States
<1> QED
  BY <1>2, <1>3, <1>4, <1>5, <1>6 DEF ChildCycle

LEMMA CycleAir ==
    ASSUME PayloadType, PayloadInv, CountType, AirType, ChildCycle
    PROVE  AirType'
<1>1. CASE SendReq
  <2>1. HasId(Put(parent, id', idx, partial', rep)) \/ air' = air
    BY <1>1, SendReqPayload DEF HasId, Put
  <2> QED
    BY <1>1, <2>1, SendReqPayload, SendsType, AirUnchanged
<1>2. CASE WaitResp
  <2>1. Sends(Msg("respack", parent, id)) \/ air' = air
    BY <1>2 DEF WaitResp
  <2> QED
    BY <2>1, AirUnchanged, OtherMsgHasId, SendsType
<1>3. CASE Idle \/ NoRoute \/ Data \/ NoData \/ WaitAck \/ RetryDelay
  <2>1. air' = air
    BY <1>3 DEF Idle, NoRoute, Data, NoData, WaitAck, RetryDelay
  <2> QED
    BY <2>1, AirUnchanged
<1> QED
  BY <1>1, <1>2, <1>3 DEF ChildCycle

LEMMA ChildParent ==
    ASSUME TypeInv, UNCHANGED parentVars
    PROVE  ParentType' /\ SlotType'
BY DEF TypeInv, ParentType, SlotType, parentVars

LEMMA ChildCycleType ==
    ASSUME TypeInv, ChildCycle
    PROVE  TypeInv'
<1>1. ParentType' /\ SlotType'
  BY ChildParent DEF ChildCycle, Idle, NoRoute, Data, NoData, SendReq, WaitAck,
     WaitResp, RetryDelay, ChildOnly
<1>2. PayloadType' /\ PayloadInv' /\ ControlType' /\ CountType' /\ AirType'
  BY CyclePayload, CycleCounts, CycleAir DEF TypeInv, ChildType
<1> QED
  BY <1>1, <1>2 DEF TypeInv, ChildType

LEMMA ChildReceivesType ==
    ASSUME TypeInv, NEW m \in air, ReportAck(m) \/ ServerResponse(m)
    PROVE  TypeInv'
<1> USE DEF ChildOnly, payloadVars, answerVars, countVars
<1>0. ChildType /\ PayloadInv /\ AirType /\ HasId(m)
  BY DEF TypeInv, AirType
<1>1. ParentType' /\ SlotType'
  BY ChildParent DEF ReportAck, ServerResponse
<1>2. ChildType' /\ PayloadInv'
  <2>0. ControlType /\ PayloadType /\ CountType
    BY <1>0 DEF ChildType
  <2>1. ControlType' /\ UNCHANGED <<rep, idx, id, partial, head, given>>
    BY <2>0 DEF ReportAck, ServerResponse, ControlType, States
  <2>2. CountType'
    BY <1>0, <2>0 DEF ReportAck, ServerResponse, HasId, CountType
  <2>3. /\ st' = "SEND_REQ" => st = "SEND_REQ"
        /\ st' \in {"WAIT_ACK", "WAIT_RESP"} => st = st' \/ id # 0
    BY <1>0 DEF ReportAck, ServerResponse, Current, HasId
  <2>4. PayloadType' /\ PayloadInv'
    BY <1>0, <2>0, <2>1, <2>3 DEF PayloadType, PayloadInv, InOrder
  <2> QED
    BY <2>1, <2>2, <2>4 DEF ChildType
<1>3. HasId(Msg("respack", parent, prevId))
  BY OtherMsgHasId
<1>4. Answers(m, {}) \/ Answers(m, {Msg("respack", parent, prevId)})
  BY DEF ReportAck, ServerResponse
<1>5. AirType'
  BY <1>0, <1>3, <1>4, AnswersType
<1> QED
  BY <1>1, <1>2, <1>5 DEF TypeInv

LEMMA AroundType ==
    ASSUME TypeInv,
           \/ \E p \in Parents : Synced(p)
           \/ Recheck \/ Reinit \/ Restart
           \/ \E m \in air : Lose(m)
    PROVE  TypeInv'
<1> USE DEF payloadVars, answerVars, countVars
<1>0. ControlType /\ PayloadType /\ CountType /\ PayloadInv /\ AirType
  BY DEF TypeInv, ChildType
<1>1. ParentType' /\ SlotType'
  BY ChildParent DEF Synced, Recheck, Reinit, Restart, Lose
<1>2. ASSUME NEW p \in Parents, Synced(p)
      PROVE  TypeInv'
  <2>1. ControlType' /\ CountType' /\ air' = air
    BY <1>0, <1>2 DEF Synced, ControlType, CountType
  <2>2. PayloadType' /\ PayloadInv'
    BY <1>0, <1>2 DEF Synced, PayloadType, PayloadInv, InOrder
  <2> QED
    BY <1>0, <1>1, <2>1, <2>2, AirUnchanged DEF TypeInv, ChildType
<1>3. CASE Recheck
  <2>1. ControlType' /\ CountType' /\ air' = air
    BY <1>0, <1>3 DEF Recheck, ControlType, CountType
  <2>2. PayloadType' /\ PayloadInv'
    BY <1>0, <1>3 DEF Recheck, PayloadType, PayloadInv, InOrder
  <2> QED
    BY <1>0, <1>1, <2>1, <2>2, AirUnchanged DEF TypeInv, ChildType
<1>4. CASE Reinit
  <2>1. ControlType' /\ air' = air
    BY <1>0, <1>4 DEF Reinit, ControlType, States
  <2>2. CountType'
    BY <1>0, <1>4 DEF Reinit, CountType
  <2>3. PayloadType' /\ PayloadInv'
    BY <1>0, <1>4, PayloadDropped DEF Reinit
  <2> QED
    BY <1>0, <1>1, <2>1, <2>2, <2>3, AirUnchanged DEF TypeInv, ChildType
<1>5. CASE Restart
  <2>1. forced' \in BOOLEAN /\ acked' \in BOOLEAN /\ ackOk' \in BOOLEAN
    BY <1>5, Zenon DEF Restart
  <2>2. /\ phase' = "SYNC" /\ parent' = NoParent /\ st' = "IDLE"
        /\ restarts' = restarts + 1 /\ air' = air /\ resp' = "none"
        /\ errors' = 0 /\ retries' = 0 /\ prevId' = 0 /\ counter' = 0
    BY <1>5 DEF Restart
  <2>3. CountType' /\ ControlType'
    BY <1>0, <2>1, <2>2, ReportsAssumption DEF CountType, ControlType, States
  <2>4. PayloadType' /\ PayloadInv'
    BY <1>0, <1>5, PayloadDropped DEF Restart
  <2> QED
    BY <1>0, <1>1, <2>2, <2>3, <2>4, AirUnchanged DEF TypeInv, ChildType
<1>6. ASSUME NEW m \in air, Lose(m)
      PROVE  TypeInv'
  <2>1. ControlType' /\ CountType'
    BY <1>0, <1>6 DEF Lose, childVars, ControlType, CountType
  <2>2. PayloadType' /\ PayloadInv'
    BY <1>0, <1>6 DEF Lose, childVars, PayloadType, PayloadInv, InOrder
  <2>3. Answers(m, {}) /\ HasId(m)
    BY <1>0, <1>6 DEF Lose, Answers, AirType
  <2>4. AirType'
    BY <1>0, <2>3, AnswersType
  <2> QED
    BY <1>1, <2>1, <2>2, <2>4 DEF TypeInv, ChildType
<1> QED
  BY <1>2, <1>3, <1>4, <1>5, <1>6

(***************************************************************************)
(* Types: the parents                                                      *)
(***************************************************************************)

LEMMA ChildKept ==
    ASSUME TypeInv, UNCHANGED childVars
    PROVE  ChildType' /\ PayloadInv'
<1>0. ControlType /\ PayloadType /\ CountType /\ PayloadInv
  BY DEF TypeInv, ChildType
<1>1. ControlType' /\ CountType'
  BY <1>0 DEF childVars, ControlType, CountType
<1>2. PayloadType' /\ PayloadInv'
  BY <1>0 DEF childVars, PayloadType, PayloadInv, InOrder
<1> QED
  BY <1>1, <1>2 DEF ChildType

LEMMA ParentKept ==
    ASSUME TypeInv, UNCHANGED <<pst, cur, asked, presp, fwd, packed, pretries>>
    PROVE  ParentType'
BY DEF TypeInv, ParentType

\* An entry is as before, free, another child's, or stored from a request.
LEMMA SlotChanges ==
    ASSUME ReportsInv, TypeInv, NEW p \in Parents, NEW x \in Slots, NEW e,
           e.child = "child" => e.id # 0,
           slot' = [slot EXCEPT ![p][x] = e]
    PROVE  SlotType'
<1>1. slot \in [Parents -> [Slots -> Entry]] /\ SlotType
  BY DEF ReportsInv, Tables, TypeInv
<1>2. SUFFICES ASSUME NEW r \in Parents, NEW y \in Slots
               PROVE  slot'[r][y] = slot[r][y] \/ slot'[r][y] = e
  BY <1>1, Zenon DEF SlotType
<1>3. CASE r = p
  <2>1. slot'[r] = [slot[p] EXCEPT ![x] = e] /\ slot[p] \in [Slots -> Entry]
    BY <1>1, <1>3
  <2> QED
    BY <1>3, <2>1
<1>4. CASE r # p
  BY <1>1, <1>4
<1> QED
  BY <1>3, <1>4

LEMMA SlotsKept ==
    ASSUME TypeInv, slot' = slot
    PROVE  SlotType'
BY DEF TypeInv, SlotType

LEMMA HandleRequestType ==
    ASSUME ReportsInv, TypeInv, NEW p \in Parents, NEW m \in air, HandleRequest(p, m)
    PROVE  TypeInv'
<1>1. ChildType' /\ PayloadInv'
  BY ChildKept DEF HandleRequest, Accepts, ParentOnly
<1>2. ParentType'
  <2>1. UNCHANGED <<pst, cur, asked, presp, fwd, packed, pretries>>
    BY DEF HandleRequest, Accepts, ParentOnly
  <2> QED
    BY <2>1, ParentKept
<1>3. AirType'
  <2>1. HasId(Msg("ack", p, m.id)) /\ HasId(Msg("nack", p, m.id))
    BY OtherMsgHasId
  <2>2. \/ Answers(m, {}) \/ Answers(m, {Msg("ack", p, m.id)})
        \/ Answers(m, {Msg("nack", p, m.id)})
    BY DEF HandleRequest, Accepts
  <2>3. AirType
    BY DEF TypeInv
  <2> QED
    BY <2>1, <2>2, <2>3, AnswersType
<1>4. SlotType'
  <2>1. CASE slot' = slot
    BY <2>1, SlotsKept
  <2>2. CASE /\ Places(p, m) # {}
             /\ slot' = [slot EXCEPT ![p][Min(Places(p, m))] = Stored(@, m)]
    <3> DEFINE x == Min(Places(p, m))
               e == Stored(slot[p][x], m)
    <3>1. Places(p, m) \in SUBSET Slots
      BY DEF Places, FreeSlots, Continued
    <3>2. x \in Slots
      BY <2>2, <3>1, MinIsMember
    <3>3. m.id # 0
      BY DEF HandleRequest, Accepts, TypeInv, AirType, HasId
    <3>4. e.child = "child" => e.id # 0
      BY <3>3 DEF Stored
    <3>5. slot \in [Parents -> [Slots -> Entry]]
      BY DEF ReportsInv, Tables
    <3>6. slot' = [slot EXCEPT ![p][x] = e]
      BY <2>2, <3>5
    <3> HIDE DEF x, e
    <3> QED
      BY <3>2, <3>4, <3>6, SlotChanges
  <2> QED
    BY <2>1, <2>2 DEF HandleRequest, Accepts
<1> QED
  BY <1>1, <1>2, <1>3, <1>4 DEF TypeInv

LEMMA OtherRequestType ==
    ASSUME ReportsInv, TypeInv, NEW p \in Parents, OtherRequest(p)
    PROVE  TypeInv'
<1>1. ChildType' /\ PayloadInv' /\ air' = air
  BY ChildKept DEF OtherRequest, ParentOnly
<1>2. ParentType'
  BY ParentKept DEF OtherRequest, ParentOnly
<1>3. SlotType'
  <2> DEFINE x == Min(FreeSlots(p))
  <2>1. x \in Slots
    <3>1. FreeSlots(p) # {} /\ FreeSlots(p) \in SUBSET Slots
      BY DEF OtherRequest, FreeSlots
    <3> QED
      BY <3>1, MinIsMember DEF FreeSlots
  <2>2. slot' = [slot EXCEPT ![p][x] = Other] /\ Other.child = "other"
    BY DEF OtherRequest, Other
  <2> HIDE DEF x
  <2> QED
    BY <2>1, <2>2, SlotChanges
<1> QED
  BY <1>1, <1>2, <1>3, AirUnchanged DEF TypeInv

\* What a step of one parent does to its own context.
LEMMA ParentTypeStep ==
    ASSUME ReportsInv, TypeInv, NEW p \in Parents, NEW s \in PStates,
           NEW f \in 0..(FwdRetries + 1), NEW n \in 0..(CloudRetries - 1),
           s # "WAIT_ACK" => f <= FwdRetries,
           pst' = [pst EXCEPT ![p] = s], fwd' = [fwd EXCEPT ![p] = f],
           pretries' = [pretries EXCEPT ![p] = n],
           cur' \in [Parents -> 0..QueueSize], asked' \in [Parents -> BOOLEAN],
           presp' \in [Parents -> {"none"} \union Responses],
           packed' \in [Parents -> BOOLEAN]
    PROVE  ParentType'
<1>1. ParentType /\ pst \in [Parents -> PStates]
  BY DEF TypeInv, ReportsInv, Tables
<1>2. fwd' \in [Parents -> 0..(FwdRetries + 1)]
      /\ pretries' \in [Parents -> 0..(CloudRetries - 1)]
  BY <1>1 DEF ParentType
<1>3. ASSUME NEW r \in Parents, pst'[r] # "WAIT_ACK"
      PROVE  fwd'[r] <= FwdRetries
  <2>1. CASE r = p
    BY <1>1, <1>3, <2>1 DEF ParentType
  <2>2. CASE r # p
    BY <1>1, <1>3, <2>2 DEF ParentType
  <2> QED
    BY <2>1, <2>2
<1> QED
  BY <1>2, <1>3 DEF ParentType

LEMMA ParentFacts ==
    ASSUME ReportsInv, TypeInv, NEW p \in Parents
    PROVE  /\ fwd[p] \in 0..(FwdRetries + 1) /\ pretries[p] \in 0..(CloudRetries - 1)
           /\ pst[p] # "WAIT_ACK" => fwd[p] <= FwdRetries
           /\ [fwd EXCEPT ![p] = fwd[p]] = fwd
           /\ [pretries EXCEPT ![p] = pretries[p]] = pretries
           /\ [pst EXCEPT ![p] = pst[p]] = pst
           /\ cur \in [Parents -> 0..QueueSize] /\ asked \in [Parents -> BOOLEAN]
           /\ presp \in [Parents -> {"none"} \union Responses]
           /\ packed \in [Parents -> BOOLEAN]
           /\ slot \in [Parents -> [Slots -> Entry]] /\ pst[p] \in PStates
<1>1. ParentType /\ pst \in [Parents -> PStates]
      /\ slot \in [Parents -> [Slots -> Entry]]
  BY DEF TypeInv, ReportsInv, Tables
<1>2. fwd \in [Parents -> 0..(FwdRetries + 1)]
      /\ pretries \in [Parents -> 0..(CloudRetries - 1)]
  BY <1>1 DEF ParentType
<1>3. /\ [fwd EXCEPT ![p] = fwd[p]] = fwd
      /\ [pretries EXCEPT ![p] = pretries[p]] = pretries
      /\ [pst EXCEPT ![p] = pst[p]] = pst
  BY <1>1, <1>2, Same
<1> QED
  BY <1>1, <1>2, <1>3 DEF ParentType

\* The request being served is done with: its entry is cleared.
LEMMA RequestSentType ==
    ASSUME ReportsInv, TypeInv, NEW p \in Parents, queue[p] # <<>>, RequestSent(p),
           UNCHANGED <<cur, asked, presp, packed>>
    PROVE  ParentType' /\ SlotType'
<1>1. FwdRetries \in Nat /\ CloudRetries \in Nat \ {0}
  BY ReportsAssumption
<1>2. ParentType'
  <2>1. 0 \in 0..(FwdRetries + 1) /\ 0 \in 0..(CloudRetries - 1) /\ 0 <= FwdRetries
        /\ "IDLE" \in PStates
    BY <1>1 DEF PStates
  <2>2. /\ pst' = [pst EXCEPT ![p] = "IDLE"] /\ fwd' = [fwd EXCEPT ![p] = 0]
        /\ pretries' = [pretries EXCEPT ![p] = 0]
    BY DEF RequestSent
  <2>3. /\ cur' \in [Parents -> 0..QueueSize] /\ asked' \in [Parents -> BOOLEAN]
        /\ presp' \in [Parents -> {"none"} \union Responses]
        /\ packed' \in [Parents -> BOOLEAN]
    BY ParentFacts
  <2> QED
    BY <2>1, <2>2, <2>3, ParentTypeStep
<1>3. Head(queue[p]) \in Slots
  BY Untouched, HeadIsUsed
<1>4. Free.child = "none"
  BY DEF Free
<1>5. SlotType'
  BY <1>3, <1>4, SlotChanges DEF RequestSent
<1> QED
  BY <1>2, <1>5

LEMMA ParentCycleType ==
    ASSUME ReportsInv, TypeInv, NEW p \in Parents, ParentCycle(p) \/ PDiscard(p)
    PROVE  TypeInv'
<1>0. AirType /\ FwdRetries \in Nat /\ CloudRetries \in Nat \ {0} /\ QueueSize \in Nat \ {0}
  BY ReportsAssumption DEF TypeInv
<1>1. ChildType' /\ PayloadInv'
  BY ChildKept DEF ParentCycle, PIdle, PSendReq, PWaitResp, PWaitAck,
     PRetryDelay, PDiscard
<1>2. CASE PIdle(p)
  <2>1. /\ pst' = [pst EXCEPT ![p] = "SEND_REQ"] /\ pst[p] = "IDLE"
        /\ cur' = [cur EXCEPT ![p] = Head(queue[p])] /\ queue[p] # <<>>
        /\ UNCHANGED <<slot, asked, presp, fwd, packed, pretries, air>>
    BY <1>2 DEF PIdle
  <2>2. Head(queue[p]) \in 0..QueueSize
    <3>1. Head(queue[p]) \in 1..QueueSize
      BY <2>1, Untouched, HeadIsUsed DEF Slots
    <3> QED
      BY <1>0, <3>1
  <2>3. cur' \in [Parents -> 0..QueueSize]
    BY <2>1, <2>2, ParentFacts
  <2>4. /\ fwd' = [fwd EXCEPT ![p] = fwd[p]] /\ fwd[p] <= FwdRetries
        /\ pretries' = [pretries EXCEPT ![p] = pretries[p]]
        /\ fwd[p] \in 0..(FwdRetries + 1) /\ pretries[p] \in 0..(CloudRetries - 1)
        /\ asked' \in [Parents -> BOOLEAN] /\ packed' \in [Parents -> BOOLEAN]
        /\ presp' \in [Parents -> {"none"} \union Responses]
    BY <2>1, ParentFacts
  <2>5. ParentType'
    <3>1. "SEND_REQ" \in PStates
      BY DEF PStates
    <3> QED
      BY <2>1, <2>3, <2>4, <3>1, ParentTypeStep
  <2> QED
    BY <1>0, <1>1, <2>1, <2>5, SlotsKept, AirUnchanged DEF TypeInv
<1>3. CASE PSendReq(p)
  <2>1. \E s \in {"WAIT_RESP", "RETRY_DELAY"} : pst' = [pst EXCEPT ![p] = s]
    BY <1>3 DEF PSendReq
  <2>2. /\ pst[p] = "SEND_REQ"
        /\ UNCHANGED <<slot, cur, fwd, pretries, air>>
        /\ presp' = [presp EXCEPT ![p] = "none"]
        /\ packed' = [packed EXCEPT ![p] = FALSE]
        /\ \E arrives \in BOOLEAN : asked' = [asked EXCEPT ![p] = arrives]
    BY <1>3 DEF PSendReq
  <2>3. /\ presp' \in [Parents -> {"none"} \union Responses]
        /\ packed' \in [Parents -> BOOLEAN]
        /\ asked' \in [Parents -> BOOLEAN]
        /\ cur' \in [Parents -> 0..QueueSize]
    BY <2>2, ParentFacts
  <2>4. /\ fwd' = [fwd EXCEPT ![p] = fwd[p]] /\ fwd[p] <= FwdRetries
        /\ pretries' = [pretries EXCEPT ![p] = pretries[p]]
    BY <2>2, ParentFacts
  <2>5. PICK s \in {"WAIT_RESP", "RETRY_DELAY"} : pst' = [pst EXCEPT ![p] = s]
    BY <2>1
  <2>6. s \in PStates
    BY DEF PStates
  <2>7. ParentType'
    BY <2>3, <2>4, <2>5, <2>6, ParentFacts, ParentTypeStep
  <2> QED
    BY <1>0, <1>1, <2>2, <2>7, SlotsKept, AirUnchanged DEF TypeInv
<1>4. CASE PWaitResp(p)
  <2>1. /\ pst[p] = "WAIT_RESP"
        /\ UNCHANGED <<slot, cur, asked, presp, packed, pretries>>
    BY <1>4 DEF PWaitResp
  <2>2. /\ pretries' = [pretries EXCEPT ![p] = pretries[p]]
        /\ cur' \in [Parents -> 0..QueueSize] /\ asked' \in [Parents -> BOOLEAN]
        /\ presp' \in [Parents -> {"none"} \union Responses]
        /\ packed' \in [Parents -> BOOLEAN]
        /\ fwd[p] \in 0..FwdRetries
    BY <1>0, <2>1, ParentFacts
  <2>3. CASE presp[p] # "none"
    <3>1. /\ fwd' = [fwd EXCEPT ![p] = fwd[p] + 1]
          /\ pst' = [pst EXCEPT ![p] = "WAIT_ACK"]
          /\ \/ air' = air
             \/ /\ slot[p][cur[p]].child = "child"
                /\ Sends(Msg(presp[p], p, slot[p][cur[p]].id))
      BY <1>4, <2>3 DEF PWaitResp
    <3>2. fwd[p] + 1 \in 0..(FwdRetries + 1)
      BY <1>0, <2>2
    <3>3. ParentType'
      BY <2>2, <3>1, <3>2, ParentFacts, ParentTypeStep DEF PStates
    <3>4. AirType'
      <4>1. CASE air' = air
        BY <1>0, <4>1, AirUnchanged
      <4>2. CASE /\ slot[p][cur[p]].child = "child"
                 /\ Sends(Msg(presp[p], p, slot[p][cur[p]].id))
        <5>1. cur[p] \in Slots
          BY <2>1, Untouched, HeadIsUsed DEF ParentOK
        <5>2. slot[p][cur[p]].id # 0
          BY <4>2, <5>1 DEF TypeInv, SlotType
        <5>3. presp[p] \in Responses
          BY <2>3, ParentFacts
        <5>4. HasId(Msg(presp[p], p, slot[p][cur[p]].id))
          BY <5>2, <5>3, ReportsAssumption DEF HasId, Msg
        <5> QED
          BY <1>0, <4>2, <5>4, SendsType
      <4> QED
        BY <3>1, <4>1, <4>2
    <3> QED
      BY <1>1, <2>1, <3>3, <3>4, SlotsKept DEF TypeInv
  <2>4. CASE presp[p] = "none"
    <3>1. UNCHANGED <<fwd, air>> /\ pst' = [pst EXCEPT ![p] = "RETRY_DELAY"]
      BY <1>4, <2>4 DEF PWaitResp
    <3>2. fwd' = [fwd EXCEPT ![p] = fwd[p]] /\ fwd[p] <= FwdRetries
      BY <1>0, <2>2, <3>1, ParentFacts
    <3>3. ParentType'
      BY <2>2, <3>1, <3>2, ParentFacts, ParentTypeStep DEF PStates
    <3> QED
      BY <1>0, <1>1, <2>1, <3>1, <3>3, SlotsKept, AirUnchanged DEF TypeInv
  <2> QED
    BY <2>3, <2>4
<1>5. CASE PWaitAck(p) \/ PRetryDelay(p)
  <2>1. UNCHANGED <<cur, asked, presp, packed, air>> /\ pst[p] # "IDLE"
    BY <1>5 DEF PWaitAck, PRetryDelay
  <2>2. CASE RequestSent(p)
    <3>1. queue[p] # <<>>
      BY <2>1, Untouched DEF ParentOK
    <3>2. ParentType' /\ SlotType'
      BY <2>1, <2>2, <3>1, RequestSentType
    <3> QED
      BY <1>0, <1>1, <2>1, <3>2, AirUnchanged DEF TypeInv
  <2>3. CASE ~RequestSent(p)
    <3>1. slot' = slot
      BY <1>5, <2>3 DEF PWaitAck, PRetryDelay
    <3>2. /\ cur' \in [Parents -> 0..QueueSize] /\ asked' \in [Parents -> BOOLEAN]
          /\ presp' \in [Parents -> {"none"} \union Responses]
          /\ packed' \in [Parents -> BOOLEAN]
      BY <2>1, ParentFacts
    <3>3. CASE PWaitAck(p)
      <4>1. /\ ~(fwd[p] > FwdRetries) /\ UNCHANGED <<fwd, pretries>>
            /\ pst' = [pst EXCEPT ![p] = "WAIT_RESP"]
        BY <2>3, <3>3 DEF PWaitAck
      <4>2. /\ fwd' = [fwd EXCEPT ![p] = fwd[p]] /\ fwd[p] <= FwdRetries
            /\ pretries' = [pretries EXCEPT ![p] = pretries[p]]
            /\ fwd[p] \in 0..(FwdRetries + 1) /\ pretries[p] \in 0..(CloudRetries - 1)
        BY <1>0, <4>1, ParentFacts
      <4>3. ParentType'
        <5>1. "WAIT_RESP" \in PStates /\ pst' = [pst EXCEPT ![p] = "WAIT_RESP"]
          BY <4>1 DEF PStates
        <5> QED
          BY <3>2, <4>2, <5>1, ParentTypeStep
      <4> QED
        BY <1>0, <1>1, <2>1, <3>1, <4>3, SlotsKept, AirUnchanged DEF TypeInv
    <3>4. CASE PRetryDelay(p)
      <4>1. /\ pst[p] = "RETRY_DELAY" /\ ~(pretries[p] + 1 >= CloudRetries)
            /\ pst' = [pst EXCEPT ![p] = "IDLE"] /\ fwd' = fwd
            /\ pretries' = [pretries EXCEPT ![p] = pretries[p] + 1]
        BY <2>3, <3>4 DEF PRetryDelay
      <4>2. pretries[p] + 1 \in 0..(CloudRetries - 1)
        BY <1>0, <4>1, ParentFacts
      <4>3. fwd' = [fwd EXCEPT ![p] = fwd[p]] /\ fwd[p] <= FwdRetries
        BY <4>1, ParentFacts
      <4>4. ParentType'
        <5>1. "IDLE" \in PStates /\ fwd[p] \in 0..(FwdRetries + 1)
          BY ParentFacts DEF PStates
        <5> QED
          BY <3>2, <4>1, <4>2, <4>3, <5>1, ParentTypeStep
      <4> QED
        BY <1>0, <1>1, <2>1, <3>1, <4>4, SlotsKept, AirUnchanged DEF TypeInv
    <3> QED
      BY <1>5, <3>3, <3>4
  <2> QED
    BY <2>2, <2>3
<1>6. CASE PDiscard(p)
  <2>1. /\ queue[p] # <<>> /\ slot' = [slot EXCEPT ![p][Head(queue[p])] = Free]
        /\ UNCHANGED <<pst, cur, asked, presp, fwd, packed, pretries, air>>
    BY <1>6 DEF PDiscard
  <2>2. Head(queue[p]) \in Slots /\ Free.child = "none"
    BY <2>1, Untouched, HeadIsUsed DEF Free
  <2>3. SlotType'
    BY <2>1, <2>2, SlotChanges
  <2> QED
    BY <1>0, <1>1, <2>1, <2>3, ParentKept, AirUnchanged DEF TypeInv
<1> QED
  BY <1>2, <1>3, <1>4, <1>5, <1>6 DEF ParentCycle

LEMMA ParentAroundType ==
    ASSUME ReportsInv, TypeInv, NEW p \in Parents,
           \/ \E m \in air : ResponseAck(p, m)
           \/ OtherAck(p)
           \/ \E r \in Responses : ServerAnswers(p, r)
    PROVE  TypeInv'
<1>0. AirType
  BY DEF TypeInv
<1>1. ChildType' /\ PayloadInv' /\ SlotType'
  BY ChildKept, SlotsKept DEF ResponseAck, OtherAck, ServerAnswers
<1>2. ASSUME NEW m \in air, ResponseAck(p, m)
      PROVE  TypeInv'
  <2> DEFINE v == /\ cur[p] # 0 /\ slot[p][cur[p]].child = "child"
                  /\ slot[p][cur[p]].id = m.id
  <2>1. packed \in [Parents -> BOOLEAN]
    BY ParentFacts
  <2>2. packed' = [packed EXCEPT ![p] = (packed[p] \/ v)]
    BY <1>2, <2>1 DEF ResponseAck
  <2>3. (packed[p] \/ v) \in BOOLEAN
    OBVIOUS
  <2> HIDE DEF v
  <2>4. packed' \in [Parents -> BOOLEAN]
    BY <2>1, <2>2, <2>3
  <2>5. UNCHANGED <<pst, cur, asked, presp, fwd, pretries>> /\ Answers(m, {})
    BY <1>2 DEF ResponseAck
  <2>6. ParentType'
    BY <2>4, <2>5 DEF TypeInv, ParentType
  <2>7. HasId(m)
    BY <1>0 DEF AirType
  <2>8. AirType'
    BY <1>0, <2>5, <2>7, AnswersType
  <2> QED
    BY <1>1, <2>6, <2>8 DEF TypeInv
<1>3. CASE OtherAck(p)
  <2>1. /\ packed' = [packed EXCEPT ![p] = TRUE]
        /\ UNCHANGED <<pst, cur, asked, presp, fwd, pretries, air>>
    BY <1>3 DEF OtherAck
  <2>2. packed' \in [Parents -> BOOLEAN]
    BY <2>1, ParentFacts
  <2>3. ParentType'
    BY <2>1, <2>2 DEF TypeInv, ParentType
  <2> QED
    BY <1>0, <1>1, <2>1, <2>3, AirUnchanged DEF TypeInv
<1>4. ASSUME NEW r \in Responses, ServerAnswers(p, r)
      PROVE  TypeInv'
  <2>1. /\ presp' = [presp EXCEPT ![p] = r]
        /\ UNCHANGED <<pst, cur, asked, fwd, packed, pretries, air>>
    BY <1>4 DEF ServerAnswers
  <2>2. presp' \in [Parents -> {"none"} \union Responses]
    BY <2>1, ParentFacts
  <2>3. ParentType'
    BY <2>1, <2>2 DEF TypeInv, ParentType
  <2> QED
    BY <1>0, <1>1, <2>1, <2>3, AirUnchanged DEF TypeInv
<1> QED
  BY <1>2, <1>3, <1>4

LEMMA InitTypeInv == Init => TypeInv
<1> SUFFICES ASSUME Init PROVE TypeInv
  OBVIOUS
<1>0. /\ Reports \in Nat /\ Segments \in 1..4 /\ QueueSize \in Nat \ {0}
      /\ SyncRetries \in Nat /\ MaxRespErrors \in Nat \ {0}
      /\ FwdRetries \in Nat /\ CloudRetries \in Nat \ {0}
      /\ MaxId \in Nat /\ MaxAir \in Nat
  BY ReportsAssumption
<1>1. ControlType
  BY DEF Init, ControlType, States
<1>2. PayloadType /\ PayloadInv
  <2>1. partial \in BOOLEAN
    BY Zenon DEF Init
  <2>2. /\ rep = 0 /\ idx = 0 /\ id = 0 /\ head = 1 /\ given = {} /\ st = "IDLE"
    BY DEF Init
  <2> QED
    BY <1>0, <2>1, <2>2 DEF PayloadType, PayloadInv
<1>3. CountType
  <2>1. acked \in BOOLEAN /\ ackOk \in BOOLEAN
    BY Zenon DEF Init
  <2>2. resp = "none" /\ errors = 0 /\ retries = 0 /\ prevId = 0 /\ counter = 0
    BY DEF Init
  <2> QED
    BY <1>0, <2>1, <2>2 DEF CountType
<1>4. ParentType
  BY <1>0 DEF Init, ParentType
<1>5. AirType
  BY <1>0, FS_EmptySet DEF Init, AirType
<1>6. SlotType
  BY DEF Init, SlotType, Free
<1> QED
  BY <1>1, <1>2, <1>3, <1>4, <1>5, <1>6 DEF TypeInv, ChildType

LEMMA NextTypeInv == ReportsInv /\ TypeInv /\ [Next]_vars => TypeInv'
<1> SUFFICES ASSUME ReportsInv, TypeInv, [Next]_vars PROVE TypeInv'
  OBVIOUS
<1>1. CASE ChildCycle
  BY <1>1, ChildCycleType
<1>2. CASE ChildReceives
  BY <1>2, ChildReceivesType DEF ChildReceives
<1>3. ASSUME NEW p \in Parents, ParentReceives(p)
      PROVE  TypeInv'
  BY <1>3, HandleRequestType, ParentAroundType DEF ParentReceives
<1>4. ASSUME NEW p \in Parents,
             ParentCycle(p) \/ PDiscard(p) \/ OtherRequest(p) \/ OtherAck(p)
             \/ \E r \in Responses : ServerAnswers(p, r)
      PROVE  TypeInv'
  BY <1>4, ParentCycleType, OtherRequestType, ParentAroundType
<1>5. CASE \/ \E p \in Parents : Synced(p)
           \/ Recheck \/ Reinit \/ Restart
           \/ \E m \in air : Lose(m)
  BY <1>5, AroundType
<1>6. CASE UNCHANGED vars
  <2>1. UNCHANGED childVars /\ air' = air /\ slot' = slot
        /\ UNCHANGED <<pst, cur, asked, presp, fwd, packed, pretries>>
    BY <1>6 DEF vars, childVars
  <2> QED
    BY <2>1, ChildKept, ParentKept, SlotsKept, AirUnchanged DEF TypeInv
<1> QED
  BY <1>1, <1>2, <1>3, <1>4, <1>5, <1>6 DEF Next

LEMMA TypesImply == ReportsInv /\ TypeInv => TypeOK
BY DEF ReportsInv, Tables, TypeInv, ChildType, ControlType, PayloadType, CountType,
   ParentType, AirType, TypeOK

\* Both sides' contexts stay within their ranges: the child's index below the
\* number of segments, its log position by one beyond the last report at
\* most, and every count within its limit, whatever is lost, late or refused
\* and however often the child starts again.
THEOREM SpecTypeOK == Spec => []TypeOK
<1>1. Init => ReportsInv /\ TypeInv
  BY InitReportsInv, InitTypeInv
<1>2. ReportsInv /\ TypeInv /\ [Next]_vars => (ReportsInv /\ TypeInv)'
  BY NextReportsInv, NextTypeInv
<1>3. ReportsInv /\ TypeInv => TypeOK
  BY TypesImply
<1> QED
  BY <1>1, <1>2, <1>3, PTL DEF Spec

(***************************************************************************)
(* No report is lost                                                       *)
(*                                                                         *)
(* A parent tells segments by their message id and by child, endpoint and  *)
(* index.  This is enough where a child has one report, or sends its       *)
(* reports in one segment and does not start over with its ids.            *)
(***************************************************************************)

IdsTell == Reports = 1 \/ (Segments = 1 /\ MaxRestarts = 0)

\* The report a message id was given for.
Owners == [Nat -> {1} \union 1..Reports]

Known(n) == n # 0 /\ (Reports = 1 \/ n <= counter)

Begun(r, n) == [k \in 1..n |-> <<r, k - 1>>]

\* A request carries a segment of its id's report, and a response to it
\* says that the server has the report.
MessageOf(o, m) ==
    /\ m.type = "put" => /\ Known(m.id) /\ InOrder(m.idx, m.partial)
                         /\ m.rep = o[m.id]
    /\ m.type \in {"ok", "error"} => Known(m.id) /\ Whole(o[m.id]) \in got

\* A child's entry holds the first segments of one report.
EntryOf(o, e) ==
    e.child = "child" => /\ Known(e.id) /\ InOrder(e.idx, e.partial)
                         /\ e.segs = Begun(o[e.id], e.idx + 1)

\* The server's answer is to the request being served.
ServedOf(p) ==
    pst[p] \notin {"IDLE", "SEND_REQ"} =>
        /\ presp[p] # "none" => asked[p]
        /\ asked[p] /\ slot[p][cur[p]].child = "child" => slot[p][cur[p]].segs \in got

PayloadOf(o) ==
    id # 0 => /\ Known(id) /\ rep = o[id]
              /\ resp # "none" => Whole(o[id]) \in got

ParentsOf(o) ==
    \A p \in Parents : ServedOf(p) /\ \A x \in Slots : EntryOf(o, slot[p][x])

LogInv(o) ==
    NoReportLost /\ PayloadOf(o) /\ (\A m \in air : MessageOf(o, m)) /\ ParentsOf(o)

\* Ids that are known keep their report.
SameOwner(o, o2) == \A n \in Nat : Known(n) => Known(n)' /\ o2[n] = o[n]

LEMMA CounterKept ==
    ASSUME NEW o, counter' = counter
    PROVE  SameOwner(o, o)
BY DEF SameOwner, Known

LEMMA MessageKept ==
    ASSUME NEW o, NEW o2, SameOwner(o, o2), got \subseteq got',
           NEW m, MsgOK(m), MessageOf(o, m)
    PROVE  MessageOf(o2, m)'
<1>1. m.id \in Nat
  BY DEF MsgOK
<1>2. Known(m.id) => Known(m.id)' /\ o2[m.id] = o[m.id]
  BY <1>1 DEF SameOwner
<1> QED
  BY <1>2 DEF MessageOf

LEMMA AirKept ==
    ASSUME ReportsInv, NEW o, NEW o2, SameOwner(o, o2), got \subseteq got',
           \A m \in air : MessageOf(o, m),
           \A m \in air' : m \in air \/ MessageOf(o2, m)'
    PROVE  (\A m \in air : MessageOf(o2, m))'
<1> SUFFICES ASSUME NEW m \in air' PROVE MessageOf(o2, m)'
  OBVIOUS
<1>1. CASE m \in air
  <2>1. MsgOK(m) /\ MessageOf(o, m)
    BY <1>1 DEF ReportsInv, AirOK
  <2> QED
    BY <2>1, MessageKept
<1> QED
  BY <1>1

\* A step of the child, or of what is around.
LEMMA ChildLog ==
    ASSUME ReportsInv, NEW o, NEW o2, SameOwner(o, o2), LogInv(o),
           UNCHANGED parentVars, NoReportLost', PayloadOf(o2)',
           \A m \in air' : m \in air \/ MessageOf(o2, m)'
    PROVE  LogInv(o2)'
<1>1. UNCHANGED <<slot, pst, cur, asked, presp, got>>
  BY DEF parentVars
<1>2. (\A m \in air : MessageOf(o2, m))'
  BY <1>1, AirKept DEF LogInv
<1>3. ASSUME NEW p \in Parents
      PROVE  ServedOf(p)' /\ \A x \in Slots : EntryOf(o2, slot[p][x])'
  <2>1. ServedOf(p) /\ \A x \in Slots : EntryOf(o, slot[p][x])
    BY DEF LogInv, ParentsOf
  <2>2. ServedOf(p)'
    BY <1>1, <2>1 DEF ServedOf
  <2>3. ASSUME NEW x \in Slots
        PROVE  EntryOf(o2, slot[p][x])'
    <3>1. slot[p][x] \in Entry
      BY DEF ReportsInv, Tables
    <3> DEFINE e == slot[p][x]
    <3>2. e \in Entry /\ EntryOf(o, e) /\ slot'[p][x] = e
      BY <1>1, <2>1, <3>1
    <3> QED
      BY <1>1, <3>2 DEF EntryOf, SameOwner, Entry, Known
  <2> QED
    BY <2>2, <2>3
<1>4. ParentsOf(o2)'
  BY <1>3 DEF ParentsOf
<1> QED
  BY <1>2, <1>4 DEF LogInv

\* The log is left alone.
LEMMA LogKept ==
    ASSUME NoReportLost, got \subseteq got', given \subseteq given', head' = head
    PROVE  NoReportLost'
BY DEF NoReportLost

\* The child goes on to the next segment, or the server has the report.
LEMMA DataSentLog ==
    ASSUME TypeInv, NoReportLost, NEW o, PayloadOf(o), id # 0, DataSent,
           partial \/ resp # "none", got' = got, given \subseteq given'
    PROVE  NoReportLost' /\ PayloadOf(o)'
<1>1. id' = 0
  BY DEF DataSent
<1>2. PayloadOf(o)'
  BY <1>1 DEF PayloadOf
<1>3. CASE partial
  <2>1. head' = head
    BY <1>3 DEF DataSent
  <2>2. NoReportLost'
    BY <2>1, LogKept
  <2> QED
    BY <1>2, <2>2
<1>4. CASE ~partial
  <2>1. head' = head + 1 /\ head \in Nat
    BY <1>4, ReportsAssumption DEF DataSent, TypeInv, ChildType, PayloadType
  <2>2. Whole(head) \in got
    BY <1>4 DEF PayloadOf, TypeInv, PayloadInv
  <2>3. ASSUME NEW r \in 1..(head' - 1)
        PROVE  Whole(r) \in got' \/ r \in given'
    <3>1. r \in 1..(head - 1) \/ r = head
      BY <2>1
    <3> QED
      BY <2>2, <3>1 DEF NoReportLost
  <2> QED
    BY <1>2, <2>3 DEF NoReportLost
<1> QED
  BY <1>2, <1>3, <1>4

\* A response acknowledgement says nothing of a report.
LEMMA OtherMsgOf ==
    ASSUME NEW o, NEW t \in {"ack", "nack", "respack"}, NEW p, NEW n
    PROVE  MessageOf(o, Msg(t, p, n))'
BY DEF MessageOf, Msg

\* sendReportData gives a new id to the report at the head of the log.
LEMMA SendReqLog ==
    ASSUME ReportsInv, TypeInv, IdsTell, NEW o \in Owners, LogInv(o), SendReq
    PROVE  \E o2 \in Owners : LogInv(o2)'
<1>0. UNCHANGED parentVars /\ UNCHANGED <<head, given, rep, idx>> /\ resp' = "none"
  BY DEF SendReq, ChildOnly
<1>1. NoReportLost'
  BY <1>0, LogKept DEF LogInv, parentVars
<1>2. rep \in 1..Reports
  BY ReportsAssumption DEF SendReq, TypeInv, ChildType, PayloadType, PayloadInv
<1>3. PayloadType /\ PayloadInv /\ CountType /\ PayloadOf(o) /\ o \in [Nat -> {1} \union 1..Reports]
  BY DEF TypeInv, ChildType, LogInv, Owners
<1>4. counter \in Nat /\ id \in Nat
  BY <1>3, ReportsAssumption DEF PayloadType, CountType
<1>5. CASE id' = 0 /\ counter' = counter /\ air' = air
  <2>1. PayloadOf(o)'
    BY <1>5 DEF PayloadOf
  <2>2. SameOwner(o, o)
    BY <1>5, CounterKept
  <2> QED
    BY <1>0, <1>1, <1>5, <2>1, <2>2, ChildLog
<1>6. CASE /\ counter' = IF id = 0 THEN counter + 1 ELSE counter
           /\ id' = IF id = 0 THEN counter' ELSE id
           /\ id' # 0 /\ InOrder(idx, partial')
           /\ Sends(Put(parent, id', idx, partial', rep))
  <2>1. PICK n \in Nat : n = id' /\ n # 0
    BY <1>4, <1>6
  <2>2. PICK m : m = Put(parent, n, idx, partial', rep)
    OBVIOUS
  <2>3. /\ m.type = "put" /\ m.id = n /\ m.idx = idx /\ m.partial = partial'
        /\ m.rep = rep
    BY <2>2 DEF Put
  <2>4. InOrder(m.idx, m.partial)
    BY <1>6, <2>3
  <2>5. \A k \in air' : k \in air \/ k = m
    BY <1>6, <2>1, <2>2 DEF Sends
  <2>6. ASSUME NEW o2 \in Owners, SameOwner(o, o2), o2[n] = rep, Known(n)'
        PROVE  LogInv(o2)'
    <3>1. PayloadOf(o2)'
      BY <1>0, <2>1, <2>6 DEF PayloadOf
    <3>2. MessageOf(o2, m)'
      BY <2>3, <2>4, <2>6 DEF MessageOf, InOrder
    <3>3. \A k \in air' : k \in air \/ MessageOf(o2, k)'
      <4> SUFFICES ASSUME NEW k \in air', k \notin air PROVE MessageOf(o2, k)'
        OBVIOUS
      <4>1. k = m
        BY <2>5
      <4> QED
        BY <3>2, <4>1
    <3> QED
      BY <1>0, <1>1, <2>6, <3>1, <3>3, ChildLog
  <2>7. CASE id # 0
    <3>1. n = id /\ counter' = counter /\ SameOwner(o, o)
      BY <1>6, <2>1, <2>7, CounterKept
    <3>2. o[n] = rep /\ Known(n)
      BY <1>3, <2>7, <3>1 DEF PayloadOf
    <3>3. Known(n)'
      BY <3>1, <3>2 DEF SameOwner
    <3> QED
      BY <2>6, <3>1, <3>2, <3>3
  <2>8. CASE id = 0 /\ Reports = 1
    <3>1. o[n] = rep
      BY <1>2, <1>3, <2>8
    <3>2. SameOwner(o, o) /\ Known(n)'
      BY <2>1, <2>8 DEF SameOwner, Known
    <3> QED
      BY <2>6, <3>1, <3>2
  <2>9. CASE id = 0 /\ Reports # 1
    <3>1. n = counter + 1 /\ counter' = counter + 1
      BY <1>6, <2>1, <2>9
    <3>2. PICK new : new = [o EXCEPT ![n] = rep]
      OBVIOUS
    <3>3. new \in Owners /\ new[n] = rep
      BY <1>2, <1>3, <3>2 DEF Owners
    <3>4. SameOwner(o, new)
      <4> SUFFICES ASSUME NEW k \in Nat, Known(k)
                   PROVE  Known(k)' /\ new[k] = o[k]
        BY DEF SameOwner
      <4>1. k # 0 /\ k <= counter
        BY <2>9 DEF Known
      <4>2. k # n /\ k <= counter'
        BY <1>4, <3>1, <4>1
      <4> QED
        BY <1>3, <3>2, <4>1, <4>2 DEF Known
    <3>5. Known(n)'
      BY <1>4, <2>1, <3>1 DEF Known
    <3> QED
      BY <2>6, <3>3, <3>4, <3>5
  <2> QED
    BY <2>7, <2>8, <2>9
<1> QED
  <2>1. \/ id' = 0 /\ counter' = counter /\ air' = air
        \/ /\ counter' = IF id = 0 THEN counter + 1 ELSE counter
           /\ id' = IF id = 0 THEN counter' ELSE id
           /\ Sends(Put(parent, id', idx, partial', rep))
    BY DEF SendReq
  <2>2. partial' = (idx < Segments - 1)
    BY DEF SendReq
  <2>3. InOrder(idx, partial')
    BY <1>3, <2>2 DEF InOrder, PayloadType
  <2>4. (IF id = 0 THEN counter + 1 ELSE id) # 0
    BY <1>4
  <2> QED
    BY <1>5, <1>6, <2>1, <2>3, <2>4

LEMMA ChildCycleLog ==
    ASSUME ReportsInv, TypeInv, IdsTell, NEW o \in Owners, LogInv(o), ChildCycle
    PROVE  \E o2 \in Owners : LogInv(o2)'
<1> USE DEF ChildOnly, payloadVars, answerVars, countVars
<1>0. NoReportLost /\ PayloadOf(o) /\ PayloadType /\ PayloadInv
  BY DEF LogInv, TypeInv, ChildType
<1>1. ASSUME UNCHANGED parentVars, counter' = counter, NoReportLost', PayloadOf(o)',
             \A m \in air' : m \in air \/ MessageOf(o, m)'
      PROVE  \E o2 \in Owners : LogInv(o2)'
  BY <1>1, CounterKept, ChildLog
<1>2. CASE Idle \/ NoRoute \/ RetryDelay
  <2>1. UNCHANGED <<rep, id, resp, head, given, counter, air>> /\ UNCHANGED parentVars
    BY <1>2 DEF Idle, NoRoute, RetryDelay
  <2>2. PayloadOf(o)'
    BY <1>0, <2>1 DEF PayloadOf, Known, parentVars
  <2>3. NoReportLost'
    BY <1>0, <2>1, LogKept DEF parentVars
  <2> QED
    BY <1>1, <2>1, <2>2, <2>3
<1>3. CASE Data \/ NoData
  <2>1. UNCHANGED <<resp, head, given, counter, air>> /\ UNCHANGED parentVars
        /\ (id' = 0 \/ UNCHANGED <<rep, id>>)
    BY <1>3 DEF Data, NoData, NoPayload
  <2>2. PayloadOf(o)'
    BY <1>0, <2>1 DEF PayloadOf, Known, parentVars
  <2>3. NoReportLost'
    BY <1>0, <2>1, LogKept DEF parentVars
  <2> QED
    BY <1>1, <2>1, <2>2, <2>3
<1>4. CASE SendReq
  BY <1>4, SendReqLog
<1>5. CASE WaitAck
  <2>1. UNCHANGED <<resp, given, counter, air>> /\ UNCHANGED parentVars /\ id # 0
    BY <1>0, <1>5 DEF WaitAck, PayloadInv
  <2>2. CASE partial /\ DataSent
    <3>1. NoReportLost' /\ PayloadOf(o)'
      BY <1>0, <2>1, <2>2, DataSentLog DEF parentVars
    <3> QED
      BY <1>1, <2>1, <3>1
  <2>3. CASE head' = head /\ (id' = 0 \/ UNCHANGED <<rep, id>>)
    <3>1. PayloadOf(o)'
      BY <1>0, <2>1, <2>3 DEF PayloadOf, Known, parentVars
    <3>2. NoReportLost'
      BY <1>0, <2>1, <2>3, LogKept DEF parentVars
    <3> QED
      BY <1>1, <2>1, <3>1, <3>2
  <2> QED
    BY <1>5, <2>2, <2>3 DEF WaitAck, NoPayload
<1>6. CASE WaitResp
  <2>1. UNCHANGED <<resp, counter>> /\ UNCHANGED parentVars /\ id # 0
        /\ given \subseteq given'
    BY <1>0, <1>6 DEF WaitResp, PayloadInv
  <2>2. \A m \in air' : m \in air \/ MessageOf(o, m)'
    <3>1. Sends(Msg("respack", parent, id)) \/ air' = air
      BY <1>6 DEF WaitResp
    <3> QED
      BY <3>1, OtherMsgOf DEF Sends
  <2>3. CASE DataSent /\ resp # "none"
    <3>1. NoReportLost' /\ PayloadOf(o)'
      BY <1>0, <2>1, <2>3, DataSentLog DEF parentVars
    <3> QED
      BY <1>1, <2>1, <2>2, <3>1
  <2>4. CASE UNCHANGED <<rep, id, head, given>>
    <3>1. PayloadOf(o)'
      BY <1>0, <2>1, <2>4 DEF PayloadOf, Known, parentVars
    <3>2. NoReportLost'
      BY <1>0, <2>1, <2>4, LogKept DEF parentVars
    <3> QED
      BY <1>1, <2>1, <2>2, <3>1, <3>2
  <2> QED
    BY <1>6, <2>3, <2>4 DEF WaitResp
<1> QED
  BY <1>2, <1>3, <1>4, <1>5, <1>6 DEF ChildCycle

\* A response for the current id is about the report being sent.
LEMMA ChildReceivesLog ==
    ASSUME ReportsInv, TypeInv, NEW o, LogInv(o),
           NEW m \in air, ReportAck(m) \/ ServerResponse(m)
    PROVE  LogInv(o)'
<1> USE DEF ChildOnly, payloadVars, answerVars, countVars
<1>0. NoReportLost /\ PayloadOf(o) /\ MessageOf(o, m)
  BY DEF LogInv
<1>1. UNCHANGED <<rep, id, head, given, counter>> /\ UNCHANGED parentVars
  BY DEF ReportAck, ServerResponse
<1>2. resp' = resp \/ (m.type \in {"ok", "error"} /\ m.id = id)
  <2>1. CASE ReportAck(m)
    BY <2>1 DEF ReportAck
  <2>2. CASE ServerResponse(m)
    <3>1. m.type \in {"ok", "error"}
      BY <2>2 DEF ServerResponse
    <3>2. resp' = resp \/ m.id = id
      BY <2>2 DEF ServerResponse, Current
    <3> QED
      BY <3>1, <3>2
  <2> QED
    BY <2>1, <2>2
<1>3. PayloadOf(o)'
  BY <1>0, <1>1, <1>2 DEF PayloadOf, MessageOf, Known, parentVars
<1>4. NoReportLost'
  BY <1>0, <1>1, LogKept DEF parentVars
<1>5. \A n \in air' : n \in air \/ MessageOf(o, n)'
  <2>1. Answers(m, {}) \/ Answers(m, {Msg("respack", parent, prevId)})
    BY DEF ReportAck, ServerResponse
  <2> QED
    BY <2>1, OtherMsgOf DEF Answers
<1> QED
  BY <1>1, <1>3, <1>4, <1>5, CounterKept, ChildLog

LEMMA AroundLog ==
    ASSUME ReportsInv, TypeInv, IdsTell, NEW o, LogInv(o),
           \/ \E p \in Parents : Synced(p)
           \/ Recheck \/ Reinit \/ Restart
           \/ \E m \in air : Lose(m)
    PROVE  LogInv(o)'
<1> USE DEF payloadVars, answerVars, countVars
<1>0. NoReportLost /\ PayloadOf(o)
  BY DEF LogInv
<1>1. /\ UNCHANGED <<head, given>> /\ UNCHANGED parentVars /\ air' \subseteq air
      /\ id' = 0 \/ UNCHANGED <<rep, id, resp, counter>>
      /\ Restart \/ counter' = counter
  BY DEF Synced, Recheck, Reinit, Restart, Lose, childVars, NoPayload
<1>2. NoReportLost'
  BY <1>0, <1>1, LogKept DEF parentVars
<1>3. PayloadOf(o)'
  BY <1>0, <1>1 DEF PayloadOf, Known, parentVars
<1>4. SameOwner(o, o)
  <2>1. CASE counter' = counter
    BY <2>1, CounterKept
  <2>2. CASE Restart
    <3>1. Reports = 1
      BY <2>2 DEF Restart, IdsTell, TypeInv, ChildType, ControlType
    <3> QED
      BY <3>1 DEF SameOwner, Known
  <2> QED
    BY <1>1, <2>1, <2>2
<1> QED
  BY <1>1, <1>2, <1>3, <1>4, ChildLog

LEMMA BegunAppend ==
    ASSUME NEW r, NEW n \in Nat
    PROVE  /\ Begun(r, 0) = <<>>
           /\ Append(Begun(r, n), <<r, n>>) = Begun(r, n + 1)
<1>1. Begun(r, 0) = <<>>
  <2>1. 1..0 = {}
    OBVIOUS
  <2> QED
    BY <2>1 DEF Begun
<1> DEFINE s == Begun(r, n)
<1> DEFINE T == {<<r, k>> : k \in Nat}
<1>2. s \in Seq(T) /\ Len(s) = n /\ \A k \in 1..n : s[k] = <<r, k - 1>>
  <2>1. s = [k \in 1..n |-> <<r, k - 1>>]
    BY DEF Begun
  <2>2. \A k \in 1..n : <<r, k - 1>> \in T
    OBVIOUS
  <2> HIDE DEF s, T
  <2>3. s \in [1..n -> T] /\ DOMAIN s = 1..n
    BY <2>1, <2>2
  <2>4. s \in Seq(T)
    BY <2>3
  <2>5. Len(s) = n
    BY <2>3, <2>4
  <2> QED
    BY <2>1, <2>4, <2>5
<1>3. \A k \in 1..(n + 1) : Append(s, <<r, n>>)[k] = <<r, k - 1>>
  <2> HIDE DEF s, T
  <2> TAKE k \in 1..(n + 1)
  <2>1. CASE k \in 1..n
    BY <1>2, <2>1
  <2>2. CASE k = n + 1
    BY <1>2, <2>2
  <2>3. k \in 1..n \/ k = n + 1
    OBVIOUS
  <2> QED
    BY <2>1, <2>2, <2>3
<1>4. DOMAIN Append(s, <<r, n>>) = 1..(n + 1)
      /\ Append(s, <<r, n>>) = [k \in DOMAIN Append(s, <<r, n>>) |-> Append(s, <<r, n>>)[k]]
  <2> HIDE DEF s, T
  <2> QED
    BY <1>2
<1>5. Append(s, <<r, n>>) = [k \in 1..(n + 1) |-> <<r, k - 1>>]
  BY <1>3, <1>4
<1> QED
  BY <1>1, <1>5 DEF Begun

\* A step of one parent.
LEMMA ParentLog ==
    ASSUME ReportsInv, NEW o, LogInv(o), UNCHANGED childVars, got \subseteq got',
           \A m \in air' : m \in air \/ MessageOf(o, m)',
           NEW p \in Parents, ServedOf(p)',
           \A r \in Parents \ {p} :
               /\ slot'[r] = slot[r] /\ pst'[r] = pst[r] /\ cur'[r] = cur[r]
               /\ asked'[r] = asked[r] /\ presp'[r] = presp[r],
           \A x \in Slots : slot'[p][x] = slot[p][x] \/ EntryOf(o, slot'[p][x])
    PROVE  LogInv(o)'
<1>1. counter' = counter /\ UNCHANGED <<rep, id, resp, head, given>>
  BY DEF childVars
<1>2. SameOwner(o, o)
  BY <1>1, CounterKept
<1>3. (\A m \in air : MessageOf(o, m))'
  BY <1>2, AirKept DEF LogInv
<1>4. NoReportLost'
  BY <1>1, LogKept DEF LogInv
<1>5. PayloadOf(o)'
  BY <1>1 DEF LogInv, PayloadOf, Known
<1>6. ASSUME NEW r \in Parents
      PROVE  ServedOf(r)' /\ \A x \in Slots : EntryOf(o, slot[r][x])'
  <2>1. ServedOf(r) /\ \A x \in Slots : EntryOf(o, slot[r][x])
    BY DEF LogInv, ParentsOf
  <2>2. CASE r = p
    BY <1>1, <2>1, <2>2 DEF EntryOf, Known
  <2>3. CASE r # p
    BY <1>1, <2>1, <2>3 DEF EntryOf, Known, ServedOf
  <2> QED
    BY <2>2, <2>3
<1> QED
  BY <1>3, <1>4, <1>5, <1>6 DEF LogInv, ParentsOf

LEMMA FreeOf == ASSUME NEW o PROVE EntryOf(o, Free) /\ EntryOf(o, Other)
BY DEF EntryOf, Free, Other

\* A segment is stored behind the ones of its own report.
LEMMA StoredOf ==
    ASSUME ReportsInv, TypeInv, IdsTell, NEW o \in Owners, LogInv(o),
           NEW p \in Parents, NEW m \in air, m.type = "put", NEW x \in Places(p, m)
    PROVE  EntryOf(o, Stored(slot[p][x], m))
<1>1. Known(m.id) /\ InOrder(m.idx, m.partial) /\ m.rep = o[m.id] /\ m.id \in Nat
  BY DEF LogInv, MessageOf, ReportsInv, AirOK, MsgOK
<1>2. x \in Slots
  BY DEF Places, FreeSlots, Continued
<1>3. slot[p][x] \in Entry /\ EntryOf(o, slot[p][x])
  BY <1>2 DEF LogInv, ParentsOf, ReportsInv, Tables
<1>4. m.idx \in Nat
  BY <1>1, ReportsAssumption DEF InOrder
<1>5. Append(slot[p][x].segs, <<m.rep, m.idx>>) = Begun(o[m.id], m.idx + 1)
  <2>1. CASE m.idx = 0
    <3>1. slot[p][x].segs = <<>>
      BY <2>1 DEF Places, FreeSlots
    <3>2. slot[p][x].segs = Begun(o[m.id], 0)
      BY <3>1, BegunAppend
    <3>3. Append(Begun(o[m.id], 0), <<o[m.id], 0>>) = Begun(o[m.id], 0 + 1)
      BY BegunAppend
    <3> QED
      BY <1>1, <2>1, <3>2, <3>3
  <2>2. CASE m.idx # 0
    <3>1. slot[p][x].child = "child" /\ m.idx = slot[p][x].idx + 1
      BY <2>2 DEF Places, Continued
    <3>2. Reports = 1
      BY <1>1, <2>2 DEF IdsTell, InOrder
    <3>3. o[m.id] = 1 /\ o[slot[p][x].id] = 1
      BY <1>1, <1>3, <3>2 DEF Owners, Entry
    <3>4. slot[p][x].segs = Begun(o[m.id], m.idx)
      BY <1>3, <3>1, <3>3 DEF EntryOf
    <3> QED
      BY <1>1, <1>4, <3>4, BegunAppend
  <2> QED
    BY <2>1, <2>2
<1> QED
  BY <1>1, <1>5 DEF Stored, EntryOf

\* A request being served is neither free nor incomplete.
LEMMA ServedIsOther ==
    ASSUME ReportsInv, NEW p \in Parents, pst[p] # "IDLE",
           NEW x \in Slots, slot[p][x].segs = <<>> \/ slot[p][x].partial
    PROVE  cur[p] \in Slots /\ cur[p] # x
<1>1. ParentOK(queue[p], slot[p], pst[p], cur[p])
  BY DEF ReportsInv
<1>2. queue[p] # <<>> /\ cur[p] = Head(queue[p]) /\ ~slot[p][cur[p]].partial
  BY <1>1 DEF ParentOK
<1>3. cur[p] \in Slots /\ slot[p][cur[p]].segs # <<>>
  BY <1>1, <1>2, HeadIsUsed
<1> QED
  BY <1>2, <1>3

\* An entry other than the one being served changes.
LEMMA EntryLog ==
    ASSUME ReportsInv, NEW o, LogInv(o), UNCHANGED childVars,
           UNCHANGED <<pst, cur, asked, presp, got>>,
           \A m \in air' : m \in air \/ MessageOf(o, m)',
           NEW p \in Parents, NEW x \in Slots, NEW e, EntryOf(o, e),
           pst[p] # "IDLE" => cur[p] \in Slots /\ cur[p] # x,
           slot' = [slot EXCEPT ![p][x] = e]
    PROVE  LogInv(o)'
<1>1. slot \in [Parents -> [Slots -> Entry]]
  BY DEF ReportsInv, Tables
<1>2. /\ slot'[p] = [slot[p] EXCEPT ![x] = e] /\ slot[p] \in [Slots -> Entry]
      /\ \A r \in Parents \ {p} : slot'[r] = slot[r]
  BY <1>1
<1>3. /\ slot'[p][x] = e
      /\ \A y \in Slots : y # x => slot'[p][y] = slot[p][y]
  BY <1>2
<1>4. ServedOf(p)
  BY DEF LogInv, ParentsOf
<1>5. ServedOf(p)'
  BY <1>3, <1>4 DEF ServedOf
<1>6. \A y \in Slots : slot'[p][y] = slot[p][y] \/ EntryOf(o, slot'[p][y])
  BY <1>3
<1> QED
  BY <1>2, <1>5, <1>6, ParentLog

\* Nothing of the entries changes.
LEMMA SameEntries ==
    ASSUME ReportsInv, NEW o, LogInv(o), UNCHANGED childVars,
           UNCHANGED <<slot, pst, cur, asked, presp, got>>,
           \A m \in air' : m \in air \/ MessageOf(o, m)',
           NEW p \in Parents
    PROVE  LogInv(o)'
<1>1. ServedOf(p)
  BY DEF LogInv, ParentsOf
<1>2. ServedOf(p)'
  BY <1>1 DEF ServedOf
<1> QED
  BY <1>2, ParentLog

LEMMA HandleRequestLog ==
    ASSUME ReportsInv, TypeInv, IdsTell, NEW o \in Owners, LogInv(o),
           NEW p \in Parents, NEW m \in air, HandleRequest(p, m)
    PROVE  LogInv(o)'
<1>1. UNCHANGED childVars /\ UNCHANGED <<pst, cur, asked, presp, got>> /\ m.type = "put"
  BY DEF HandleRequest, Accepts, ParentOnly
<1>2. \A n \in air' : n \in air \/ MessageOf(o, n)'
  <2>1. \/ Answers(m, {}) \/ Answers(m, {Msg("ack", p, m.id)})
        \/ Answers(m, {Msg("nack", p, m.id)})
    BY DEF HandleRequest, Accepts
  <2> QED
    BY <2>1, OtherMsgOf DEF Answers
<1>3. CASE slot' = slot
  BY <1>1, <1>2, <1>3, SameEntries
<1>4. CASE /\ Places(p, m) # {}
           /\ slot' = [slot EXCEPT ![p][Min(Places(p, m))] = Stored(@, m)]
  <2> DEFINE x == Min(Places(p, m))
             e == Stored(slot[p][x], m)
  <2>1. Places(p, m) \in SUBSET Slots
    BY DEF Places, FreeSlots, Continued
  <2>2. x \in Places(p, m) /\ x \in Slots
    BY <1>4, <2>1, MinIsMember
  <2>3. slot' = [slot EXCEPT ![p][x] = e]
    BY <1>4 DEF ReportsInv, Tables
  <2> HIDE DEF x
  <2>4. EntryOf(o, e)
    BY <1>1, <2>2, StoredOf
  <2> HIDE DEF e
  <2>5. slot[p][x].segs = <<>> \/ slot[p][x].partial
    BY <2>2 DEF Places, FreeSlots, Continued
  <2>6. pst[p] # "IDLE" => cur[p] \in Slots /\ cur[p] # x
    BY <2>2, <2>5, ServedIsOther
  <2> QED
    BY <1>1, <1>2, <2>2, <2>3, <2>4, <2>6, EntryLog
<1> QED
  BY <1>3, <1>4 DEF HandleRequest, Accepts

LEMMA OtherRequestLog ==
    ASSUME ReportsInv, NEW o, LogInv(o), NEW p \in Parents, OtherRequest(p)
    PROVE  LogInv(o)'
<1>1. UNCHANGED childVars /\ UNCHANGED <<pst, cur, asked, presp, got, air>>
  BY DEF OtherRequest, ParentOnly
<1> DEFINE x == Min(FreeSlots(p))
<1>2. x \in Slots /\ slot[p][x].segs = <<>>
  <2>1. FreeSlots(p) # {} /\ FreeSlots(p) \in SUBSET Slots
    BY DEF OtherRequest, FreeSlots
  <2> QED
    BY <2>1, MinIsMember DEF FreeSlots
<1>3. slot' = [slot EXCEPT ![p][x] = Other]
  BY DEF OtherRequest
<1> HIDE DEF x
<1>4. pst[p] # "IDLE" => cur[p] \in Slots /\ cur[p] # x
  BY <1>2, ServedIsOther
<1> QED
  BY <1>1, <1>2, <1>3, <1>4, FreeOf, EntryLog

\* What a parent forwards is about a report the server has.
LEMMA ForwardedOf ==
    ASSUME ReportsInv, TypeInv, NEW o, LogInv(o), NEW p \in Parents,
           pst[p] = "WAIT_RESP", presp[p] # "none", slot[p][cur[p]].child = "child"
    PROVE  /\ presp[p] \in {"ok", "error"}
           /\ Known(slot[p][cur[p]].id) /\ Whole(o[slot[p][cur[p]].id]) \in got
<1> DEFINE e == slot[p][cur[p]]
<1>1. ParentOK(queue[p], slot[p], pst[p], cur[p])
  BY DEF ReportsInv
<1>2. cur[p] \in Slots /\ ~e.partial
  BY <1>1, HeadIsUsed DEF ParentOK
<1>3. EntryOf(o, e) /\ ServedOf(p)
  BY <1>2 DEF LogInv, ParentsOf
<1>4. e.segs \in got
  BY <1>3 DEF ServedOf
<1>5. presp[p] \in {"ok", "error"}
  BY ParentFacts, ReportsAssumption
<1> HIDE DEF e
<1>6. e.child = "child"
  BY DEF e
<1>7. Known(e.id) /\ InOrder(e.idx, e.partial) /\ e.segs = Begun(o[e.id], e.idx + 1)
  BY <1>3, <1>6 DEF EntryOf
<1>8. e.idx + 1 = Segments
  <2>1. ~e.partial
    BY <1>2 DEF e
  <2>2. e.idx \in 0..(Segments - 1) /\ ~(e.idx < Segments - 1)
    BY <1>7, <2>1, Zenon DEF InOrder
  <2> QED
    BY <2>2, ReportsAssumption
<1>9. e.segs = Whole(o[e.id])
  BY <1>7, <1>8 DEF Begun, Whole
<1> QED
  BY <1>4, <1>5, <1>7, <1>9 DEF e

\* The state of the one being served changes.
LEMMA ServedLog ==
    ASSUME ReportsInv, NEW o, LogInv(o), UNCHANGED childVars, NEW p \in Parents,
           NEW s, pst' = [pst EXCEPT ![p] = s],
           s \in {"IDLE", "SEND_REQ"} \/ pst[p] \notin {"IDLE", "SEND_REQ"},
           UNCHANGED <<slot, cur, asked, presp, got>>,
           \A m \in air' : m \in air \/ MessageOf(o, m)'
    PROVE  LogInv(o)'
<1>1. pst \in [Parents -> PStates]
  BY DEF ReportsInv, Tables
<1>2. pst'[p] = s /\ \A r \in Parents \ {p} : pst'[r] = pst[r]
  BY <1>1
<1>3. ServedOf(p)
  BY DEF LogInv, ParentsOf
<1>4. ServedOf(p)'
  BY <1>2, <1>3 DEF ServedOf
<1> QED
  BY <1>2, <1>4, ParentLog

\* The entry of a request that is done with, or discarded, is cleared.
LEMMA ClearedLog ==
    ASSUME ReportsInv, NEW o, LogInv(o), UNCHANGED childVars, NEW p \in Parents,
           queue[p] # <<>>, slot' = [slot EXCEPT ![p][Head(queue[p])] = Free],
           pst' = [pst EXCEPT ![p] = "IDLE"],
           UNCHANGED <<cur, asked, presp, got, air>>
    PROVE  LogInv(o)'
<1>1. /\ slot \in [Parents -> [Slots -> Entry]] /\ pst \in [Parents -> PStates]
  BY DEF ReportsInv, Tables
<1>2. PICK h \in Slots : h = Head(queue[p])
  BY Untouched, HeadIsUsed
<1>3. /\ slot'[p] = [slot[p] EXCEPT ![h] = Free] /\ slot[p] \in [Slots -> Entry]
      /\ pst'[p] = "IDLE"
      /\ \A r \in Parents \ {p} : slot'[r] = slot[r] /\ pst'[r] = pst[r]
  BY <1>1, <1>2
<1>4. \A y \in Slots : slot'[p][y] = slot[p][y] \/ EntryOf(o, slot'[p][y])
  BY <1>3, FreeOf
<1>5. ServedOf(p)'
  BY <1>3 DEF ServedOf
<1> QED
  BY <1>3, <1>4, <1>5, ParentLog

\* cloudMeshCycle puts the request out; it may have arrived.
LEMMA PSendReqLog ==
    ASSUME ReportsInv, TypeInv, NEW o, LogInv(o), NEW p \in Parents, PSendReq(p)
    PROVE  LogInv(o)'
<1>1. /\ pst[p] = "SEND_REQ" /\ presp' = [presp EXCEPT ![p] = "none"]
      /\ UNCHANGED childVars /\ UNCHANGED <<slot, cur, air>>
      /\ \E s \in {"WAIT_RESP", "RETRY_DELAY"} : pst' = [pst EXCEPT ![p] = s]
  BY DEF PSendReq
<1>2. PICK arrives \in BOOLEAN :
        /\ asked' = [asked EXCEPT ![p] = arrives]
        /\ got' = IF arrives /\ slot[p][cur[p]].child = "child"
                    THEN got \union {slot[p][cur[p]].segs} ELSE got
  BY DEF PSendReq
<1>3. /\ presp'[p] = "none" /\ asked'[p] = arrives
      /\ \A r \in Parents \ {p} :
            pst'[r] = pst[r] /\ asked'[r] = asked[r] /\ presp'[r] = presp[r]
  <2>1. pst \in [Parents -> PStates]
    BY DEF ReportsInv, Tables
  <2> QED
    BY <1>1, <1>2, <2>1, ParentFacts
<1>4. got \subseteq got'
  BY <1>2
<1>5. ServedOf(p)'
  BY <1>1, <1>2, <1>3 DEF ServedOf
<1> QED
  BY <1>1, <1>3, <1>4, <1>5, ParentLog

LEMMA PWaitRespLog ==
    ASSUME ReportsInv, TypeInv, NEW o, LogInv(o), NEW p \in Parents, PWaitResp(p)
    PROVE  LogInv(o)'
<1>1. /\ pst[p] = "WAIT_RESP"
      /\ UNCHANGED childVars /\ UNCHANGED <<slot, cur, asked, presp, got>>
      /\ \E s \in {"WAIT_ACK", "RETRY_DELAY"} : pst' = [pst EXCEPT ![p] = s]
  BY DEF PWaitResp
<1>2. \/ air' = air
      \/ /\ presp[p] # "none" /\ slot[p][cur[p]].child = "child"
         /\ Sends(Msg(presp[p], p, slot[p][cur[p]].id))
  BY DEF PWaitResp
<1>3. \A m \in air' : m \in air \/ MessageOf(o, m)'
  <2> SUFFICES ASSUME NEW m \in air', m \notin air PROVE MessageOf(o, m)'
    OBVIOUS
  <2>1. m = Msg(presp[p], p, slot[p][cur[p]].id)
        /\ presp[p] # "none" /\ slot[p][cur[p]].child = "child"
    BY <1>2 DEF Sends
  <2>2. m.type \in {"ok", "error"} /\ Known(m.id) /\ Whole(o[m.id]) \in got
    BY <1>1, <2>1, ForwardedOf DEF Msg
  <2>3. counter' = counter /\ got' = got
    BY <1>1 DEF childVars
  <2> QED
    BY <2>2, <2>3 DEF MessageOf, Known
<1>4. PICK s \in {"WAIT_ACK", "RETRY_DELAY"} : pst' = [pst EXCEPT ![p] = s]
  BY <1>1
<1> QED
  BY <1>1, <1>3, <1>4, ServedLog

LEMMA ParentCycleLog ==
    ASSUME ReportsInv, TypeInv, NEW o, LogInv(o), NEW p \in Parents,
           ParentCycle(p) \/ PDiscard(p)
    PROVE  LogInv(o)'
<1>1. CASE PIdle(p)
  <2>1. /\ UNCHANGED childVars /\ UNCHANGED <<slot, asked, presp, got, air>>
        /\ pst' = [pst EXCEPT ![p] = "SEND_REQ"]
        /\ cur' = [cur EXCEPT ![p] = Head(queue[p])]
    BY <1>1 DEF PIdle
  <2>2. /\ pst'[p] = "SEND_REQ"
        /\ \A r \in Parents \ {p} : pst'[r] = pst[r] /\ cur'[r] = cur[r]
    BY <2>1 DEF ReportsInv, Tables
  <2>3. ServedOf(p)'
    BY <2>2 DEF ServedOf
  <2> QED
    BY <2>1, <2>2, <2>3, ParentLog
<1>2. CASE PSendReq(p)
  BY <1>2, PSendReqLog
<1>3. CASE PWaitResp(p)
  BY <1>3, PWaitRespLog
<1>4. CASE PWaitAck(p) \/ PRetryDelay(p)
  <2>1. /\ UNCHANGED childVars /\ UNCHANGED <<cur, asked, presp, got, air>>
        /\ pst[p] \notin {"IDLE", "SEND_REQ"}
    BY <1>4 DEF PWaitAck, PRetryDelay
  <2>2. CASE RequestSent(p)
    <3>1. queue[p] # <<>>
      BY <2>1, Untouched DEF ParentOK
    <3> QED
      BY <2>1, <2>2, <3>1, ClearedLog DEF RequestSent
  <2>3. CASE ~RequestSent(p)
    <3>1. slot' = slot
      BY <1>4, <2>3 DEF PWaitAck, PRetryDelay
    <3>2. \E s \in {"WAIT_RESP", "IDLE"} : pst' = [pst EXCEPT ![p] = s]
      BY <1>4, <2>3 DEF PWaitAck, PRetryDelay
    <3> QED
      BY <2>1, <3>1, <3>2, ServedLog
  <2> QED
    BY <2>2, <2>3
<1>5. CASE PDiscard(p)
  <2>1. /\ UNCHANGED childVars /\ UNCHANGED <<pst, cur, asked, presp, got, air>>
        /\ pst[p] = "IDLE" /\ queue[p] # <<>>
        /\ slot' = [slot EXCEPT ![p][Head(queue[p])] = Free]
    BY <1>5 DEF PDiscard
  <2>2. pst' = [pst EXCEPT ![p] = "IDLE"]
    BY <2>1, Untouched
  <2> QED
    BY <2>1, <2>2, ClearedLog
<1> QED
  BY <1>1, <1>2, <1>3, <1>4, <1>5 DEF ParentCycle

LEMMA ParentAroundLog ==
    ASSUME ReportsInv, TypeInv, NEW o, LogInv(o), NEW p \in Parents,
           \/ \E m \in air : ResponseAck(p, m)
           \/ OtherAck(p)
           \/ \E r \in Responses : ServerAnswers(p, r)
    PROVE  LogInv(o)'
<1>1. CASE (\E m \in air : ResponseAck(p, m)) \/ OtherAck(p)
  <2>1. /\ UNCHANGED childVars /\ UNCHANGED <<slot, pst, cur, asked, presp, got>>
        /\ air' \subseteq air
    BY <1>1 DEF ResponseAck, OtherAck, Answers
  <2> QED
    BY <2>1, SameEntries
<1>2. ASSUME NEW r \in Responses, ServerAnswers(p, r)
      PROVE  LogInv(o)'
  <2>1. /\ UNCHANGED childVars /\ UNCHANGED <<slot, pst, cur, asked, got, air>>
        /\ asked[p] /\ presp' = [presp EXCEPT ![p] = r]
    BY <1>2 DEF ServerAnswers
  <2>2. \A q \in Parents \ {p} : presp'[q] = presp[q]
    BY <2>1, ParentFacts
  <2>3. ServedOf(p)
    BY DEF LogInv, ParentsOf
  <2>4. ServedOf(p)'
    BY <2>1, <2>3 DEF ServedOf
  <2> QED
    BY <2>1, <2>2, <2>4, ParentLog
<1> QED
  BY <1>1, <1>2

Owned == \E o \in Owners : LogInv(o)

LEMMA InitOwned == Init => Owned
<1> SUFFICES ASSUME Init PROVE Owned
  OBVIOUS
<1>1. PICK o \in Owners : o = [n \in Nat |-> 1]
  BY DEF Owners
<1>2. NoReportLost
  BY DEF Init, NoReportLost
<1>3. PayloadOf(o) /\ (\A m \in air : MessageOf(o, m))
  BY DEF Init, PayloadOf
<1>4. ParentsOf(o)
  <2>1. ASSUME NEW p \in Parents
        PROVE  ServedOf(p) /\ \A x \in Slots : EntryOf(o, slot[p][x])
    BY FreeOf DEF Init, ServedOf
  <2> QED
    BY <2>1 DEF ParentsOf
<1> QED
  BY <1>2, <1>3, <1>4 DEF Owned, LogInv

LEMMA NextOwned ==
    IdsTell /\ ReportsInv /\ TypeInv /\ Owned /\ [Next]_vars => Owned'
<1> SUFFICES ASSUME IdsTell, ReportsInv, TypeInv, NEW o \in Owners, LogInv(o), [Next]_vars
             PROVE  \E o2 \in Owners : LogInv(o2)'
  BY DEF Owned
<1>1. CASE ChildCycle
  BY <1>1, ChildCycleLog
<1>2. CASE ChildReceives
  BY <1>2, ChildReceivesLog DEF ChildReceives
<1>3. ASSUME NEW p \in Parents, ParentReceives(p)
      PROVE  LogInv(o)'
  BY <1>3, HandleRequestLog, ParentAroundLog DEF ParentReceives
<1>4. ASSUME NEW p \in Parents,
             ParentCycle(p) \/ PDiscard(p) \/ OtherRequest(p) \/ OtherAck(p)
             \/ \E r \in Responses : ServerAnswers(p, r)
      PROVE  LogInv(o)'
  BY <1>4, ParentCycleLog, OtherRequestLog, ParentAroundLog
<1>5. CASE \/ \E p \in Parents : Synced(p)
           \/ Recheck \/ Reinit \/ Restart
           \/ \E m \in air : Lose(m)
  BY <1>5, AroundLog
<1>6. CASE UNCHANGED vars
  <2>1. UNCHANGED <<rep, id, resp, head, given, counter, air>> /\ UNCHANGED parentVars
    BY <1>6 DEF vars, parentVars
  <2>2. PayloadOf(o)' /\ got' = got
    BY <2>1 DEF LogInv, PayloadOf, Known, parentVars
  <2>3. NoReportLost'
    BY <2>1, <2>2, LogKept DEF LogInv
  <2> QED
    BY <2>1, <2>2, <2>3, CounterKept, ChildLog
<1> QED
  BY <1>1, <1>2, <1>3, <1>4, <1>5, <1>6 DEF Next

\* A report leaves the log only when the server has it, or after
\* MaxRespErrors error responses, whatever is lost, late, repeated, refused
\* or discarded: for a child with one report of any number of segments that
\* starts again any number of times, and for one with any number of reports
\* of one segment that does not.
THEOREM SpecNoReportLost == ASSUME IdsTell PROVE Spec => []NoReportLost
<1>1. Init => ReportsInv /\ TypeInv /\ Owned
  BY InitReportsInv, InitTypeInv, InitOwned
<1>2. ReportsInv /\ TypeInv /\ Owned /\ [Next]_vars => (ReportsInv /\ TypeInv /\ Owned)'
  BY NextReportsInv, NextTypeInv, NextOwned
<1>3. Owned => NoReportLost
  BY DEF Owned, LogInv
<1> QED
  BY <1>1, <1>2, <1>3, PTL DEF Spec

=============================================================================
