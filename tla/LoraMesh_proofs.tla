--------------------------- MODULE LoraMesh_proofs ---------------------------
(***************************************************************************)
(* Proofs about the two parts of the radio's task: its send queue          *)
(* (LoraMesh), for every size of it and every limit of retries, and its    *)
(* route table (MeshRoute), for every set of nodes that the table is       *)
(* larger than, every limit of hops, and maps of one message or two.       *)
(***************************************************************************)
EXTENDS LoraMesh, MeshRoute, FiniteSetTheorems, WellFoundedInduction, TLAPS

(***************************************************************************)
(* Queues of pointers                                                      *)
(***************************************************************************)

Elements(q) == {q[a] : a \in 1..Len(q)}

Distinct(q) == \A a, b \in 1..Len(q) : q[a] = q[b] => a = b

\* xQueueSend of a pointer that is not queued.
LEMMA AppendDistinct ==
    ASSUME NEW q \in Seq(Entries), Distinct(q),
           NEW e \in Entries, e \notin Elements(q)
    PROVE  /\ Append(q, e) \in Seq(Entries)
           /\ Distinct(Append(q, e))
           /\ Elements(Append(q, e)) = Elements(q) \union {e}
<1> DEFINE r == Append(q, e)
<1>1. /\ r \in Seq(Entries) /\ Len(q) \in Nat
      /\ Len(r) = Len(q) + 1
      /\ r[Len(q) + 1] = e
      /\ \A n \in 1..Len(q) : r[n] = q[n]
  OBVIOUS
<1> HIDE DEF r
<1>2. 1..Len(r) = (1..Len(q)) \union {Len(q) + 1}
  BY <1>1
<1>3. \A n \in 1..Len(q) : q[n] # e
  BY DEF Elements
<1>4. Distinct(r)
  <2> SUFFICES ASSUME NEW a \in 1..Len(r), NEW b \in 1..Len(r), r[a] = r[b]
               PROVE  a = b
    BY DEF Distinct
  <2>1. CASE a \in 1..Len(q) /\ b \in 1..Len(q)
    BY <2>1, <1>1 DEF Distinct
  <2>2. CASE a \in 1..Len(q) /\ b = Len(q) + 1
    BY <2>2, <1>1, <1>3
  <2>3. CASE a = Len(q) + 1 /\ b \in 1..Len(q)
    BY <2>3, <1>1, <1>3
  <2> QED
    BY <2>1, <2>2, <2>3, <1>2
<1>5. Elements(r) = Elements(q) \union {e}
  BY <1>1, <1>2 DEF Elements
<1> QED
  BY <1>1, <1>4, <1>5 DEF r

\* xQueueReceive.
LEMMA TailDistinct ==
    ASSUME NEW q \in Seq(Entries), Distinct(q), q # <<>>
    PROVE  /\ Tail(q) \in Seq(Entries) /\ Head(q) \in Entries
           /\ Distinct(Tail(q))
           /\ Elements(Tail(q)) \subseteq Elements(q) \ {Head(q)}
<1> DEFINE r == Tail(q)
<1>1. /\ r \in Seq(Entries) /\ Len(q) \in Nat \ {0}
      /\ Len(r) = Len(q) - 1
      /\ Head(q) = q[1] /\ q[1] \in Entries
      /\ \A n \in 1..Len(r) : r[n] = q[n + 1]
  OBVIOUS
<1> HIDE DEF r
<1>2. \A n \in 1..Len(r) : n + 1 \in 1..Len(q) /\ n + 1 # 1
  BY <1>1
<1>3. Distinct(r)
  <2> SUFFICES ASSUME NEW a \in 1..Len(r), NEW b \in 1..Len(r), r[a] = r[b]
               PROVE  a = b
    BY DEF Distinct
  <2>1. q[a + 1] = q[b + 1]
    BY <1>1
  <2>2. a + 1 = b + 1
    BY <2>1, <1>2 DEF Distinct
  <2> QED
    BY <2>2, <1>1
<1>4. \A n \in 1..Len(r) : r[n] \in Elements(q) \ {q[1]}
  <2> TAKE n \in 1..Len(r)
  <2>1. r[n] = q[n + 1] /\ n + 1 \in 1..Len(q) /\ n + 1 # 1 /\ 1 \in 1..Len(q)
    BY <1>1, <1>2
  <2>2. q[n + 1] # q[1]
    BY <2>1 DEF Distinct
  <2> QED
    BY <2>1, <2>2 DEF Elements
<1> QED
  BY <1>1, <1>3, <1>4 DEF r, Elements

(***************************************************************************)
(* TypeOK                                                                  *)
(***************************************************************************)

LEMMA InitTypeOK == Init => TypeOK
<1> SUFFICES ASSUME Init PROVE TypeOK
  OBVIOUS
<1>1. retries \in 0..(CadRetry - 1) /\ crcs \in [Entries -> 0..MaxCrcs]
  BY LoraAssumption DEF Init
<1>2. queue \in Seq(Entries)
  BY DEF Init
<1> QED
  BY <1>1, <1>2 DEF Init, TypeOK, Places, Modes

LEMMA NextTypeOK == TypeOK /\ [Next]_vars => TypeOK'
<1> SUFFICES ASSUME TypeOK, [Next]_vars PROVE TypeOK'
  OBVIOUS
<1> USE LoraAssumption DEF TypeOK, Places, Modes, Events
<1>1. ASSUME NEW ok \in BOOLEAN, RadioInit(ok) PROVE TypeOK'
  BY <1>1 DEF RadioInit, queueVars
<1>2. CASE IrqProcess
  BY <1>2 DEF IrqProcess, taskVars, queueVars
<1>3. CASE OnTxDone("TxDone") \/ OnTxTimeout("TxTimeout")
  BY <1>3 DEF OnTxDone, OnTxTimeout, Callback, Listen
<1>4. CASE OnRxDone
  BY <1>4 DEF OnRxDone, Callback, Listen
<1>5. CASE RxDoneReturns \/ CallbacksDone \/ UpdateRoute \/ MeshCommsCycle
              \/ NotStuck \/ NothingToSend \/ CheckModule
  BY <1>5 DEF RxDoneReturns, CallbacksDone, UpdateRoute, MeshCommsCycle, Serves,
              NotStuck, NothingToSend, CheckModule, taskVars, queueVars, radioVars
<1>6. CASE OnRxError
  <2>1. mode' \in Modes
    BY <1>6 DEF OnRxError, Listen
  <2>2. at' \in Places /\ todo' \subseteq Events
    BY <1>6 DEF OnRxError, Callback
  <2> QED
    BY <1>6, <2>1, <2>2 DEF OnRxError, Callback, taskVars
<1>7. CASE OnCadBusy
  <2>1. queue' \in Seq(Entries)
    <3>1. queue' = queue \/ (queue # <<>> /\ queue' = Tail(queue))
      BY <1>7 DEF OnCadBusy
    <3>2. queue # <<>> => Tail(queue) \in Seq(Entries)
      OBVIOUS
    <3> QED
      BY <3>1, <3>2
  <2>2. retries' \in 0..(CadRetry - 1)
    BY <1>7 DEF OnCadBusy
  <2>3. /\ at' \in Places /\ lora' \in {"IDLE", "TX"} /\ detect' \in BOOLEAN
        /\ late' \in BOOLEAN /\ mode' \in Modes /\ todo' \subseteq Events
        /\ UNCHANGED <<used, crcs, irq>>
    BY <1>7 DEF OnCadBusy, Callback, Listen
  <2> QED
    BY <2>1, <2>2, <2>3
<1>8. CASE OnCadFree
  <2>1. queue' \in Seq(Entries) /\ Head(queue) \in Entries
    BY <1>8 DEF OnCadFree
  <2> QED
    BY <1>8, <2>1 DEF OnCadFree, Callback
<1>9. CASE StuckInTx \/ RetryCad
  BY <1>9 DEF StuckInTx, RetryCad, Listen, Cad, queueVars
<1>10. CASE StartCad
  <2>1. Head(queue) \in Entries
    BY <1>10 DEF StartCad
  <2>2. crcs' \in [Entries -> 0..MaxCrcs]
    BY <1>10, <2>1 DEF StartCad
  <2> QED
    BY <1>10, <2>2 DEF StartCad, Cad
<1>11. CASE MeshSendRequest
  <2> PICK e \in Entries \ used :
             /\ used' = used \union {e} /\ crcs' = [crcs EXCEPT ![e] = 0]
             /\ queue' = Append(queue, e)
    BY <1>11 DEF MeshSendRequest
  <2>1. queue' \in Seq(Entries) /\ used' \subseteq Entries
    OBVIOUS
  <2>2. crcs' \in [Entries -> 0..MaxCrcs]
    OBVIOUS
  <2> QED
    BY <1>11, <2>1, <2>2 DEF MeshSendRequest, taskVars, radioVars
<1>12. CASE Environment
  BY <1>12 DEF Environment, RadioEnds, CadEnds, SendEnds, Hears, taskVars, queueVars
<1>13. CASE UNCHANGED vars
  BY <1>13 DEF vars
<1> HIDE DEF TypeOK, Places, Modes, Events
<1>14. CASE Callbacks
  BY <1>14, <1>3, <1>4, <1>5, <1>6, <1>7, <1>8 DEF Callbacks
<1> QED
  BY <1>1, <1>2, <1>5, <1>9, <1>10, <1>11, <1>12, <1>13, <1>14 DEF Next, Cycle

\* Task, queue and radio stay within their ranges, for every queue size and
\* every limit; the retries of a busy channel stay below MESH_CAD_RETRY.
THEOREM SpecTypeOK == Spec => []TypeOK
<1>1. Init => TypeOK
  BY InitTypeOK
<1>2. TypeOK /\ [Next]_vars => TypeOK'
  BY NextTypeOK
<1> QED
  BY <1>1, <1>2, PTL DEF Spec

(***************************************************************************)
(* QueueSound                                                              *)
(***************************************************************************)

QueueInv == TypeOK /\ QueueSound

LEMMA QueueSoundIs ==
    QueueSound <=> Elements(queue) \subseteq used /\ Distinct(queue)
BY DEF QueueSound, Queued, Elements, Distinct

LEMMA InitQueueInv == Init => QueueInv
<1> SUFFICES ASSUME Init PROVE QueueInv
  OBVIOUS
<1>1. Len(queue) = 0
  BY DEF Init
<1>2. 1..Len(queue) = {}
  BY <1>1
<1> QED
  BY <1>2, InitTypeOK DEF Init, QueueInv, QueueSound, Queued

\* The steps that leave the entries and the queue alone.
LEMMA QueueInvKept ==
    ASSUME QueueInv, TypeOK', UNCHANGED queueVars
    PROVE  QueueInv'
BY DEF QueueInv, QueueSound, Queued, queueVars

\* The head of the queue is taken out.
LEMMA QueueInvTail ==
    ASSUME QueueInv, TypeOK', queue # <<>>, queue' = Tail(queue),
           used' \in {used, used \ {Head(queue)}}
    PROVE  QueueInv'
<1>1. queue \in Seq(Entries) /\ Elements(queue) \subseteq used /\ Distinct(queue)
  BY QueueSoundIs DEF QueueInv, TypeOK
<1>2. Distinct(queue') /\ Elements(queue') \subseteq Elements(queue) \ {Head(queue)}
  BY <1>1, TailDistinct
<1>3. QueueSound'
  BY <1>1, <1>2 DEF QueueSound, Queued, Elements, Distinct
<1> QED
  BY <1>3 DEF QueueInv

LEMMA QueueInvSendRequest ==
    ASSUME QueueInv, TypeOK', MeshSendRequest
    PROVE  QueueInv'
<1>1. queue \in Seq(Entries) /\ Elements(queue) \subseteq used /\ Distinct(queue)
  BY QueueSoundIs DEF QueueInv, TypeOK
<1> PICK e \in Entries \ used :
           queue' = Append(queue, e) /\ used' = used \union {e}
  BY DEF MeshSendRequest
<1>2. /\ Distinct(queue')
      /\ Elements(queue') = Elements(queue) \union {e}
  BY <1>1, AppendDistinct
<1>3. QueueSound'
  BY <1>1, <1>2 DEF QueueSound, Queued, Elements, Distinct
<1> QED
  BY <1>3 DEF QueueInv

LEMMA NextQueueInv ==
    ASSUME QueueInv, [Next]_vars
    PROVE  QueueInv'
<1>1. TypeOK'
  BY NextTypeOK DEF QueueInv
<1>2. ASSUME UNCHANGED queueVars PROVE QueueInv'
  BY <1>1, <1>2, QueueInvKept
<1>3. ASSUME NEW ok \in BOOLEAN, RadioInit(ok) PROVE QueueInv'
  BY <1>2, <1>3 DEF RadioInit
<1>4. CASE IrqProcess
  BY <1>2, <1>4 DEF IrqProcess
<1>5. CASE OnTxDone("TxDone") \/ OnTxTimeout("TxTimeout") \/ OnRxDone \/ OnRxError
  BY <1>2, <1>5 DEF OnTxDone, OnTxTimeout, OnRxDone, OnRxError, Callback, queueVars
<1>6. CASE RxDoneReturns \/ CallbacksDone \/ UpdateRoute \/ MeshCommsCycle
              \/ NotStuck \/ NothingToSend \/ CheckModule
  BY <1>2, <1>6 DEF RxDoneReturns, CallbacksDone, UpdateRoute, MeshCommsCycle,
              Serves, NotStuck, NothingToSend, CheckModule
<1>7. CASE OnCadBusy
  <2>1. used' = used /\ crcs' = crcs
    BY <1>7 DEF OnCadBusy, Callback
  <2>2. CASE queue' = queue
    BY <1>2, <2>1, <2>2 DEF queueVars
  <2>3. CASE queue # <<>> /\ queue' = Tail(queue)
    BY <1>1, <2>1, <2>3, QueueInvTail
  <2> QED
    BY <1>7, <2>2, <2>3 DEF OnCadBusy
<1>8. CASE OnCadFree
  <2>1. /\ queue # <<>> /\ queue' = Tail(queue)
        /\ used' = used \ {Head(queue)}
    BY <1>8 DEF OnCadFree, Callback
  <2> QED
    BY <1>1, <2>1, QueueInvTail
<1>9. CASE StuckInTx \/ RetryCad
  BY <1>2, <1>9 DEF StuckInTx, RetryCad
<1>10. CASE StartCad
  <2>1. used' = used /\ queue' = queue
    BY <1>10 DEF StartCad
  <2> QED
    BY <1>1, <2>1 DEF QueueInv, QueueSound, Queued
<1>11. CASE MeshSendRequest
  BY <1>1, <1>11, QueueInvSendRequest
<1>12. CASE Environment
  BY <1>2, <1>12 DEF Environment, RadioEnds, CadEnds, SendEnds, Hears
<1>13. CASE UNCHANGED vars
  BY <1>2, <1>13 DEF vars, queueVars
<1>14. CASE Callbacks
  BY <1>14, <1>5, <1>6, <1>7, <1>8 DEF Callbacks
<1> QED
  BY <1>3, <1>4, <1>6, <1>9, <1>10, <1>11, <1>12, <1>13, <1>14 DEF Next, Cycle

\* Every queued pointer is to an entry in use and no entry is queued twice,
\* for every number of entries: xQueueSend always finds room.
THEOREM SpecQueueSound == Spec => []QueueSound
<1>1. Init => QueueInv
  BY InitQueueInv
<1>2. QueueInv /\ [Next]_vars => QueueInv'
  BY NextQueueInv
<1>3. QueueInv => QueueSound
  BY DEF QueueInv
<1> QED
  BY <1>1, <1>2, <1>3, PTL DEF Spec

(***************************************************************************)
(* CadHasMessage                                                           *)
(***************************************************************************)

CadEvents == {"CadFree", "CadBusy"}

\* There is one CAD at a time: the radio does it, its result waits for its
\* callback, or it waits to be repeated.
CadOnce ==
    /\ at \notin {"callbacks", "rxdone"} => todo = {}
    /\ at \in {"callbacks", "rxdone", "route", "stuck", "send"}
          => mode # "cad" /\ CadEvents \intersect irq = {}
    /\ mode = "cad" => ~detect /\ CadEvents \intersect irq = {}
    /\ CadEvents \intersect (irq \union todo) # {} => ~detect
    /\ ~(CadEvents \subseteq irq \union todo)

CadInv == TypeOK /\ CadOnce /\ CadHasMessage

LEMMA InitCadInv == Init => CadInv
<1> SUFFICES ASSUME Init PROVE CadInv
  OBVIOUS
<1>1. CadOnce /\ CadHasMessage
  BY DEF Init, CadOnce, CadHasMessage, CadEvents
<1> QED
  BY <1>1, InitTypeOK DEF CadInv

LEMMA NextCadInv == CadInv /\ [Next]_vars => CadInv'
<1> SUFFICES ASSUME CadInv, [Next]_vars PROVE CadInv'
  OBVIOUS
<1>1. TypeOK /\ TypeOK'
  BY NextTypeOK DEF CadInv
<1>2. queue \in Seq(Entries)
  BY <1>1 DEF TypeOK
<1> DEFINE Goal == (CadOnce /\ CadHasMessage)'
<1> SUFFICES Goal
  BY <1>1 DEF CadInv
<1> USE DEF CadInv, CadOnce, CadHasMessage, CadEvents
<1>3. ASSUME NEW ok \in BOOLEAN, RadioInit(ok) PROVE Goal
  BY <1>3 DEF RadioInit, queueVars
<1>4. CASE IrqProcess
  BY <1>4 DEF IrqProcess, taskVars, queueVars
<1>5. CASE OnTxDone("TxDone") \/ OnTxTimeout("TxTimeout")
  BY <1>5 DEF OnTxDone, OnTxTimeout, Callback, Listen
<1>6. CASE OnRxDone
  BY <1>6 DEF OnRxDone, Callback, Listen
<1>7. CASE OnRxError
  BY <1>7 DEF OnRxError, Callback, Listen, taskVars
<1>8. CASE RxDoneReturns \/ CallbacksDone
  BY <1>8 DEF RxDoneReturns, CallbacksDone, taskVars, queueVars, radioVars
<1>9. CASE UpdateRoute \/ MeshCommsCycle \/ NotStuck \/ NothingToSend \/ CheckModule
  BY <1>9 DEF UpdateRoute, MeshCommsCycle, Serves, NotStuck, NothingToSend,
              CheckModule, taskVars, queueVars, radioVars
<1>10. CASE OnCadBusy
  BY <1>10 DEF OnCadBusy, Callback, Listen
<1>11. CASE OnCadFree
  BY <1>11 DEF OnCadFree, Callback
<1>12. CASE StuckInTx
  BY <1>12 DEF StuckInTx, Listen, queueVars
<1>13. CASE RetryCad
  BY <1>13 DEF RetryCad, Cad, queueVars
<1>14. CASE StartCad
  BY <1>14 DEF StartCad, Cad
<1>15. CASE MeshSendRequest
  <2>1. queue' # <<>>
    BY <1>2, <1>15 DEF MeshSendRequest
  <2> QED
    BY <1>15, <2>1 DEF MeshSendRequest, taskVars, radioVars
<1>16. CASE RadioEnds
  BY <1>16 DEF RadioEnds, CadEnds, SendEnds, taskVars, queueVars
<1>17. CASE \E e \in {"RxDone", "RxError"} : Hears(e)
  BY <1>17 DEF Hears, taskVars, queueVars
<1>18. CASE UNCHANGED vars
  BY <1>18 DEF vars
<1> HIDE DEF Goal
<1>19. CASE Callbacks
  BY <1>19, <1>5, <1>6, <1>7, <1>8, <1>10, <1>11 DEF Callbacks
<1> QED
  BY <1>3, <1>4, <1>9, <1>12, <1>13, <1>14, <1>15, <1>16, <1>17, <1>18, <1>19
     DEF Next, Cycle, Environment

\* The result of a channel activity detection finds the message the detection
\* was made for still queued, for every limit of retries.
THEOREM SpecCadHasMessage == Spec => []CadHasMessage
<1>1. Init => CadInv
  BY InitCadInv
<1>2. CadInv /\ [Next]_vars => CadInv'
  BY NextCadInv
<1>3. CadInv => CadHasMessage
  BY DEF CadInv
<1> QED
  BY <1>1, <1>2, <1>3, PTL DEF Spec


-----------------------------------------------------------------------------
(***************************************************************************)
(* The route table: the inductive invariant                                *)
(***************************************************************************)

\* A table with a free entry: the node itself is first, c entries are in
\* use, no id twice, and the free ones are as meshRouteInit left them, their
\* stale hops included, which clearSubs reads.
Sound(l, c) ==
    /\ l \in [Indices -> Entry] /\ c \in 1..(MaxNodes - 1)
    /\ l[0].id = Self /\ l[0].hop = NoId
    /\ \A j \in 0..(c - 1) : l[j].id # NoId
    /\ \A j \in Indices : j >= c => l[j] = Empty
    /\ \A j, h \in 0..(c - 1) : l[j].id = l[h].id => j = h

\* The nodes behind a direct neighbour are listed behind it, so that
\* cleanMap's index stands although clearSubs deletes them.
Ordered(l, c) ==
    \A j, h \in 1..(c - 1) : l[j].hop = NoId /\ l[h].hop = l[j].id => j < h

ControlOK ==
    /\ pc \in {"clearSubs", "clearMore", "addSender", "addSubs", "cleanSubs",
               "cleanDelete"} => node \in Others
    /\ pc \in {"clearSubs", "clearMore", "cleanSubs"} =>
          i \in 1..MaxNodes /\ \A j \in 1..(i - 1) : list[j].hop # node
    /\ pc = "addSender" => \A j \in Indices : list[j].hop # node
    /\ pc \in {"cleanMap", "cleanSubs", "cleanDelete"} => k \in 1..MaxNodes
    /\ pc \in {"cleanSubs", "cleanDelete"} => k < count /\ list[k].id = node
    /\ pc = "cleanSubs" => list[k].hop = NoId

RouteInv == RouteTypeOK /\ Sound(list, count) /\ Ordered(list, count) /\ ControlOK

(***************************************************************************)
(* The table: what deleting, refreshing and appending an entry do          *)
(***************************************************************************)

\* A table that has a free entry has room for more nodes than there are.
Room == IsFiniteSet(Others) /\ Cardinality(Others) + 1 < MaxNodes

LEMMA EmptyIs ==
    /\ Empty \in Entry /\ SelfRow \in Entry
    /\ Empty.id = NoId /\ Empty.hop = NoId /\ Empty.hops = 0
    /\ SelfRow.id = Self /\ SelfRow.hop = NoId
<1>1. 0 \in Hops
  BY RouteAssumption DEF Hops
<1>2. Empty \in Entry /\ Empty.id = NoId /\ Empty.hop = NoId /\ Empty.hops = 0
  BY <1>1 DEF Empty, Entry
<1>3. SelfRow \in Entry /\ SelfRow.id = Self /\ SelfRow.hop = NoId
  <2> HIDE DEF Empty
  <2> QED
    BY <1>2 DEF SelfRow, Entry
<1> QED
  BY <1>2, <1>3

\* deleteRoute on a table with a free entry moves the entries behind the
\* deleted one, and leaves every free entry free.
LEMMA DeletedIs ==
    ASSUME NEW l, NEW c, NEW x \in 1..(c - 1), Sound(l, c)
    PROVE  /\ Deleted(l, c, x) \in [Indices -> Entry]
           /\ \A j \in 0..(x - 1) : Deleted(l, c, x)[j] = l[j]
           /\ \A j \in x..(c - 2) : Deleted(l, c, x)[j] = l[j + 1]
           /\ \A j \in Indices : j >= c - 1 => Deleted(l, c, x)[j] = Empty
<1> DEFINE m == Moved(l, x)
<1>1. /\ l \in [Indices -> Entry] /\ c \in 1..(MaxNodes - 1) /\ MaxNodes \in Nat
      /\ \A j \in Indices : j >= c => l[j] = Empty
      /\ x \in Nat /\ c \in Nat /\ x >= 1 /\ x <= c - 1 /\ c <= MaxNodes - 1
  BY RouteAssumption DEF Sound
<1>2. /\ m \in [Indices -> Entry]
      /\ \A j \in Indices : m[j] = IF j >= x /\ j < MaxNodes - 1 THEN l[j + 1] ELSE l[j]
  BY <1>1 DEF Moved, Indices
<1>3. /\ c - 1 \in Indices /\ c \in Indices /\ c - 1 >= x /\ c - 1 < MaxNodes - 1
      /\ (c - 1) + 1 = c
  BY <1>1 DEF Indices
<1>4. m[c - 1] = Empty
  BY <1>1, <1>2, <1>3
<1>5. [m EXCEPT ![c - 1].id = NoId] = m
  <2>1. [m[c - 1] EXCEPT !.id = NoId] = m[c - 1]
    BY <1>4, EmptyIs DEF Empty
  <2> HIDE DEF m
  <2> QED
    BY <2>1, <1>2, <1>3
<1>6. Deleted(l, c, x) = m
  BY <1>5 DEF Deleted
<1>7. \A j \in 0..(x - 1) : j \in Indices /\ ~(j >= x)
  BY <1>1 DEF Indices
<1>8. \A j \in x..(c - 2) : j \in Indices /\ j >= x /\ j < MaxNodes - 1
  BY <1>1 DEF Indices
<1>9. \A j \in Indices : j >= c - 1 => m[j] = Empty
  <2> SUFFICES ASSUME NEW j \in Indices, j >= c - 1 PROVE m[j] = Empty
    OBVIOUS
  <2>1. CASE j < MaxNodes - 1
    <3>1. j >= x /\ j + 1 \in Indices /\ j + 1 >= c
      BY <2>1, <1>1 DEF Indices
    <3> QED
      BY <2>1, <3>1, <1>1, <1>2
  <2>2. CASE ~(j < MaxNodes - 1)
    <3>1. j >= c
      BY <2>2, <1>1 DEF Indices
    <3> QED
      BY <2>2, <3>1, <1>1, <1>2
  <2> QED
    BY <2>1, <2>2
<1> HIDE DEF m
<1> QED
  BY <1>2, <1>6, <1>7, <1>8, <1>9

\* Where an entry of the shorter table was.
Before(x, j) == IF j < x THEN j ELSE j + 1

LEMMA DeletedSound ==
    ASSUME NEW l, NEW c, NEW x \in 1..(c - 1), Sound(l, c)
    PROVE  /\ Sound(Deleted(l, c, x), c - 1)
           /\ \A j \in 0..(c - 2) : /\ Before(x, j) \in 0..(c - 1) \ {x}
                                    /\ Deleted(l, c, x)[j] = l[Before(x, j)]
           /\ \A j \in 0..(c - 2) : Deleted(l, c, x)[j].id # l[x].id
<1> DEFINE d == Deleted(l, c, x)
<1>1. /\ l \in [Indices -> Entry] /\ c \in 1..(MaxNodes - 1) /\ MaxNodes \in Nat
      /\ x \in Nat /\ c \in Nat /\ x >= 1 /\ x <= c - 1 /\ c <= MaxNodes - 1
  BY RouteAssumption DEF Sound
<1>2. /\ d \in [Indices -> Entry]
      /\ \A j \in 0..(x - 1) : d[j] = l[j]
      /\ \A j \in x..(c - 2) : d[j] = l[j + 1]
      /\ \A j \in Indices : j >= c - 1 => d[j] = Empty
  BY DeletedIs
<1> HIDE DEF d
<1>3. \A j \in 0..(c - 2) : /\ Before(x, j) \in 0..(c - 1) \ {x}
                            /\ d[j] = l[Before(x, j)]
  <2> TAKE j \in 0..(c - 2)
  <2>1. CASE j < x
    BY <2>1, <1>1, <1>2 DEF Before
  <2>2. CASE ~(j < x)
    BY <2>2, <1>1, <1>2 DEF Before
  <2> QED
    BY <2>1, <2>2
<1>4. \A j, h \in 0..(c - 2) : Before(x, j) = Before(x, h) => j = h
  BY <1>1 DEF Before
<1>5. d[0] = l[0]
  BY <1>1, <1>2
<1>6. c - 1 \in 1..(MaxNodes - 1) /\ (c - 1) - 1 = c - 2
  BY <1>1
<1>7. /\ \A j \in 0..(c - 1) : l[j].id # NoId
      /\ \A j, h \in 0..(c - 1) : l[j].id = l[h].id => j = h
      /\ l[0].id = Self /\ l[0].hop = NoId
  BY DEF Sound
<1>8. \A j \in 0..(c - 2) : d[j].id # NoId
  BY <1>3, <1>7
<1>9. \A j, h \in 0..(c - 2) : d[j].id = d[h].id => j = h
  BY <1>3, <1>4, <1>7
<1>10. Sound(d, c - 1)
  BY <1>2, <1>5, <1>6, <1>7, <1>8, <1>9 DEF Sound
<1>11. \A j \in 0..(c - 2) : d[j].id # l[x].id
  BY <1>1, <1>3, <1>7
<1> QED
  BY <1>3, <1>10, <1>11 DEF d

LEMMA DeletedOrdered ==
    ASSUME NEW l, NEW c, NEW x \in 1..(c - 1), Sound(l, c), Ordered(l, c)
    PROVE  Ordered(Deleted(l, c, x), c - 1)
<1> DEFINE d == Deleted(l, c, x)
<1>1. x \in Nat /\ c \in Nat /\ x >= 1 /\ x <= c - 1
  BY RouteAssumption DEF Sound
<1>2. \A j \in 0..(c - 2) : /\ Before(x, j) \in 0..(c - 1) \ {x}
                            /\ d[j] = l[Before(x, j)]
  BY DeletedSound
<1> HIDE DEF d
<1> SUFFICES ASSUME NEW j \in 1..(c - 2), NEW h \in 1..(c - 2),
                    d[j].hop = NoId, d[h].hop = d[j].id
             PROVE  j < h
  BY <1>1 DEF Ordered, d
<1>3. /\ Before(x, j) \in 1..(c - 1) /\ d[j] = l[Before(x, j)]
      /\ Before(x, h) \in 1..(c - 1) /\ d[h] = l[Before(x, h)]
  BY <1>1, <1>2 DEF Before
<1>4. Before(x, j) < Before(x, h)
  BY <1>3 DEF Ordered
<1> QED
  BY <1>1, <1>4 DEF Before

\* A new entry goes behind the others.
LEMMA AppendedSound ==
    ASSUME NEW l, NEW c, Sound(l, c), c < MaxNodes - 1,
           NEW row \in Entry, row.id # NoId, \A j \in 0..(c - 1) : l[j].id # row.id
    PROVE  /\ Sound([l EXCEPT ![c] = row], c + 1)
           /\ \A j \in 0..(c - 1) : [l EXCEPT ![c] = row][j] = l[j]
           /\ [l EXCEPT ![c] = row][c] = row
<1> DEFINE a == [l EXCEPT ![c] = row]
<1>1. /\ l \in [Indices -> Entry] /\ c \in 1..(MaxNodes - 1) /\ MaxNodes \in Nat
      /\ c \in Indices
  BY RouteAssumption DEF Sound, Indices
<1>2. /\ a \in [Indices -> Entry] /\ a[c] = row
      /\ \A j \in Indices \ {c} : a[j] = l[j]
  BY <1>1
<1> HIDE DEF a
<1>3. \A j \in 0..(c - 1) : j \in Indices \ {c} /\ a[j] = l[j]
  BY <1>1, <1>2 DEF Indices
<1>4. c + 1 \in 1..(MaxNodes - 1) /\ (c + 1) - 1 = c
  BY <1>1
<1>5. \A j \in 0..c : j \in 0..(c - 1) \/ j = c
  BY <1>1
<1>6. a[0].id = Self /\ a[0].hop = NoId
  BY <1>1, <1>3 DEF Sound
<1>7. \A j \in 0..c : a[j].id # NoId
  BY <1>2, <1>3, <1>5 DEF Sound
<1>8. \A j \in Indices : j >= c + 1 => a[j] = Empty
  <2>1. \A j \in Indices : j >= c + 1 => j >= c /\ j # c
    BY <1>1 DEF Indices
  <2> QED
    BY <1>2, <2>1 DEF Sound
<1>9. \A j, h \in 0..c : a[j].id = a[h].id => j = h
  BY <1>2, <1>3, <1>5 DEF Sound
<1>10. Sound(a, c + 1)
  BY <1>2, <1>4, <1>6, <1>7, <1>8, <1>9 DEF Sound
<1> QED
  BY <1>2, <1>3, <1>10 DEF a

\* ... in order, if it is not a direct neighbour with nodes listed before it.
LEMMA AppendedOrdered ==
    ASSUME NEW l, NEW c, Sound(l, c), Ordered(l, c), c < MaxNodes - 1,
           NEW row \in Entry, row.id # NoId, \A j \in 0..(c - 1) : l[j].id # row.id,
           row.hop # row.id,
           row.hop = NoId => \A j \in 0..(c - 1) : l[j].hop # row.id
    PROVE  Ordered([l EXCEPT ![c] = row], c + 1)
<1> DEFINE a == [l EXCEPT ![c] = row]
<1>1. c \in Nat /\ c >= 1
  BY RouteAssumption DEF Sound
<1>2. a[c] = row
  BY RouteAssumption DEF Sound, Indices
<1>3. \A j \in 0..(c - 1) : a[j] = l[j]
  BY AppendedSound
<1> HIDE DEF a
<1> SUFFICES ASSUME NEW j \in 1..c, NEW h \in 1..c, a[j].hop = NoId, a[h].hop = a[j].id
             PROVE  j < h
  BY <1>1 DEF Ordered, a
<1>4. CASE j = c
  <2>1. h # c
    BY <1>2, <1>4
  <2>2. h \in 0..(c - 1)
    BY <1>1, <2>1
  <2> QED
    BY <1>2, <1>4, <1>3, <2>2
<1>5. CASE j # c /\ h = c
  BY <1>1, <1>5
<1>6. CASE j # c /\ h # c
  <2>1. j \in 1..(c - 1) /\ h \in 1..(c - 1) /\ j \in 0..(c - 1) /\ h \in 0..(c - 1)
    BY <1>1, <1>6
  <2> QED
    BY <1>3, <2>1 DEF Ordered
<1> QED
  BY <1>4, <1>5, <1>6

\* A change of one entry that keeps its node and its way.
LEMMA RewrittenSound ==
    ASSUME NEW l, NEW c, Sound(l, c), Ordered(l, c), NEW x \in 0..(c - 1),
           NEW m \in [Indices -> Entry], \A j \in Indices \ {x} : m[j] = l[j],
           m[x].id = l[x].id, m[x].hop = l[x].hop
    PROVE  /\ Sound(m, c) /\ Ordered(m, c)
           /\ \A j \in Indices : m[j].id = l[j].id /\ m[j].hop = l[j].hop
<1>1. c \in Nat /\ c >= 1 /\ c <= MaxNodes - 1 /\ MaxNodes \in Nat
  BY RouteAssumption DEF Sound
<1>2. \A j \in Indices : m[j].id = l[j].id /\ m[j].hop = l[j].hop
  OBVIOUS
<1>3. 0..(c - 1) \subseteq Indices /\ 1..(c - 1) \subseteq Indices /\ 0 \in Indices
  BY <1>1 DEF Indices
<1>4. \A j \in Indices : j >= c => j # x
  BY <1>1 DEF Indices
<1>5. Sound(m, c)
  BY <1>2, <1>3, <1>4 DEF Sound
<1>6. Ordered(m, c)
  BY <1>2, <1>3 DEF Ordered
<1> QED
  BY <1>2, <1>5, <1>6

\* The nodes fit: while one is not listed, an entry is left for it and
\* another one stays free.
LEMMA Fits ==
    ASSUME Room, NEW l, NEW c, Sound(l, c), NEW n \in Others,
           \A j \in 0..(c - 1) : l[j].id # n
    PROVE  c < MaxNodes - 1
<1> DEFINE Positions == 0..(c - 1)
           Rest == (Others \ {n}) \union {Self}
           f == [j \in Positions |-> l[j].id]
<1>1. /\ c \in Nat /\ c >= 1 /\ c <= MaxNodes - 1 /\ MaxNodes \in Nat
      /\ Self \notin Others
  BY RouteAssumption DEF Sound
<1>2. Positions \subseteq Indices /\ 0 \in Positions
  BY <1>1 DEF Indices
<1>3. \A j \in Positions : l[j].id \in Rest
  <2>1. \A j \in Positions : l[j].id \in Others \union {Self, NoId} /\ l[j].id # NoId
    BY <1>2 DEF Sound, Entry
  <2> QED
    BY <2>1
<1>4. f \in [Positions -> Rest]
  BY <1>3
<1>5. IsFiniteSet(Rest) /\ Cardinality(Rest) = Cardinality(Others) /\ Cardinality(Others) \in Nat
  <2>1. IsFiniteSet(Others) /\ Cardinality(Others) \in Nat
    BY FS_CardinalityType DEF Room
  <2>2. IsFiniteSet(Others \ {n}) /\ Cardinality(Others \ {n}) = Cardinality(Others) - 1
    BY <2>1, FS_RemoveElement
  <2>3. /\ IsFiniteSet((Others \ {n}) \union {Self})
        /\ Cardinality((Others \ {n}) \union {Self}) = Cardinality(Others \ {n}) + 1
    BY <1>1, <2>2, FS_AddElement
  <2> QED
    BY <2>1, <2>2, <2>3
<1>6. IsFiniteSet(Positions) /\ Cardinality(Positions) = c
  <2> DEFINE last == c - 1
  <2>1. last \in Int /\ ~(0 > last) /\ last - 0 + 1 = c
    BY <1>1
  <2>2. Positions = 0..last
    OBVIOUS
  <2> HIDE DEF last, Positions
  <2>3. IsFiniteSet(0..last) /\ Cardinality(0..last) = last - 0 + 1
    BY <2>1, FS_Interval
  <2> QED
    BY <2>1, <2>2, <2>3
<1>7. \A x, y \in Positions : f[x] = f[y] => x = y
  BY DEF Sound
<1> HIDE DEF Positions, Rest, f
<1>8. ~(Cardinality(Rest) < Cardinality(Positions))
  BY <1>4, <1>5, <1>6, <1>7, FS_PigeonHole
<1> QED
  BY <1>1, <1>5, <1>6, <1>8 DEF Room

\* addNode's first part changes flags only.
LEMMA RefreshedIs ==
    ASSUME NEW l \in [Indices -> Entry], NEW x \in Indices, NEW row \in Entry
    PROVE  /\ Refreshed(l, x, row) \in [Indices -> Entry]
           /\ \A j \in Indices \ {x} : Refreshed(l, x, row)[j] = l[j]
           /\ Refreshed(l, x, row)[x].id = l[x].id
           /\ Refreshed(l, x, row)[x].hop = l[x].hop
           /\ Refreshed(l, x, row)[x].hops = l[x].hops
<1> DEFINE e == l[x]
           old == e.old /\ l[x].cloud = row.cloud
                        /\ ~(l[x].hop = NoId /\ row.hop = NoId)
           n == [e EXCEPT !.cloud = row.cloud, !.old = old]
<1>1. Refreshed(l, x, row) = [l EXCEPT ![x] = n]
  BY DEF Refreshed
<1>2. old \in BOOLEAN
  OBVIOUS
<1>3. e \in Entry /\ row.cloud \in BOOLEAN
  BY DEF Entry
<1> HIDE DEF e, old
<1>4. n \in Entry /\ n.id = e.id /\ n.hop = e.hop /\ n.hops = e.hops
  <2> DEFINE b == [e EXCEPT !.cloud = row.cloud]
  <2>1. b \in Entry /\ b.id = e.id /\ b.hop = e.hop /\ b.hops = e.hops
    BY <1>3 DEF Entry
  <2>2. n = [b EXCEPT !.old = old]
    OBVIOUS
  <2> HIDE DEF b, n
  <2> QED
    BY <1>2, <2>1, <2>2 DEF Entry
<1> HIDE DEF n
<1>5. [l EXCEPT ![x] = n] \in [Indices -> Entry] /\ [l EXCEPT ![x] = n][x] = n
  BY <1>4
<1>6. \A j \in Indices \ {x} : [l EXCEPT ![x] = n][j] = l[j]
  OBVIOUS
<1> QED
  BY <1>1, <1>4, <1>5, <1>6 DEF e

\* A node that is listed is listed once: the search finds it there.
LEMMA Found ==
    ASSUME NEW l, NEW c, Sound(l, c), NEW n \in Others \union {Self},
           NEW x \in 0..(c - 1), l[x].id = n
    PROVE  Min({j \in Indices : l[j].id = n}) = x
<1>1. 0..(c - 1) \subseteq Indices /\ c \in Nat /\ NoId \notin Others \union {Self}
  BY RouteAssumption DEF Sound, Indices
<1>2. \A j \in Indices : ~(j >= c) => j \in 0..(c - 1)
  BY <1>1, RouteAssumption DEF Indices
<1>3. \A j \in Indices : j >= c => l[j].id = NoId
  BY EmptyIs DEF Sound
<1>4. {j \in Indices : l[j].id = n} = {x}
  BY <1>1, <1>2, <1>3 DEF Sound
<1>5. x <= x
  BY <1>1
<1> QED
  BY <1>4, <1>5 DEF Min

LEMMA KnownIs ==
    ASSUME Sound(list, count)
    PROVE  \A n : n \in Known <=> \E j \in 0..(count - 1) : list[j].id = n
<1>1. 0..(count - 1) \subseteq Indices /\ count \in Nat
  BY RouteAssumption DEF Sound, Indices
<1>2. \A j \in Indices : ~(j >= count) => j \in 0..(count - 1)
  BY <1>1, RouteAssumption DEF Indices
<1>3. \A j \in Indices : j >= count => list[j].id = NoId
  BY EmptyIs DEF Sound
<1> QED
  BY <1>1, <1>2, <1>3 DEF Known, Sound

-----------------------------------------------------------------------------
(***************************************************************************)
(* addNode                                                                 *)
(***************************************************************************)

\* The way to a node gets no worse.
AsNear(old, new) ==
    /\ old.hop = NoId => new.hop = NoId
    /\ new.hop # NoId => new.hops <= old.hops

\* Each entry of the new table is about a new node or as near as it was.
Follows(l, c, m, d) ==
    \A j \in 0..(d - 1) : \A h \in 0..(c - 1) :
        l[h].id = m[j].id => AsNear(l[h], m[j])

LEMMA AsNearSame ==
    ASSUME NEW e \in Entry
    PROVE  \A f : f.hop = e.hop /\ f.hops = e.hops => AsNear(e, f)
<1>1. e.hops <= e.hops
  BY RouteAssumption DEF Entry, Hops
<1> QED
  BY <1>1 DEF AsNear

\* What a node map can say of a node, seen from the table it comes to.
Fitting(l, c, row) ==
    /\ row \in Entry /\ row.id \in Others /\ row.hop # row.id
    /\ row.hop = NoId => \A j \in 0..(c - 1) : l[j].hop # row.id

\* A known node is refreshed and stays where it is ...
AddNodeKeeps(x, row) ==
    /\ list' = Refreshed(list, x, row) /\ count' = count

\* ... or is deleted and comes back behind the others ...
AddNodeReplaces(x, row) ==
    /\ list' = [Deleted(Refreshed(list, x, row), count, x) EXCEPT ![count - 1] = row]
    /\ count' = count
    /\ list[x].hop # NoId /\ (row.hop # NoId => row.hops <= list[x].hops)

\* ... and a new one is put there: a full table is never met.
AddNodeAppends(row) ==
    /\ list' = [list EXCEPT ![count] = row] /\ count' = count + 1
    /\ count < MaxNodes - 1
    /\ \A j \in 0..(count - 1) : list[j].id # row.id

LEMMA AddNodeIs ==
    ASSUME Room, Sound(list, count), NEW row \in Entry, row.id \in Others, AddNode(row)
    PROVE  \/ \E x \in 1..(count - 1) :
                /\ list[x].id = row.id
                /\ AddNodeKeeps(x, row) \/ AddNodeReplaces(x, row)
           \/ AddNodeAppends(row)
<1>1. /\ count \in Nat /\ count >= 1 /\ count <= MaxNodes - 1 /\ MaxNodes \in Nat
      /\ Self \notin Others /\ list \in [Indices -> Entry] /\ list[0].id = Self
      /\ 0..(count - 1) \subseteq Indices
  BY RouteAssumption DEF Sound, Indices
<1>2. CASE row.id \in Known
  <2> DEFINE x == IndexOf(row.id)
             l == Refreshed(list, x, row)
  <2>1. PICK y \in 0..(count - 1) : list[y].id = row.id
    BY <1>2, KnownIs
  <2>2. x = y
    BY <2>1, Found DEF IndexOf
  <2>3. y # 0
    BY <1>1, <2>1
  <2>4. y \in 1..(count - 1)
    BY <1>1, <2>1, <2>3
  <2>5. CASE Keeps(list[x], row)
    <3>1. list' = l /\ count' = count
      BY <1>2, <2>5 DEF AddNode
    <3>2. AddNodeKeeps(y, row)
      BY <2>2, <3>1 DEF AddNodeKeeps
    <3> QED
      BY <2>1, <2>4, <3>2
  <2>6. CASE ~Keeps(list[x], row)
    <3>1. /\ list' = Appended(Deleted(l, count, x), count - 1, row)
          /\ count' = AppendedCount(count - 1)
      BY <1>2, <2>6 DEF AddNode
    <3>2. ~(count - 1 >= MaxNodes) /\ (count - 1) + 1 = count
      BY <1>1
    <3>3. /\ list' = [Deleted(l, count, x) EXCEPT ![count - 1] = row]
          /\ count' = count
      BY <3>1, <3>2 DEF Appended, AppendedCount
    <3>4. list[x].hop # NoId /\ ~(row.hop # NoId /\ list[x].hops < row.hops)
      BY <2>6 DEF Keeps
    <3>5. list[x].hops \in Int /\ row.hops \in Int
      <4>1. list[x] \in Entry
        BY <1>1, <2>1, <2>2
      <4> QED
        BY <4>1, RouteAssumption DEF Entry, Hops
    <3>6. row.hop # NoId => row.hops <= list[x].hops
      BY <3>4, <3>5
    <3>7. AddNodeReplaces(y, row)
      BY <2>2, <3>3, <3>4, <3>6 DEF AddNodeReplaces
    <3> QED
      BY <2>1, <2>4, <3>7
  <2> QED
    BY <2>5, <2>6
<1>3. CASE row.id \notin Known
  <2>1. \A j \in 0..(count - 1) : list[j].id # row.id
    BY <1>3, KnownIs
  <2>2. count < MaxNodes - 1
    BY <2>1, Fits
  <2>3. ~(count >= MaxNodes)
    BY <1>1, <2>2
  <2>4. list' = Appended(list, count, row) /\ count' = AppendedCount(count)
    BY <1>3 DEF AddNode
  <2>5. list' = [list EXCEPT ![count] = row] /\ count' = count + 1
    BY <2>3, <2>4 DEF Appended, AppendedCount
  <2> QED
    BY <2>1, <2>2, <2>5 DEF AddNodeAppends
<1> QED
  BY <1>2, <1>3

\* A table with a node appended.
LEMMA AppendedFollows ==
    ASSUME NEW l, NEW c, Sound(l, c), Ordered(l, c), c < MaxNodes - 1,
           NEW row, Fitting(l, c, row), \A j \in 0..(c - 1) : l[j].id # row.id
    PROVE  /\ Sound([l EXCEPT ![c] = row], c + 1)
           /\ Ordered([l EXCEPT ![c] = row], c + 1)
           /\ \A j \in 0..c : \/ j \in 0..(c - 1) /\ [l EXCEPT ![c] = row][j] = l[j]
                              \/ [l EXCEPT ![c] = row][j] = row
<1>1. row \in Entry /\ row.id # NoId /\ row.hop # row.id
  BY RouteAssumption DEF Fitting
<1>2. row.hop = NoId => \A j \in 0..(c - 1) : l[j].hop # row.id
  BY DEF Fitting
<1>3. Sound([l EXCEPT ![c] = row], c + 1)
  BY <1>1, AppendedSound
<1>4. Ordered([l EXCEPT ![c] = row], c + 1)
  BY <1>1, <1>2, AppendedOrdered
<1>5. \A j \in 0..(c - 1) : [l EXCEPT ![c] = row][j] = l[j]
  BY <1>1, AppendedSound
<1>6. [l EXCEPT ![c] = row][c] = row
  BY RouteAssumption DEF Sound, Indices
<1>7. \A j \in 0..c : j \in 0..(c - 1) \/ j = c
  BY RouteAssumption DEF Sound
<1> QED
  BY <1>3, <1>4, <1>5, <1>6, <1>7

LEMMA AddNodeOK ==
    ASSUME Room, Sound(list, count), Ordered(list, count),
           NEW row, Fitting(list, count, row), AddNode(row)
    PROVE  /\ Sound(list, count)' /\ Ordered(list, count)'
           /\ Follows(list, count, list', count')
<1>1. /\ count \in Nat /\ count >= 1 /\ count <= MaxNodes - 1 /\ MaxNodes \in Nat
      /\ list \in [Indices -> Entry] /\ 0..(count - 1) \subseteq Indices
  BY RouteAssumption DEF Sound, Indices
<1>2. /\ row \in Entry /\ row.id \in Others /\ row.id # NoId /\ row.hop # row.id
      /\ row.hop = NoId => \A j \in 0..(count - 1) : list[j].hop # row.id
  BY RouteAssumption DEF Fitting
<1>3. \A j, h \in 0..(count - 1) : list[j].id = list[h].id => j = h
  BY DEF Sound
<1>4. ASSUME NEW x \in 1..(count - 1), list[x].id = row.id,
             AddNodeKeeps(x, row) \/ AddNodeReplaces(x, row)
      PROVE  /\ Sound(list, count)' /\ Ordered(list, count)'
             /\ Follows(list, count, list', count')
  <2> DEFINE l == Refreshed(list, x, row)
  <2>1. x \in 0..(count - 1) /\ x \in Indices
    BY <1>1
  <2>2. /\ l \in [Indices -> Entry]
        /\ \A j \in Indices \ {x} : l[j] = list[j]
        /\ l[x].id = list[x].id /\ l[x].hop = list[x].hop /\ l[x].hops = list[x].hops
    BY <1>1, <1>2, <2>1, RefreshedIs
  <2> HIDE DEF l
  <2>3. /\ Sound(l, count) /\ Ordered(l, count)
        /\ \A j \in Indices : l[j].id = list[j].id /\ l[j].hop = list[j].hop
    BY <2>1, <2>2, RewrittenSound
  <2>4. \A j \in 0..(count - 1) :
            /\ l[j].id = list[j].id /\ l[j].hop = list[j].hop /\ l[j].hops = list[j].hops
            /\ AsNear(list[j], l[j])
    BY <1>1, <2>2, AsNearSame
  <2>5. CASE AddNodeKeeps(x, row)
    <3>1. list' = l /\ count' = count
      BY <2>5 DEF AddNodeKeeps, l
    <3>2. Follows(list, count, l, count)
      BY <1>3, <2>4 DEF Follows
    <3> QED
      BY <2>3, <3>1, <3>2
  <2>6. CASE AddNodeReplaces(x, row)
    <3> DEFINE d == Deleted(l, count, x)
               a == [d EXCEPT ![count - 1] = row]
    <3>1. list' = a /\ count' = count /\ AsNear(list[x], row)
      BY <2>6 DEF AddNodeReplaces, l, AsNear
    <3>2. /\ Sound(d, count - 1) /\ Ordered(d, count - 1)
          /\ \A j \in 0..(count - 2) : /\ Before(x, j) \in 0..(count - 1) \ {x}
                                       /\ d[j] = l[Before(x, j)]
                                       /\ d[j].id # l[x].id
      BY <2>3, DeletedSound, DeletedOrdered
    <3> HIDE DEF d
    <3>3. /\ count - 1 < MaxNodes - 1 /\ (count - 1) + 1 = count /\ (count - 1) - 1 = count - 2
          /\ \A j \in 0..(count - 2) : d[j].id # row.id
      BY <1>1, <1>4, <2>2, <3>2
    <3>4. \A j \in 0..(count - 2) : \E h \in 0..(count - 1) : d[j] = l[h]
      BY <3>2
    <3>5. Fitting(d, count - 1, row)
      <4>1. row.hop = NoId => \A j \in 0..(count - 2) : d[j].hop # row.id
        BY <1>2, <2>4, <3>4
      <4> QED
        BY <1>2, <3>3, <4>1 DEF Fitting
    <3> DEFINE c == count - 1
    <3>6. /\ Sound(d, c) /\ Ordered(d, c) /\ c < MaxNodes - 1 /\ Fitting(d, c, row)
          /\ \A j \in 0..(c - 1) : d[j].id # row.id
      BY <3>2, <3>3, <3>5
    <3>7. a = [d EXCEPT ![c] = row] /\ c + 1 = count /\ c - 1 = count - 2
      BY <3>3
    <3> HIDE DEF c
    <3>8. /\ Sound([d EXCEPT ![c] = row], c + 1)
          /\ Ordered([d EXCEPT ![c] = row], c + 1)
          /\ \A j \in 0..c : \/ j \in 0..(c - 1) /\ [d EXCEPT ![c] = row][j] = d[j]
                             \/ [d EXCEPT ![c] = row][j] = row
      BY <3>6, AppendedFollows
    <3> HIDE DEF a
    <3>9. /\ Sound(a, count) /\ Ordered(a, count)
          /\ \A j \in 0..(count - 1) : (j \in 0..(count - 2) /\ a[j] = d[j]) \/ a[j] = row
      BY <3>7, <3>8 DEF c
    <3>10. \A j \in 0..(count - 1) : a[j] = row \/ \E h \in 0..(count - 1) : a[j] = l[h]
      BY <3>4, <3>9
    <3>11. Follows(list, count, a, count)
      <4> SUFFICES ASSUME NEW j \in 0..(count - 1), NEW h \in 0..(count - 1),
                          list[h].id = a[j].id
                   PROVE  AsNear(list[h], a[j])
        BY DEF Follows
      <4>1. CASE a[j] = row
        BY <1>3, <1>4, <2>1, <3>1, <4>1
      <4>2. CASE \E g \in 0..(count - 1) : a[j] = l[g]
        BY <1>3, <2>4, <4>2
      <4> QED
        BY <3>10, <4>1, <4>2
    <3> QED
      BY <3>1, <3>9, <3>11
  <2> QED
    BY <1>4, <2>5, <2>6
<1>5. CASE AddNodeAppends(row)
  <2>1. /\ list' = [list EXCEPT ![count] = row] /\ count' = count + 1
        /\ count < MaxNodes - 1
        /\ \A j \in 0..(count - 1) : list[j].id # row.id
    BY <1>5 DEF AddNodeAppends
  <2>2. /\ Sound([list EXCEPT ![count] = row], count + 1)
        /\ Ordered([list EXCEPT ![count] = row], count + 1)
        /\ \A j \in 0..count :
              \/ j \in 0..(count - 1) /\ [list EXCEPT ![count] = row][j] = list[j]
              \/ [list EXCEPT ![count] = row][j] = row
    BY <2>1, AppendedFollows
  <2>3. (count + 1) - 1 = count
    BY <1>1
  <2>4. /\ Sound(list', count') /\ Ordered(list', count')
        /\ \A j \in 0..(count' - 1) : (j \in 0..(count - 1) /\ list'[j] = list[j]) \/ list'[j] = row
    BY <2>1, <2>2, <2>3
  <2>5. \A j \in 0..(count - 1) : AsNear(list[j], list[j])
    BY <1>1, AsNearSame
  <2>6. Follows(list, count, list', count')
    <3> SUFFICES ASSUME NEW j \in 0..(count' - 1), NEW h \in 0..(count - 1),
                        list[h].id = list'[j].id
                 PROVE  AsNear(list[h], list'[j])
      BY DEF Follows
    <3> QED
      BY <1>3, <2>1, <2>4, <2>5
  <2> QED
    BY <2>4, <2>6
<1> QED
  BY <1>2, <1>4, <1>5, AddNodeIs

-----------------------------------------------------------------------------
(***************************************************************************)
(* The steps                                                               *)
(***************************************************************************)

LEMMA SameFollows ==
    ASSUME NEW l, NEW c, Sound(l, c), NEW m, NEW d,
           d <= c, d \in Nat,
           \A j \in 0..(c - 1) : m[j].id = l[j].id /\ m[j].hop = l[j].hop /\ m[j].hops = l[j].hops
    PROVE  Follows(l, c, m, d)
<1>1. c \in Nat /\ 0..(c - 1) \subseteq Indices /\ 0..(d - 1) \subseteq 0..(c - 1)
  BY RouteAssumption DEF Sound, Indices
<1>2. \A j \in 0..(c - 1) : l[j] \in Entry
  BY <1>1 DEF Sound
<1>3. \A j \in 0..(c - 1) : AsNear(l[j], m[j])
  BY <1>2, AsNearSame
<1> QED
  BY <1>1, <1>3 DEF Follows, Sound

LEMMA DeletedFollows ==
    ASSUME NEW l, NEW c, NEW x \in 1..(c - 1), Sound(l, c)
    PROVE  Follows(l, c, Deleted(l, c, x), c - 1)
<1> DEFINE d == Deleted(l, c, x)
<1>1. c \in Nat /\ 0..(c - 1) \subseteq Indices /\ (c - 1) - 1 = c - 2
  BY RouteAssumption DEF Sound, Indices
<1>2. \A j \in 0..(c - 2) : Before(x, j) \in 0..(c - 1) /\ d[j] = l[Before(x, j)]
  BY DeletedSound
<1> HIDE DEF d
<1>3. \A j \in 0..(c - 2) : \E h \in 0..(c - 1) : d[j] = l[h]
  BY <1>2
<1>4. \A h \in 0..(c - 1) : AsNear(l[h], l[h])
  BY <1>1, AsNearSame DEF Sound
<1>5. \A g, h \in 0..(c - 1) : l[g].id = l[h].id => g = h
  BY DEF Sound
<1> QED
  BY <1>1, <1>3, <1>4, <1>5 DEF Follows, d

\* What the invariant says of a table in use.
LEMMA TableIs ==
    ASSUME RouteInv
    PROVE  /\ MaxNodes \in Nat /\ count \in Nat /\ count >= 1 /\ count <= MaxNodes - 1
           /\ list \in [Indices -> Entry] /\ 0..(count - 1) \subseteq Indices
           /\ list[0].id = Self /\ list[0].hop = NoId /\ 0 \in Indices
           /\ NoId \notin Others /\ Self \notin Others
           /\ Sound(list, count) /\ Ordered(list, count)
           /\ \A j \in Indices : j < count <=> j \in 0..(count - 1)
           /\ \A j \in Indices : j >= count => list[j].id = NoId /\ list[j].hop = NoId
           /\ \A j \in 1..(count - 1) : list[j].id \in Others
<1>1. /\ MaxNodes \in Nat /\ count \in Nat /\ count >= 1 /\ count <= MaxNodes - 1
      /\ list \in [Indices -> Entry] /\ 0..(count - 1) \subseteq Indices
      /\ list[0].id = Self /\ list[0].hop = NoId /\ 0 \in Indices
      /\ NoId \notin Others /\ Self \notin Others
      /\ Sound(list, count) /\ Ordered(list, count)
      /\ \A j \in Indices : j < count <=> j \in 0..(count - 1)
  BY RouteAssumption DEF RouteInv, Sound, Indices
<1>2. \A j \in Indices : j >= count => list[j].id = NoId /\ list[j].hop = NoId
  BY EmptyIs DEF RouteInv, Sound
<1>3. \A j \in 1..(count - 1) : list[j].id \in Others
  <2> TAKE j \in 1..(count - 1)
  <2>1. j \in 0..(count - 1) /\ j # 0 /\ 0 \in 0..(count - 1)
    BY <1>1
  <2>2. list[j].id # NoId /\ list[j].id # Self
    BY <1>1, <2>1 DEF Sound
  <2>3. list[j].id \in Others \union {Self, NoId}
    BY <1>1, <2>1 DEF Entry
  <2> QED
    BY <2>2, <2>3
<1> QED
  BY <1>1, <1>2, <1>3

LEMMA InitRouteInv == ASSUME Room, RouteInit PROVE RouteInv
<1>1. /\ list = [j \in Indices |-> IF j = 0 THEN SelfRow ELSE Empty]
      /\ count = 1 /\ pc = "idle" /\ node = NoId /\ i = 0 /\ k = 0 /\ told = {}
  BY DEF RouteInit
<1>2. MaxNodes \in Nat /\ MaxNodes > 1 /\ Self # NoId /\ 0 \in Indices
  <2>1. Cardinality(Others) \in Nat
    BY FS_CardinalityType DEF Room
  <2> QED
    BY <2>1, RouteAssumption DEF Room, Indices
<1>3. /\ list \in [Indices -> Entry] /\ list[0] = SelfRow
      /\ \A j \in Indices : j >= 1 => list[j] = Empty
  BY <1>1, <1>2, EmptyIs DEF Indices
<1>4. Sound(list, count)
  <2>1. count = 1 /\ 1 \in 1..(MaxNodes - 1) /\ 0..(1 - 1) = {0}
    BY <1>1, <1>2
  <2> QED
    BY <2>1, <1>2, <1>3, EmptyIs DEF Sound
<1>5. Ordered(list, count)
  BY <1>1 DEF Ordered
<1>6. RouteTypeOK
  BY <1>1, <1>2, <1>3 DEF RouteTypeOK
<1>7. ControlOK
  BY <1>1 DEF ControlOK
<1> QED
  BY <1>4, <1>5, <1>6, <1>7 DEF RouteInv

\* The part of the type invariant that is not about the table.
ControlTypeOK ==
    /\ pc \in {"idle", "clearSubs", "clearMore", "addSender", "addSubs",
               "cleanMap", "cleanSubs", "cleanDelete"}
    /\ node \in Others \union {NoId}
    /\ i \in 0..MaxNodes /\ k \in 0..MaxNodes
    /\ told \subseteq Others

LEMMA TypeFollows ==
    /\ Sound(list, count) /\ ControlTypeOK => RouteTypeOK
    /\ (Sound(list, count) /\ ControlTypeOK)' => RouteTypeOK'
<1>1. 1..(MaxNodes - 1) \subseteq 0..MaxNodes
  BY RouteAssumption
<1> QED
  BY <1>1 DEF Sound, ControlTypeOK, RouteTypeOK

\* A step that leaves the table alone.
LEMMA ControlStep ==
    ASSUME RouteInv, UNCHANGED <<list, count>>, ControlTypeOK', ControlOK'
    PROVE  RouteInv' /\ Follows(list, count, list', count')
<1>1. Sound(list, count)' /\ Ordered(list, count)'
  BY DEF RouteInv, Sound, Ordered
<1>2. Follows(list, count, list, count)
  BY TableIs, SameFollows
<1> QED
  BY <1>1, <1>2, TypeFollows DEF RouteInv

LEMMA ReceiveMapOK ==
    ASSUME RouteInv, NEW src \in Others, ReceiveMap(src)
    PROVE  RouteInv' /\ Follows(list, count, list', count')
<1>1. /\ pc' = "clearSubs" /\ node' = src /\ i' = 1 /\ told' = {}
      /\ list' = list /\ count' = count /\ k' = k
  BY DEF ReceiveMap
<1>2. k \in 0..MaxNodes /\ MaxNodes \in Nat /\ 1 \in 1..MaxNodes /\ 1..(1 - 1) = {}
  BY RouteAssumption DEF RouteInv, RouteTypeOK
<1>3. ControlTypeOK'
  BY <1>1, <1>2 DEF ControlTypeOK
<1>4. ControlOK'
  BY <1>1, <1>2 DEF ControlOK
<1> QED
  BY <1>1, <1>3, <1>4, ControlStep

LEMMA ReceiveMoreOK ==
    ASSUME RouteInv, ReceiveMore
    PROVE  RouteInv' /\ Follows(list, count, list', count')
<1>1. /\ pc = "addSubs" /\ pc' = "clearMore" /\ i' = 1
      /\ list' = list /\ count' = count /\ node' = node /\ k' = k /\ told' = told
  BY DEF ReceiveMore
<1>2. /\ k \in 0..MaxNodes /\ MaxNodes \in Nat /\ 1 \in 1..MaxNodes /\ 1..(1 - 1) = {}
      /\ node \in Others /\ told \subseteq Others
  BY <1>1, RouteAssumption DEF RouteInv, RouteTypeOK, ControlOK
<1>3. ControlTypeOK'
  BY <1>1, <1>2 DEF ControlTypeOK
<1>4. ControlOK'
  BY <1>1, <1>2 DEF ControlOK
<1> QED
  BY <1>1, <1>3, <1>4, ControlStep

LEMMA ClearPassOK ==
    ASSUME RouteInv, ClearPass
    PROVE  RouteInv' /\ Follows(list, count, list', count')
<1>1. /\ pc \in {"clearSubs", "clearMore", "cleanSubs"} /\ i < MaxNodes
      /\ pc' = pc /\ node' = node /\ k' = k /\ told' = told
  BY DEF ClearPass
<1>2. /\ node \in Others /\ i \in 1..MaxNodes /\ \A j \in 1..(i - 1) : list[j].hop # node
      /\ pc = "cleanSubs" => k \in 1..MaxNodes /\ k < count /\ list[k].id = node
                             /\ list[k].hop = NoId
      /\ k \in 0..MaxNodes /\ told \subseteq Others
  BY <1>1 DEF RouteInv, ControlOK, RouteTypeOK
<1>3. CASE list[i].hop = node
  <2> DEFINE d == Deleted(list, count, i)
  <2>1. list' = d /\ count' = count - 1 /\ i' = i
    BY <1>3 DEF ClearPass
  <2>2. i \in 1..(count - 1)
    BY <1>1, <1>2, <1>3, TableIs DEF Indices
  <2>3. Sound(d, count - 1) /\ Ordered(d, count - 1) /\ Follows(list, count, d, count - 1)
    BY <2>2, TableIs, DeletedSound, DeletedOrdered, DeletedFollows
  <2>4. \A j \in 0..(i - 1) : d[j] = list[j]
    BY <2>2, TableIs, DeletedIs
  <2> HIDE DEF d
  <2>5. Sound(list, count)' /\ Ordered(list, count)' /\ Follows(list, count, list', count')
    BY <2>1, <2>3
  <2>6. \A j \in 1..(i - 1) : d[j].hop # node
    BY <1>2, <2>4
  <2>7. pc = "cleanSubs" => k < count - 1 /\ d[k].id = node /\ d[k].hop = NoId
    <3> SUFFICES ASSUME pc = "cleanSubs"
                 PROVE  k < count - 1 /\ d[k].id = node /\ d[k].hop = NoId
      OBVIOUS
    <3>1. k \in 1..(count - 1)
      BY <1>2, TableIs
    <3>2. k < i
      BY <1>2, <1>3, <2>2, <3>1, TableIs DEF Ordered
    <3>3. k \in 0..(i - 1) /\ k < count - 1
      BY <2>2, <3>1, <3>2, TableIs
    <3> QED
      BY <1>2, <2>4, <3>3
  <2>8. i \in 0..MaxNodes
    BY <1>2, TableIs
  <2>9. ControlTypeOK'
    BY <1>1, <1>2, <2>1, <2>8 DEF ControlTypeOK
  <2>10. ControlOK'
    BY <1>1, <1>2, <2>1, <2>6, <2>7 DEF ControlOK
  <2> QED
    BY <2>5, <2>9, <2>10, TypeFollows DEF RouteInv
<1>4. CASE list[i].hop # node
  <2>1. list' = list /\ count' = count /\ i' = i + 1
    BY <1>4 DEF ClearPass
  <2>2. i + 1 \in 1..MaxNodes /\ i + 1 \in 0..MaxNodes
    BY <1>1, <1>2, TableIs
  <2>3. \A j \in 1..((i + 1) - 1) : list[j].hop # node
    <3>1. \A j \in 1..((i + 1) - 1) : j \in 1..(i - 1) \/ j = i
      BY <1>2
    <3> QED
      BY <1>2, <1>4, <3>1
  <2>4. ControlTypeOK'
    BY <1>1, <1>2, <2>1, <2>2 DEF ControlTypeOK
  <2>5. ControlOK'
    BY <1>1, <1>2, <2>1, <2>2, <2>3 DEF ControlOK
  <2> QED
    BY <2>1, <2>4, <2>5, ControlStep
<1> QED
  BY <1>3, <1>4

\* clearSubs has come to its end: nobody is reached over the sender.
LEMMA AllCleared ==
    ASSUME RouteInv, i = MaxNodes, pc \in {"clearSubs", "clearMore", "cleanSubs"}
    PROVE  node \in Others /\ \A j \in Indices : list[j].hop # node
<1>1. node \in Others /\ \A j \in 1..(i - 1) : list[j].hop # node
  BY DEF RouteInv, ControlOK
<1>2. \A j \in Indices : j = 0 \/ j \in 1..(MaxNodes - 1)
  BY RouteAssumption DEF Indices
<1> QED
  BY <1>1, <1>2, TableIs

LEMMA ClearedOK ==
    ASSUME RouteInv, Cleared \/ MoreCleared \/ SubsCleaned
    PROVE  RouteInv' /\ Follows(list, count, list', count')
<1>1. /\ pc \in {"clearSubs", "clearMore", "cleanSubs"} /\ i = MaxNodes
      /\ pc' \in {"addSender", "addSubs", "cleanDelete"}
      /\ pc' = "cleanDelete" => pc = "cleanSubs"
      /\ list' = list /\ count' = count /\ node' = node /\ i' = i /\ k' = k /\ told' = told
  BY DEF Cleared, MoreCleared, SubsCleaned
<1>2. /\ node \in Others /\ \A j \in Indices : list[j].hop # node
      /\ pc = "cleanSubs" => k \in 1..MaxNodes /\ k < count /\ list[k].id = node
      /\ i \in 0..MaxNodes /\ k \in 0..MaxNodes /\ told \subseteq Others
  BY <1>1, AllCleared DEF RouteInv, ControlOK, RouteTypeOK
<1>3. ControlTypeOK'
  BY <1>1, <1>2 DEF ControlTypeOK
<1>4. ControlOK'
  BY <1>1, <1>2 DEF ControlOK
<1> QED
  BY <1>1, <1>3, <1>4, ControlStep

LEMMA RowIs ==
    ASSUME NEW id \in Others, NEW hop \in Others \union {NoId},
           NEW hops \in Hops, NEW cloud \in BOOLEAN
    PROVE  /\ Row(id, hop, hops, cloud) \in Entry
           /\ Row(id, hop, hops, cloud).id = id
           /\ Row(id, hop, hops, cloud).hop = hop
  BY DEF Row, Entry

LEMMA AddSenderOK ==
    ASSUME Room, RouteInv, NEW cloud \in Flags, AddSender(cloud)
    PROVE  RouteInv' /\ Follows(list, count, list', count')
<1> DEFINE row == Row(node, NoId, 0, cloud)
<1>1. /\ pc = "addSender" /\ AddNode(row) /\ pc' = "addSubs" /\ told' = {node}
      /\ node' = node /\ i' = i /\ k' = k
  BY DEF AddSender
<1>2. /\ node \in Others /\ \A j \in Indices : list[j].hop # node
      /\ i \in 0..MaxNodes /\ k \in 0..MaxNodes /\ cloud \in BOOLEAN /\ 0 \in Hops
  BY <1>1, RouteAssumption DEF RouteInv, ControlOK, RouteTypeOK, Hops
<1>3. row \in Entry /\ row.id = node /\ row.hop = NoId
  BY <1>2, RowIs
<1> HIDE DEF row
<1>4. Fitting(list, count, row)
  BY <1>2, <1>3, TableIs DEF Fitting
<1>5. Sound(list, count)' /\ Ordered(list, count)' /\ Follows(list, count, list', count')
  BY <1>1, <1>4, TableIs, AddNodeOK
<1>6. ControlTypeOK'
  BY <1>1, <1>2 DEF ControlTypeOK
<1>7. ControlOK'
  BY <1>1, <1>2 DEF ControlOK
<1> QED
  BY <1>5, <1>6, <1>7, TypeFollows DEF RouteInv

LEMMA AddSubOK ==
    ASSUME Room, RouteInv, NEW id \in Others, NEW hops \in 0..MaxHops, NEW cloud \in Flags,
           AddSub(id, hops, cloud)
    PROVE  RouteInv' /\ Follows(list, count, list', count')
<1> DEFINE row == Row(id, node, hops + 1, cloud)
<1>1. /\ pc = "addSubs" /\ id # node /\ AddNode(row) /\ told' = told \union {id}
      /\ pc' = pc /\ node' = node /\ i' = i /\ k' = k
  BY DEF AddSub
<1>2. /\ node \in Others /\ told \subseteq Others
      /\ i \in 0..MaxNodes /\ k \in 0..MaxNodes /\ cloud \in BOOLEAN /\ hops + 1 \in Hops
  BY <1>1, RouteAssumption DEF RouteInv, ControlOK, RouteTypeOK, Hops
<1>3. row \in Entry /\ row.id = id /\ row.hop = node
  BY <1>2, RowIs
<1> HIDE DEF row
<1>4. Fitting(list, count, row)
  BY <1>1, <1>2, <1>3, TableIs DEF Fitting
<1>5. Sound(list, count)' /\ Ordered(list, count)' /\ Follows(list, count, list', count')
  BY <1>1, <1>4, TableIs, AddNodeOK
<1>6. ControlTypeOK'
  BY <1>1, <1>2 DEF ControlTypeOK
<1>7. ControlOK'
  BY <1>1, <1>2 DEF ControlOK
<1> QED
  BY <1>5, <1>6, <1>7, TypeFollows DEF RouteInv

LEMMA MapDoneOK ==
    ASSUME RouteInv, MapDone \/ StartClean
    PROVE  RouteInv' /\ Follows(list, count, list', count')
<1>1. list' = list /\ count' = count
  BY DEF MapDone, StartClean
<1>2. ControlTypeOK'
  BY TableIs DEF MapDone, StartClean, ControlTypeOK, RouteInv, RouteTypeOK
<1>3. ControlOK'
  BY TableIs DEF MapDone, StartClean, ControlOK
<1> QED
  BY <1>1, <1>2, <1>3, ControlStep

LEMMA CleanPassOK ==
    ASSUME RouteInv, CleanPass
    PROVE  RouteInv' /\ Follows(list, count, list', count')
<1>1. /\ pc = "cleanMap" /\ k < MaxNodes /\ list[k].id # NoId
      /\ list' = list /\ count' = count /\ told' = told
  BY DEF CleanPass
<1>2. /\ k \in 1..MaxNodes /\ i \in 0..MaxNodes /\ node \in Others \union {NoId}
      /\ told \subseteq Others
  BY <1>1 DEF RouteInv, ControlOK, RouteTypeOK
<1>3. k \in Indices /\ k \in 1..(count - 1) /\ k < count
  BY <1>1, <1>2, TableIs DEF Indices
<1>4. list[k].id \in Others /\ 1 \in 1..MaxNodes /\ 1 \in 0..MaxNodes /\ 1..(1 - 1) = {}
      /\ k + 1 \in 1..MaxNodes /\ k + 1 \in 0..MaxNodes /\ k \in 0..MaxNodes
  BY <1>1, <1>2, <1>3, TableIs
<1>5. \/ /\ pc' = "cleanSubs" /\ node' = list[k].id /\ i' = 1 /\ k' = k /\ list[k].hop = NoId
      \/ pc' = "cleanDelete" /\ node' = list[k].id /\ i' = i /\ k' = k
      \/ pc' = pc /\ node' = node /\ i' = i /\ k' = k + 1
  BY DEF CleanPass
<1>6. ControlTypeOK'
  BY <1>1, <1>2, <1>4, <1>5 DEF ControlTypeOK
<1>7. ControlOK'
  BY <1>1, <1>2, <1>3, <1>4, <1>5 DEF ControlOK
<1> QED
  BY <1>1, <1>6, <1>7, ControlStep

LEMMA CleanDeleteOK ==
    ASSUME RouteInv, CleanDelete
    PROVE  /\ RouteInv' /\ Follows(list, count, list', count')
           /\ \A j \in Indices : list'[j].id # node
<1> DEFINE d == Deleted(list, count, k)
<1>1. /\ pc = "cleanDelete" /\ list' = d /\ count' = count - 1 /\ pc' = "cleanMap"
      /\ node' = NoId /\ i' = 0 /\ k' = k /\ told' = told
  BY DEF CleanDelete
<1>2. /\ k \in 1..MaxNodes /\ k < count /\ list[k].id = node /\ node \in Others
      /\ told \subseteq Others /\ k \in 0..MaxNodes
  BY <1>1 DEF RouteInv, ControlOK, RouteTypeOK
<1>3. k \in 1..(count - 1) /\ 0 \in 0..MaxNodes
  BY <1>2, TableIs
<1>4. /\ Sound(d, count - 1) /\ Ordered(d, count - 1) /\ Follows(list, count, d, count - 1)
      /\ \A j \in 0..(count - 2) : d[j].id # list[k].id
  BY <1>3, TableIs, DeletedSound, DeletedOrdered, DeletedFollows
<1> HIDE DEF d
<1>5. Sound(list, count)' /\ Ordered(list, count)' /\ Follows(list, count, list', count')
  BY <1>1, <1>4
<1>6. ControlTypeOK'
  BY <1>1, <1>2, <1>3 DEF ControlTypeOK
<1>7. ControlOK'
  BY <1>1, <1>2 DEF ControlOK
<1>8. \A j \in Indices : list'[j].id # node
  <2>1. \A j \in Indices : j \in 0..(count - 2) \/ j >= count - 1
    BY TableIs DEF Indices
  <2>2. \A j \in Indices : j >= count - 1 => d[j].id = NoId
    BY <1>4, EmptyIs DEF Sound
  <2> QED
    BY <1>1, <1>2, <1>4, <2>1, <2>2, TableIs
<1> QED
  BY <1>5, <1>6, <1>7, <1>8, TypeFollows DEF RouteInv

\* A change of an entry's flags.
LEMMA FlagsStep ==
    ASSUME RouteInv, NEW x \in 0..(count - 1), list' \in [Indices -> Entry], count' = count,
           \A j \in Indices \ {x} : list'[j] = list[j],
           list'[x].id = list[x].id, list'[x].hop = list[x].hop, list'[x].hops = list[x].hops,
           ControlTypeOK', pc' = "idle"
    PROVE  RouteInv' /\ Follows(list, count, list', count')
<1>1. Sound(list', count) /\ Ordered(list', count)
  BY TableIs, RewrittenSound
<1>2. \A j \in 0..(count - 1) :
          list'[j].id = list[j].id /\ list'[j].hop = list[j].hop /\ list'[j].hops = list[j].hops
  BY TableIs
<1>3. Follows(list, count, list', count)
  BY <1>2, TableIs, SameFollows
<1>4. ControlOK'
  BY DEF ControlOK
<1> QED
  BY <1>1, <1>3, <1>4, TypeFollows DEF RouteInv

LEMMA NodeMapOK ==
    ASSUME RouteInv, NEW available \in Flags, NodeMap(available)
    PROVE  RouteInv' /\ Follows(list, count, list', count')
<1> DEFINE e == list[0]
           n == [e EXCEPT !.cloud = available]
<1>1. /\ list' = [list EXCEPT ![0] = n] /\ count' = count /\ node' = node /\ i' = i
      /\ told' = told /\ pc' = "idle" /\ k' = 0
  BY DEF NodeMap
<1>2. e \in Entry /\ available \in BOOLEAN
  BY TableIs, RouteAssumption
<1> HIDE DEF e
<1>3. n \in Entry /\ n.id = e.id /\ n.hop = e.hop /\ n.hops = e.hops
  BY <1>2 DEF Entry
<1> HIDE DEF n
<1>4. /\ list' \in [Indices -> Entry] /\ list'[0] = n
      /\ \A j \in Indices \ {0} : list'[j] = list[j]
  BY <1>1, <1>3, TableIs
<1>5. ControlTypeOK'
  BY <1>1, TableIs DEF RouteInv, RouteTypeOK, ControlTypeOK
<1>6. 0 \in 0..(count - 1)
  BY TableIs
<1> QED
  BY <1>1, <1>3, <1>4, <1>5, <1>6, FlagsStep DEF e

LEMMA AgesOK ==
    ASSUME RouteInv, NEW x \in Indices, Ages(x)
    PROVE  RouteInv' /\ Follows(list, count, list', count')
<1> DEFINE e == list[x]
           n == [e EXCEPT !.old = TRUE]
<1>1. /\ list' = [list EXCEPT ![x] = n] /\ count' = count /\ node' = node /\ i' = i
      /\ told' = told /\ pc' = pc /\ pc = "idle" /\ k' = k /\ e.id \in Others
  BY DEF Ages
<1>2. e \in Entry /\ x \in 0..(count - 1)
  <2>1. ~(x >= count) => x < count
    BY TableIs DEF Indices
  <2> QED
    BY <1>1, <2>1, TableIs
<1> HIDE DEF e
<1>3. n \in Entry /\ n.id = e.id /\ n.hop = e.hop /\ n.hops = e.hops
  BY <1>2 DEF Entry
<1> HIDE DEF n
<1>4. /\ list' \in [Indices -> Entry] /\ list'[x] = n
      /\ \A j \in Indices \ {x} : list'[j] = list[j]
  BY <1>1, <1>3, TableIs
<1>5. ControlTypeOK'
  BY <1>1 DEF RouteInv, RouteTypeOK, ControlTypeOK
<1> QED
  BY <1>1, <1>2, <1>3, <1>4, <1>5, FlagsStep DEF e

LEMMA NextRouteInv ==
    ASSUME Room, RouteInv, [RouteNext]_routeVars
    PROVE  RouteInv' /\ Follows(list, count, list', count')
<1>1. CASE UNCHANGED routeVars
  <2>1. UNCHANGED <<list, count>>
    BY <1>1 DEF routeVars
  <2>2. ControlTypeOK' /\ ControlOK'
    BY <1>1 DEF routeVars, RouteInv, RouteTypeOK, ControlTypeOK, ControlOK
  <2> QED
    BY <2>1, <2>2, ControlStep
<1>2. ASSUME NEW src \in Others, ReceiveMap(src)
      PROVE  RouteInv' /\ Follows(list, count, list', count')
  BY <1>2, ReceiveMapOK
<1>3. ASSUME NEW cloud \in Flags, AddSender(cloud)
      PROVE  RouteInv' /\ Follows(list, count, list', count')
  BY <1>3, AddSenderOK
<1>4. ASSUME NEW id \in Others, NEW hops \in 0..MaxHops, NEW cloud \in Flags,
             AddSub(id, hops, cloud)
      PROVE  RouteInv' /\ Follows(list, count, list', count')
  BY <1>4, AddSubOK
<1>5. ASSUME NEW available \in Flags, NodeMap(available)
      PROVE  RouteInv' /\ Follows(list, count, list', count')
  BY <1>5, NodeMapOK
<1>6. ASSUME NEW j \in Indices, Ages(j)
      PROVE  RouteInv' /\ Follows(list, count, list', count')
  BY <1>6, AgesOK
<1> QED
  BY <1>1, <1>2, <1>3, <1>4, <1>5, <1>6, ReceiveMoreOK, ClearPassOK, ClearedOK,
     MapDoneOK, CleanPassOK, CleanDeleteOK DEF RouteNext

-----------------------------------------------------------------------------
(***************************************************************************)
(* The theorems                                                            *)
(***************************************************************************)

\* The inductive invariant holds in every reachable state, if the table is
\* larger than the mesh.
THEOREM SpecRouteInv == ASSUME Room PROVE RouteSpec => []RouteInv
<1>1. RouteInit => RouteInv
  BY InitRouteInv
<1>2. RouteInv /\ [RouteNext]_routeVars => RouteInv'
  BY NextRouteInv
<1> QED
  BY <1>1, <1>2, PTL DEF RouteSpec

\* Entries and indices stay within their ranges: deleteRoute, addNode and
\* cleanMap never write outside as_nodes_map.
THEOREM SpecRouteTypeOK == ASSUME Room PROVE RouteSpec => []RouteTypeOK
<1>1. RouteInv => RouteTypeOK
  BY DEF RouteInv
<1> QED
  BY <1>1, SpecRouteInv, PTL

\* u16_nodes_count is the index of the first free entry, and no node is
\* listed twice, whatever clearSubs, addNode and cleanMap delete and add.
THEOREM SpecCompact == ASSUME Room PROVE RouteSpec => []Compact
<1>1. ASSUME RouteInv PROVE Compact
  <2>1. \A j \in Indices : list[j].id # NoId <=> j < count
    <3> TAKE j \in Indices
    <3>1. CASE j < count
      BY <1>1, <3>1, TableIs DEF Sound
    <3>2. CASE ~(j < count)
      <4>1. j >= count
        BY <1>1, <3>2, TableIs DEF Indices
      <4> QED
        BY <1>1, <3>2, <4>1, TableIs
    <3> QED
      BY <3>1, <3>2
  <2>2. \A j, h \in Indices : list[j].id = list[h].id /\ j < count => j = h
    <3> TAKE j, h \in Indices
    <3> HAVE list[j].id = list[h].id /\ j < count
    <3>1. h < count
      BY <2>1
    <3> QED
      BY <1>1, <3>1, TableIs DEF Sound
  <2> QED
    BY <2>1, <2>2 DEF Compact
<1> QED
  BY <1>1, SpecRouteInv, PTL

\* The first entry is the node itself, for ever: no deletion reaches it.
THEOREM SpecSelfIsFirst == ASSUME Room PROVE RouteSpec => []SelfIsFirst
<1>1. ASSUME RouteInv PROVE SelfIsFirst
  BY <1>1, TableIs DEF SelfIsFirst
<1> QED
  BY <1>1, SpecRouteInv, PTL

LEMMA FollowsDetour ==
    ASSUME RouteInv, RouteInv', Follows(list, count, list', count'),
           NEW n \in Known, n \in {list'[j].id : j \in Indices}
    PROVE  AsNear(RouteTo(n), list'[Min({j \in Indices : list'[j].id = n})])
<1>1. PICK x \in 0..(count - 1) : list[x].id = n
  BY KnownIs, TableIs
<1>2. n \in Others \union {Self}
  <2>1. n # NoId
    BY DEF Known
  <2>2. list[x] \in Entry
    BY <1>1, TableIs
  <2> QED
    BY <1>1, <2>1, <2>2 DEF Entry
<1>3. Sound(list, count) /\ Sound(list', count')
  BY DEF RouteInv
<1>4. PICK y \in Indices : list'[y].id = n
  OBVIOUS
<1>5. y \in 0..(count' - 1)
  <2>1. count' \in Nat /\ (y >= count' \/ y \in 0..(count' - 1))
    BY <1>3, RouteAssumption DEF Sound, Indices
  <2>2. y >= count' => list'[y].id = NoId
    BY <1>3, EmptyIs DEF Sound
  <2> QED
    BY <1>4, <2>1, <2>2 DEF Known
<1>6. RouteTo(n) = list[x]
  BY <1>1, <1>2, <1>3, Found DEF RouteTo, IndexOf
<1>7. Min({j \in Indices : list'[j].id = n}) = y
  BY <1>2, <1>3, <1>4, <1>5, Found
<1> QED
  BY <1>1, <1>4, <1>5, <1>6, <1>7 DEF Follows

\* A direct neighbour is never replaced by a route over another node, nor a
\* route by a longer one, while the node stays known.
THEOREM SpecNoDetour == ASSUME Room PROVE RouteSpec => NoDetour
<1> DEFINE Detour ==
      \A n \in Known : n \in {list'[j].id : j \in Indices} =>
          LET old == RouteTo(n)
              new == list'[Min({j \in Indices : list'[j].id = n})]
          IN /\ old.hop = NoId => new.hop = NoId
             /\ new.hop # NoId => new.hops <= old.hops
<1>1. ASSUME RouteInv, [RouteNext]_routeVars PROVE Detour
  <2>1. RouteInv' /\ Follows(list, count, list', count')
    BY <1>1, NextRouteInv
  <2>2. \A n \in Known : n \in {list'[j].id : j \in Indices} =>
            AsNear(RouteTo(n), list'[Min({j \in Indices : list'[j].id = n})])
    BY <1>1, <2>1, FollowsDetour
  <2> QED
    BY <2>2 DEF AsNear
<1>2. RouteInv /\ [RouteNext]_routeVars => [Detour]_routeVars
  BY <1>1
<1> HIDE DEF Detour
<1>3. RouteSpec => [][Detour]_routeVars
  BY <1>2, SpecRouteInv, PTL DEF RouteSpec
<1> QED
  BY <1>3, PTL DEF NoDetour, Detour

\* The entry that cleanMap deletes is the one it found to be expired,
\* although clearSubs may have moved the entries in between.
THEOREM SpecDeletesExpired == ASSUME Room PROVE RouteSpec => DeletesExpired
<1> DEFINE Gone == pc = "cleanDelete" => node \notin {list'[j].id : j \in Indices}
<1>1. ASSUME RouteInv, RouteNext PROVE Gone
  <2> SUFFICES ASSUME pc = "cleanDelete"
               PROVE  node \notin {list'[j].id : j \in Indices}
    OBVIOUS
  <2>1. CleanDelete
    BY <1>1 DEF RouteNext, ReceiveMap, ReceiveMore, ClearPass, Cleared, MoreCleared, AddSender,
       AddSub, MapDone, StartClean, CleanPass, SubsCleaned, NodeMap, Ages
  <2> QED
    BY <1>1, <2>1, CleanDeleteOK
<1>2. RouteInv /\ [RouteNext]_routeVars => [Gone]_routeVars
  BY <1>1
<1> HIDE DEF Gone
<1>3. RouteSpec => [][Gone]_routeVars
  BY <1>2, SpecRouteInv, PTL DEF RouteSpec
<1> QED
  BY <1>3, PTL DEF DeletesExpired, Gone

-----------------------------------------------------------------------------
(***************************************************************************)
(* Induction over the natural numbers, with a set for the hypothesis       *)
(***************************************************************************)

\* A set of natural numbers that is not empty has a least one.
LEMMA Least ==
    ASSUME NEW T \in SUBSET Nat, T # {}
    PROVE  \E x \in T : \A y \in T : x <= y
<1> DEFINE R == OpToRel(<, Nat)
<1>1. IsWellFoundedOn(R, Nat)
  BY NatLessThanWellFounded
<1>2. \A x, y \in Nat : x < y => <<x, y>> \in R
  BY DEF OpToRel
<1> HIDE DEF R
<1>3. PICK x \in T : \A y \in T : ~ (<<y, x>> \in R)
  BY <1>1, WFMin
<1>4. ASSUME NEW y \in T PROVE x <= y
  <2>1. x \in Nat /\ y \in Nat
    OBVIOUS
  <2>2. ~(y < x)
    BY <1>2, <1>3, <2>1
  <2> QED
    BY <2>1, <2>2
<1> QED
  BY <1>4

\* A set with 0 and the successor of each of its elements has them all.
LEMMA SetInduction ==
    ASSUME NEW S \in SUBSET Nat, 0 \in S, \A n \in S : n + 1 \in S
    PROVE  S = Nat
<1> SUFFICES ASSUME Nat \ S # {} PROVE FALSE
  OBVIOUS
<1>1. PICK x \in Nat \ S : \A y \in Nat \ S : x <= y
  BY Least
<1>2. x # 0 /\ x - 1 \in Nat /\ (x - 1) + 1 = x /\ ~(x <= x - 1)
  BY <1>1
<1> QED
  BY <1>1, <1>2

-----------------------------------------------------------------------------
(***************************************************************************)
(* The route table: the choice of a parent                                 *)
(***************************************************************************)

\* What one more refusal adds to the nodes tried.
More(s) == s \union {CloudNode(n) : n \in s}

\* What the recursive definition in Tried says of the first m refusals.
IsTried(f, first, m) ==
    f = [n \in 0..m |-> IF n = 0 THEN {first} ELSE More(f[n - 1])]

\* There is such a function, by induction ...
LEMMA TriedExists ==
    ASSUME NEW first
    PROVE  \A m \in Nat : \E f : IsTried(f, first, m)
<1> DEFINE S == {m \in Nat : \E f : IsTried(f, first, m)}
<1>1. 0 \in S
  <2>1. IsTried([n \in 0..0 |-> {first}], first, 0)
    BY DEF IsTried
  <2> QED
    BY <2>1
<1>2. ASSUME NEW m \in S PROVE m + 1 \in S
  <2>1. PICK f : IsTried(f, first, m)
    OBVIOUS
  <2> DEFINE g == [n \in 0..(m + 1) |-> IF n = m + 1 THEN More(f[m]) ELSE f[n]]
  <2>2. \A n \in 0..m : f[n] = IF n = 0 THEN {first} ELSE More(f[n - 1])
    BY <2>1 DEF IsTried
  <2>3. \A n \in 0..(m + 1) : g[n] = IF n = 0 THEN {first} ELSE More(g[n - 1])
    <3> TAKE n \in 0..(m + 1)
    <3>1. CASE n = m + 1
      <4>1. n # 0 /\ n - 1 \in 0..(m + 1) /\ n - 1 # m + 1 /\ n - 1 = m
        BY <3>1
      <4> QED
        BY <3>1, <4>1
    <3>2. CASE n # m + 1 /\ n # 0
      <4>1. n \in 0..m /\ n - 1 \in 0..(m + 1) /\ n - 1 # m + 1
        BY <3>2
      <4> QED
        BY <2>2, <3>2, <4>1
    <3>3. CASE n # m + 1 /\ n = 0
      <4>1. n \in 0..m
        BY <3>3
      <4> QED
        BY <2>2, <3>3, <4>1
    <3> QED
      BY <3>1, <3>2, <3>3
  <2>4. g = [n \in 0..(m + 1) |-> g[n]]
    OBVIOUS
  <2> HIDE DEF g
  <2>5. IsTried(g, first, m + 1)
    BY <2>3, <2>4 DEF IsTried
  <2> QED
    BY <2>5
<1>3. S \in SUBSET Nat
  OBVIOUS
<1> HIDE DEF S
<1>4. S = Nat
  BY <1>1, <1>2, <1>3, SetInduction
<1> QED
  BY <1>4 DEF S

\* ... so the one that is chosen is as its definition says.
LEMMA TriedIs ==
    ASSUME NEW first
    PROVE  \E f : IsTried(f, first, MaxNodes) /\ Tried(first) = f[MaxNodes]
<1>1. \E f : IsTried(f, first, MaxNodes)
  BY TriedExists, RouteAssumption
<1> DEFINE F == CHOOSE f : IsTried(f, first, MaxNodes)
<1>2. IsTried(F, first, MaxNodes)
  BY <1>1, Zenon
<1>3. Tried(first) = F[MaxNodes]
  BY DEF Tried, IsTried, More
<1> QED
  BY <1>2, <1>3

\* All possible parents are equally far.
Even == Nearest(Parents(NoId)) = Parents(NoId)

\* The possible parents are entries behind the first; the ignored one is
\* taken from them.
LEMMA ParentsAre ==
    ASSUME Sound(list, count)
    PROVE  /\ count \in Nat /\ count < MaxNodes
           /\ Parents(NoId) \subseteq 1..(count - 1)
           /\ \A x \in Parents(NoId) : /\ list[x].id # NoId
                                       /\ Parents(list[x].id) = Parents(NoId) \ {x}
<1>1. count \in Nat /\ count < MaxNodes /\ list[0].id = Self
  BY RouteAssumption DEF Sound
<1>2. Parents(NoId) \subseteq 1..(count - 1)
  <2>1. \A x \in Parents(NoId) : x \in 0..(count - 1) /\ x # 0
    BY <1>1 DEF Parents
  <2> QED
    BY <1>1, <2>1
<1>3. ASSUME NEW x \in Parents(NoId)
      PROVE  list[x].id # NoId /\ Parents(list[x].id) = Parents(NoId) \ {x}
  <2>1. x \in 0..(count - 1) /\ list[x].id \notin {NoId, Self}
    BY DEF Parents
  <2>2. \A j \in 0..(count - 1) : list[j].id = list[x].id <=> j = x
    BY <2>1 DEF Sound
  <2> QED
    BY <2>1, <2>2 DEF Parents
<1> QED
  BY <1>1, <1>2, <1>3

\* The search begins behind the ignored entry.
LEMMA OffsetIs ==
    ASSUME Sound(list, count), NEW x \in Parents(NoId)
    PROVE  Offset(list[x].id) = x
<1>1. x \in 1..(count - 1) /\ list[x].id # NoId /\ count \in Nat
  BY ParentsAre
<1>2. {j \in 1..(count - 1) : list[j].id = list[x].id} = {x}
  <2>1. \A j \in 1..(count - 1) : j \in 0..(count - 1)
    BY <1>1
  <2> QED
    BY <1>1, <2>1 DEF Sound
<1>3. Min({x}) = x
  <2>1. x <= x
    BY <1>1
  <2> QED
    BY <2>1 DEF Min
<1> QED
  BY <1>1, <1>2, <1>3 DEF Offset

\* Then the others are, too.
LEMMA EvenRest ==
    ASSUME Even, NEW x
    PROVE  Nearest(Parents(NoId) \ {x}) = Parents(NoId) \ {x}
BY DEF Even, Nearest

\* The search finds one of the entries it may choose from.
LEMMA FirstIsOne ==
    ASSUME Sound(list, count), NEW ps \in SUBSET Parents(NoId), ps # {},
           NEW offset \in 0..(count - 1)
    PROVE  FirstBehind(ps, offset) \in ps
<1> DEFINE T == {Distance(j, offset) : j \in ps}
<1>1. \A j \in ps : Distance(j, offset) \in Nat
  <2> TAKE j \in ps
  <2>1. j \in 1..(count - 1) /\ count \in Nat
    BY ParentsAre
  <2> QED
    BY <2>1 DEF Distance
<1>2. T \in SUBSET Nat /\ T # {}
  BY <1>1
<1>3. PICK j \in ps : \A h \in ps : Distance(j, offset) <= Distance(h, offset)
  <2>1. PICK d \in T : \A e \in T : d <= e
    <3> HIDE DEF T
    <3> QED
      BY <1>2, Least
  <2>2. PICK j \in ps : d = Distance(j, offset)
    BY <2>1
  <2> QED
    BY <2>1, <2>2
<1> QED
  BY <1>3 DEF FirstBehind

\* Whichever parent is refused, the next is one.
LEMMA StaysParent ==
    ASSUME Sound(list, count), Even, NEW x \in Parents(NoId)
    PROVE  \E j \in Parents(NoId) : CloudNode(list[x].id) = list[j].id
<1> DEFINE rest == Parents(NoId) \ {x}
<1>1. Parents(list[x].id) = rest /\ x \in 1..(count - 1) /\ count \in Nat
  BY ParentsAre
<1>2. 0 \in 0..(count - 1) /\ x \in 0..(count - 1)
  BY <1>1
<1>3. CASE rest = {}
  <2>1. CloudNode(list[x].id) = list[FirstBehind(Parents(NoId), 0)].id
    BY <1>1, <1>3 DEF CloudNode, Even
  <2>2. FirstBehind(Parents(NoId), 0) \in Parents(NoId)
    BY <1>2, FirstIsOne
  <2> QED
    BY <2>1, <2>2
<1>4. CASE rest # {}
  <2>1. CloudNode(list[x].id) = list[FirstBehind(rest, x)].id
    BY <1>1, <1>4, OffsetIs, EvenRest DEF CloudNode
  <2>2. FirstBehind(rest, x) \in rest
    BY <1>2, <1>4, FirstIsOne
  <2> QED
    BY <2>1, <2>2
<1> QED
  BY <1>3, <1>4

\* It is the next one behind it.
LEMMA NextParent ==
    ASSUME Sound(list, count), Even, NEW x \in Parents(NoId),
           NEW j \in Parents(NoId) \ {x},
           \A h \in Parents(NoId) \ {x} :
               Distance(j, x) <= Distance(h, x)
               /\ (Distance(h, x) <= Distance(j, x) => h = j)
    PROVE  CloudNode(list[x].id) = list[j].id
<1> DEFINE rest == Parents(NoId) \ {x}
<1>1. Parents(list[x].id) = rest
  BY ParentsAre
<1>2. CloudNode(list[x].id) = list[FirstBehind(rest, x)].id
  BY <1>1, OffsetIs, EvenRest DEF CloudNode
<1>3. FirstBehind(rest, x) = j
  BY DEF FirstBehind
<1> QED
  BY <1>2, <1>3

\* The entries in a ring: the way from one to another, by way of a third.
LEMMA Round ==
    ASSUME count \in Nat, NEW x \in 1..(count - 1), NEW j \in 1..(count - 1),
           NEW h \in 1..(count - 1)
    PROVE  /\ Distance(j, x) \in 0..(count - 1) /\ Distance(x, x) = 0
           /\ Distance(h, x) = Distance(j, x) => h = j
           /\ Distance(j, h) = IF Distance(j, x) >= Distance(h, x)
                                 THEN Distance(j, x) - Distance(h, x)
                                 ELSE Distance(j, x) - Distance(h, x) + count
BY DEF Distance

\* The nodes tried are parents, and after n refusals they are those less than
\* n places further on.
TriedSoFar(x, s, n) ==
    /\ s \subseteq ParentIds
    /\ \A j \in Parents(NoId) : Distance(j, x) <= n => list[j].id \in s

\* One more refusal reaches the next one.
LEMMA OneMore ==
    ASSUME Sound(list, count), Even, NEW x \in Parents(NoId), NEW n \in Nat, NEW s,
           TriedSoFar(x, s, n)
    PROVE  TriedSoFar(x, More(s), n + 1)
<1>0. count \in Nat /\ Parents(NoId) \subseteq 1..(count - 1)
  BY ParentsAre
<1>1. More(s) \subseteq ParentIds
  <2>1. ASSUME NEW m \in s PROVE CloudNode(m) \in ParentIds
    <3>1. PICK y \in Parents(NoId) : m = list[y].id
      BY DEF TriedSoFar, ParentIds
    <3> QED
      BY <3>1, StaysParent DEF ParentIds
  <2> QED
    BY <2>1 DEF More, TriedSoFar
<1>2. ASSUME NEW j \in Parents(NoId), Distance(j, x) <= n + 1
      PROVE  list[j].id \in More(s)
  <2>0. \A g \in Parents(NoId) : Distance(g, x) \in 0..(count - 1)
    BY <1>0, Round
  <2>1. CASE Distance(j, x) <= n
    BY <2>1 DEF TriedSoFar, More
  <2>2. CASE ~(Distance(j, x) <= n)
    <3>0. Distance(j, x) = n + 1
      BY <1>2, <2>0, <2>2
    <3> DEFINE near == {g \in Parents(NoId) : Distance(g, x) <= n}
               T == {n - Distance(g, x) : g \in near}
    <3>1. T \in SUBSET Nat
      BY <2>0
    <3>2. x \in near
      BY <1>0, Round
    <3>3. PICK h \in near : \A g \in near : n - Distance(h, x) <= n - Distance(g, x)
      <4>1. T # {}
        BY <3>2
      <4>2. PICK d \in T : \A e \in T : d <= e
        <5> HIDE DEF T
        <5> QED
          BY <3>1, <4>1, Least
      <4>3. PICK h \in near : d = n - Distance(h, x)
        BY <4>2
      <4> QED
        BY <4>2, <4>3
    <3>4. j # h
      BY <2>2
    <3>5. ASSUME NEW g \in Parents(NoId) \ {h}
          PROVE  /\ Distance(j, h) <= Distance(g, h)
                 /\ Distance(g, h) <= Distance(j, h) => g = j
      <4> DEFINE dj == Distance(j, x)
                 dg == Distance(g, x)
                 dh == Distance(h, x)
      <4>1. /\ Distance(j, h) = IF dj >= dh THEN dj - dh ELSE dj - dh + count
            /\ Distance(g, h) = IF dg >= dh THEN dg - dh ELSE dg - dh + count
            /\ dg = dh => g = h
            /\ dg = dj => g = j
        BY <1>0, Round
      <4>2. dj \in 0..(count - 1) /\ dg \in 0..(count - 1) /\ dh \in 0..(count - 1)
        BY <2>0
      <4>3. dg <= n => dg <= dh
        BY <3>3, <4>2
      <4>4. dj = n + 1 /\ dh <= n /\ dg # dh
        BY <3>0, <4>1
      <4> HIDE DEF dj, dg, dh
      <4> QED
        BY <1>0, <4>1, <4>2, <4>3, <4>4
    <3>6. CloudNode(list[h].id) = list[j].id
      BY <3>4, <3>5, NextParent
    <3>7. list[h].id \in s
      BY DEF TriedSoFar
    <3> QED
      BY <3>6, <3>7 DEF More
  <2> QED
    BY <2>1, <2>2
<1> QED
  BY <1>1, <1>2 DEF TriedSoFar

\* The table is smaller than the number of refusals Tried counts.
LEMMA AllTried ==
    ASSUME Sound(list, count), Even, NEW x \in Parents(NoId)
    PROVE  Tried(list[x].id) = ParentIds
<1>0. /\ count \in Nat /\ count < MaxNodes /\ Parents(NoId) \subseteq 1..(count - 1)
      /\ MaxNodes \in Nat
  BY ParentsAre, RouteAssumption
<1>1. PICK f : IsTried(f, list[x].id, MaxNodes) /\ Tried(list[x].id) = f[MaxNodes]
  BY TriedIs
<1>2. \A n \in 0..MaxNodes : f[n] = IF n = 0 THEN {list[x].id} ELSE More(f[n - 1])
  BY <1>1 DEF IsTried
<1> DEFINE S == {n \in Nat : n <= MaxNodes => TriedSoFar(x, f[n], n)}
<1>3. 0 \in S
  <2>1. f[0] = {list[x].id}
    BY <1>0, <1>2
  <2>2. ASSUME NEW j \in Parents(NoId), Distance(j, x) <= 0 PROVE j = x
    BY <1>0, <2>2, Round
  <2> QED
    BY <2>1, <2>2 DEF TriedSoFar, ParentIds
<1>4. ASSUME NEW n \in S PROVE n + 1 \in S
  <2> SUFFICES ASSUME n + 1 <= MaxNodes PROVE TriedSoFar(x, f[n + 1], n + 1)
    OBVIOUS
  <2>1. n \in Nat /\ n <= MaxNodes /\ n + 1 \in 0..MaxNodes /\ n + 1 # 0 /\ (n + 1) - 1 = n
    BY <1>0
  <2>2. TriedSoFar(x, f[n], n)
    BY <2>1
  <2>3. f[n + 1] = More(f[n])
    BY <1>2, <2>1
  <2> QED
    BY <2>1, <2>2, <2>3, OneMore
<1>5. S \in SUBSET Nat
  OBVIOUS
<1>6. S = Nat
  <2> HIDE DEF S
  <2> QED
    BY <1>3, <1>4, <1>5, SetInduction
<1>7. TriedSoFar(x, f[MaxNodes], MaxNodes)
  <2>1. MaxNodes \in S /\ MaxNodes <= MaxNodes
    BY <1>0, <1>6
  <2> QED
    BY <2>1
<1>8. \A j \in Parents(NoId) : Distance(j, x) <= MaxNodes
  BY <1>0, Round
<1> QED
  BY <1>1, <1>7, <1>8 DEF TriedSoFar, ParentIds

\* A child whose possible parents are equally far tries every one of them when
\* each it tries refuses, whichever it begins with: getCloudNode goes round
\* the entries, although it compares distances from an entry it leaves out.
THEOREM SpecEqualParentsTried ==
    ASSUME Room PROVE RouteSpec => []EqualParentsTried
<1>1. ASSUME RouteInv PROVE EqualParentsTried
  <2> SUFFICES ASSUME NEW p \in ParentIds, Even PROVE Tried(p) = ParentIds
    BY DEF EqualParentsTried, Even
  <2>1. PICK x \in Parents(NoId) : p = list[x].id
    BY DEF ParentIds
  <2> QED
    BY <1>1, <2>1, AllTried DEF RouteInv
<1> QED
  BY <1>1, SpecRouteInv, PTL
=============================================================================
