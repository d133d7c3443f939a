------------------------------ MODULE MeshRoute ------------------------------
(***************************************************************************)
(* The route table of a mesh node (src/app/lora_mesh/mesh_route.c): an     *)
(* array whose first entry is the node itself, filled from the node maps   *)
(* its neighbours broadcast, cleaned before its own map is broadcast.      *)
(*                                                                         *)
(* The loops of clearSubs and cleanMap are modelled one pass per step:     *)
(* they change the array they walk over, run over all of it and not only   *)
(* over the entries in use, and may not end.  Signal levels are left out.  *)
(***************************************************************************)
EXTENDS Integers, FiniteSets, FiniteSetsExt

CONSTANTS
    Self,      (* meshNodeID()                                        *)
    Others,    (* the ids of the other nodes                          *)
    MaxNodes,  (* MESH_MAX_NUM_NODES                                  *)
    MaxHops,   (* MESH_MAX_HOP_COUNT, one less than the largest value *)
    Messages,  (* messages of one map: 1, up to 48 nodes, or 2, more  *)
    Flags      (* bound: the values NODE_CLOUD_NET_AVAILBLE takes     *)

NoId == 0

ASSUME RouteAssumption ==
    /\ Self \notin Others /\ NoId \notin Others \union {Self}
    /\ MaxNodes \in Nat \ {0, 1}
    /\ MaxHops \in Nat /\ Messages \in {1, 2} /\ Flags \subseteq BOOLEAN

VARIABLES
    list,   \* as_nodes_map
    count,  \* u16_nodes_count
    pc,     \* the function that runs
    node,   \* ... the id it is about
    i,      \* ... the index of clearSubs
    k,      \* ... the index of cleanMap
    told    \* ... what the map being received has listed so far

routeVars == <<list, count, pc, node, i, k, told>>

Indices == 0..(MaxNodes - 1)
Hops    == 0..(MaxHops + 1)

Entry == [id : Others \union {Self, NoId}, hop : Others \union {NoId},
          hops : Hops, cloud : BOOLEAN, old : BOOLEAN]

Empty   == [id |-> NoId, hop |-> NoId, hops |-> 0, cloud |-> FALSE, old |-> FALSE]
SelfRow == [Empty EXCEPT !.id = Self]

Known     == {list[j].id : j \in Indices} \ {NoId}
IndexOf(n) == Min({j \in Indices : list[j].id = n})
RouteTo(n) == list[IndexOf(n)]

-----------------------------------------------------------------------------
(* meshRouteInit *)
RouteInit ==
    /\ list = [j \in Indices |-> IF j = 0 THEN SelfRow ELSE Empty]
    /\ count = 1
    /\ pc = "idle" /\ node = NoId /\ i = 0 /\ k = 0 /\ told = {}

(* deleteRoute: the entries behind the index move one place; the last one  *)
(* of the array stays where it is, and of the first free one only the id   *)
(* is cleared.                                                             *)
Moved(l, index) ==
    [j \in Indices |-> IF j >= index /\ j < MaxNodes - 1 THEN l[j + 1] ELSE l[j]]

(* Mutant: the id is cleared before the count is right. *)
DeletedOneMore(l, c, index) == [Moved(l, index) EXCEPT ![c - 2].id = NoId]

Deleted(l, c, index) ==
    [Moved(l, index) EXCEPT ![c - 1].id = NoId]

(* addNode: a node that is known is refreshed, or replaced by a new entry  *)
(* at the end; on a full table the oldest entry makes room.                *)
Refreshed(l, index, row) ==
    [l EXCEPT ![index] =
        [l[index] EXCEPT
            !.cloud = row.cloud,
            !.old = l[index].old /\ l[index].cloud = row.cloud
                                 /\ ~(l[index].hop = NoId /\ row.hop = NoId)]]

Appended(l, c, row) ==
    IF c >= MaxNodes
      THEN [Deleted(l, c, 1) EXCEPT ![c - 1] = row]
      ELSE [l EXCEPT ![c] = row]

(* Mutant: a new entry is not counted. *)
AppendedUncounted(c) == c

AppendedCount(c) == IF c >= MaxNodes THEN c ELSE c + 1

(* Mutant: the comparison is the other way round. *)
KeepsLonger(old, row) == old.hop = NoId \/ (row.hop # NoId /\ old.hops > row.hops)

(* an entry that is direct, or of fewer hops, is kept *)
Keeps(old, row) == old.hop = NoId \/ (row.hop # NoId /\ old.hops < row.hops)

(* Mutant: the function returns once the old entry is deleted. *)
AddNodeReturns(row) ==
    IF row.id \in Known
      THEN LET index == IndexOf(row.id)
               l == Refreshed(list, index, row) IN
           IF Keeps(list[index], row)
             THEN list' = l /\ UNCHANGED count
             ELSE list' = Deleted(l, count, index) /\ count' = count - 1
      ELSE /\ list' = Appended(list, count, row)
           /\ count' = AppendedCount(count)

AddNode(row) ==
    IF row.id \in Known
      THEN LET index == IndexOf(row.id)
               l == Refreshed(list, index, row) IN
           IF Keeps(list[index], row)
             THEN list' = l /\ UNCHANGED count
             ELSE /\ list' = Appended(Deleted(l, count, index), count - 1, row)
                  /\ count' = AppendedCount(count - 1)
      ELSE /\ list' = Appended(list, count, row)
           /\ count' = AppendedCount(count)

Row(id, hop, hops, cloud) ==
    [id |-> id, hop |-> hop, hops |-> hops, cloud |-> cloud, old |-> FALSE]

-----------------------------------------------------------------------------
(* OnRxDone of a node map: clearSubs of the sender, then its nodes in      *)
(* turn.  A map of several messages lists the sender first in the first    *)
(* one; any of them may be lost.                                           *)

(* Mutant: the sender's routes are not cleared. *)
ReceiveMapAdds(src) ==
    /\ pc = "idle"
    /\ pc' = "clearSubs" /\ node' = src /\ i' = MaxNodes /\ told' = {}
    /\ UNCHANGED <<list, count, k>>

ReceiveMap(src) ==
    /\ pc = "idle"
    /\ pc' = "clearSubs" /\ node' = src /\ i' = 1 /\ told' = {}
    /\ UNCHANGED <<list, count, k>>

ReceiveMore ==
    /\ pc = "addSubs" /\ Messages = 2
    /\ pc' = "clearMore" /\ i' = 1
    /\ UNCHANGED <<list, count, node, k, told>>

(* one pass of clearSubs; the count wraps at zero, here it stops *)
ClearPass ==
    /\ pc \in {"clearSubs", "clearMore", "cleanSubs"} /\ i < MaxNodes /\ count > 0
    /\ IF list[i].hop = node
         THEN /\ list' = Deleted(list, count, i) /\ count' = count - 1
              /\ UNCHANGED i
         ELSE i' = i + 1 /\ UNCHANGED <<list, count>>
    /\ UNCHANGED <<pc, node, k, told>>

Cleared ==
    /\ pc = "clearSubs" /\ i = MaxNodes
    /\ pc' \in (IF Messages = 1 THEN {"addSender"} ELSE {"addSender", "addSubs"})
    /\ UNCHANGED <<list, count, node, i, k, told>>

MoreCleared ==
    /\ pc = "clearMore" /\ i = MaxNodes
    /\ pc' = "addSubs"
    /\ UNCHANGED <<list, count, node, i, k, told>>

AddSender(cloud) ==
    /\ pc = "addSender"
    /\ AddNode(Row(node, NoId, 0, cloud))
    /\ pc' = "addSubs" /\ told' = {node}
    /\ UNCHANGED <<node, i, k>>

(* A map lists no node twice, and none with more than MaxHops hops; the    *)
(* receiver leaves itself out.                                             *)
AddSub(id, hops, cloud) ==
    /\ pc = "addSubs" /\ id \notin told \union {node}
    /\ AddNode(Row(id, node, hops + 1, cloud))
    /\ told' = told \union {id}
    /\ UNCHANGED <<pc, node, i, k>>

MapDone ==
    /\ pc = "addSubs"
    /\ pc' = "idle" /\ node' = NoId /\ i' = 0 /\ told' = {}
    /\ UNCHANGED <<list, count, k>>

-----------------------------------------------------------------------------
(* update_route: cleanMap, then nodeMap *)

StartClean ==
    /\ pc = "idle"
    /\ pc' = "cleanMap" /\ k' = 1
    /\ UNCHANGED <<list, count, node, i, told>>

Expired(row) == row.old \/ row.hops > MaxHops

CleanPass ==
    /\ pc = "cleanMap" /\ k < MaxNodes /\ list[k].id # NoId
    /\ IF Expired(list[k])
         THEN /\ node' = list[k].id
              /\ IF list[k].hop = NoId
                   THEN pc' = "cleanSubs" /\ i' = 1
                   ELSE pc' = "cleanDelete" /\ UNCHANGED i
              /\ UNCHANGED k
         ELSE k' = k + 1 /\ UNCHANGED <<pc, node, i>>
    /\ UNCHANGED <<list, count, told>>

SubsCleaned ==
    /\ pc = "cleanSubs" /\ i = MaxNodes
    /\ pc' = "cleanDelete"
    /\ UNCHANGED <<list, count, node, i, k, told>>

CleanDelete ==
    /\ pc = "cleanDelete"
    /\ list' = Deleted(list, count, k) /\ count' = count - 1
    /\ pc' = "cleanMap" /\ node' = NoId /\ i' = 0
    /\ UNCHANGED <<k, told>>

(* nodeMap: the node's own flags are brought up to date *)
NodeMap(available) ==
    /\ pc = "cleanMap"
    /\ k < MaxNodes => list[k].id = NoId
    /\ list' = [list EXCEPT ![0].cloud = available]
    /\ pc' = "idle" /\ k' = 0
    /\ UNCHANGED <<count, node, i, told>>

(* MESH_NODE_INACTIVE_TIMEOUT passes *)
Ages(j) ==
    /\ pc = "idle" /\ list[j].id \in Others
    /\ list' = [list EXCEPT ![j].old = TRUE]
    /\ UNCHANGED <<count, pc, node, i, k, told>>

-----------------------------------------------------------------------------
RouteNext ==
    \/ \E src \in Others : ReceiveMap(src)
    \/ ReceiveMore \/ ClearPass \/ Cleared \/ MoreCleared
    \/ \E cloud \in Flags : AddSender(cloud)
    \/ \E id \in Others, hops \in 0..MaxHops, cloud \in Flags :
          AddSub(id, hops, cloud)
    \/ MapDone
    \/ StartClean \/ CleanPass \/ SubsCleaned \/ CleanDelete
    \/ \E available \in Flags : NodeMap(available)
    \/ \E j \in Indices : Ages(j)

RouteSpec == RouteInit /\ [][RouteNext]_routeVars

-----------------------------------------------------------------------------
(* getCloudNode: of the nodes with a cloud connection those with the       *)
(* fewest hops, and of those the first one behind the ignored one.         *)

Parents(ignore) ==
    {j \in 0..(count - 1) : /\ list[j].id \notin {NoId, Self, ignore}
                            /\ list[j].cloud}

Distance(j, offset) == IF j >= offset THEN j - offset ELSE j - offset + count

(* Mutant: the search starts at the first entry. *)
OffsetZero(ignore) == 0

Offset(ignore) ==
    IF \E j \in 1..(count - 1) : list[j].id = ignore /\ ignore # NoId
      THEN Min({j \in 1..(count - 1) : list[j].id = ignore}) ELSE 0

Nearest(ps) == {j \in ps : \A h \in ps : list[j].hops <= list[h].hops}

FirstBehind(ps, offset) ==
    CHOOSE j \in ps : \A h \in ps : Distance(j, offset) <= Distance(h, offset)

CloudNode(ignore) ==
    LET ps == IF Parents(ignore) # {} THEN Parents(ignore) ELSE Parents(NoId)
        offset == IF Parents(ignore) # {} THEN Offset(ignore) ELSE 0
    IN IF ps = {} THEN NoId ELSE list[FirstBehind(Nearest(ps), offset)].id

-----------------------------------------------------------------------------
(* Type invariant: entries and indices stay within their ranges.           *)
RouteTypeOK ==
    /\ list \in [Indices -> Entry] /\ count \in 0..MaxNodes
    /\ pc \in {"idle", "clearSubs", "clearMore", "addSender", "addSubs",
               "cleanMap", "cleanSubs", "cleanDelete"}
    /\ node \in Others \union {NoId}
    /\ i \in 0..MaxNodes /\ k \in 0..MaxNodes
    /\ told \subseteq Others

(* u16_nodes_count is the index of the first free entry, with everything   *)
(* before it in use and nothing behind it, and no node is listed twice.    *)
Compact ==
    /\ \A j \in Indices : list[j].id # NoId <=> j < count
    /\ \A j, h \in Indices : list[j].id = list[h].id /\ j < count => j = h

(* A node that stays known stays as near: a direct neighbour is never      *)
(* replaced by a route over another node, nor a route by a longer one.     *)
NoDetour ==
    [][\A n \in Known : n \in {list'[j].id : j \in Indices} =>
          LET old == RouteTo(n)
              new == list'[Min({j \in Indices : list'[j].id = n})]
          IN /\ old.hop = NoId => new.hop = NoId
             /\ new.hop # NoId => new.hops <= old.hops]_routeVars

(* the nodes tried one after another, from a given one on *)
Tried(first) ==
    LET tried[n \in 0..MaxNodes] ==
          IF n = 0 THEN {first}
          ELSE tried[n - 1] \union {CloudNode(m) : m \in tried[n - 1]}
    IN tried[MaxNodes]

ParentIds == {list[j].id : j \in Parents(NoId)}

(* While all possible parents are equally far, a child that is refused     *)
(* again and again tries every one of them.                                *)
EqualParentsTried ==
    \A p \in ParentIds :
        Nearest(Parents(NoId)) = Parents(NoId) => Tried(p) = ParentIds

(* ... whatever their distances.                                           *)
ParentsTried == \A p \in ParentIds : Tried(p) = ParentIds

(* What the map being received has listed so far is known.                 *)
MapKept == pc = "addSubs" => told \subseteq Known

(* The first entry is the node itself, for ever.                           *)
SelfIsFirst == count > 0 /\ list[0].id = Self

(* cleanMap deletes the entry that it found to be expired.                 *)
DeletesExpired ==
    [][pc = "cleanDelete" => node \notin {list'[j].id : j \in Indices}]_routeVars
=============================================================================
