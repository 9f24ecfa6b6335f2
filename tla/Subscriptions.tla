--------------------------- MODULE Subscriptions ---------------------------
(***************************************************************************)
(* The subscription table of one client: ClientSubscriptions of            *)
(* subscriptions.py.  The client names its subscriptions as it likes; on   *)
(* the local relay each has a rewritten id, short ids verbatim behind the  *)
(* marker ".r.", ids longer than 45 characters as a digest behind ".h.".   *)
(* The four dictionaries of the code are total functions here, None        *)
(* standing for an absent key; the verb and the filters of a subscription  *)
(* are one record.                                                         *)
(***************************************************************************)
EXTENDS Naturals, FiniteSets

CONSTANTS ClientIds,         \* the subscription ids the client uses
          LongIds,           \* those of more than 45 characters
          Digest,            \* the truncated sha256 of each long id
          Verbs,             \* the verbs that open an entry: REQ and COUNT
          Filters,           \* the filter lists of the client's requests
          MaxSubscriptions,  \* limits.max_subscriptions_per_client
          None

VARIABLES toUpstream,        \* _to_upstream: the rewritten id of each open id
          toClient,          \* _to_client: the client's id behind each rewritten id
          request            \* _verbs and _filters: what each open id last asked for

tableVars == <<toUpstream, toClient, request>>

\* Mutant: without the markers that keep the two forms apart.
UnmarkedId(c) == IF c \in LongIds THEN <<"r", Digest[c]>> ELSE <<"r", c>>

\* make_upstream_id.
MakeUpstreamId(c) == IF c \in LongIds THEN <<"h", Digest[c]>> ELSE <<"r", c>>

UpstreamIds == {MakeUpstreamId(c) : c \in ClientIds}

Requests == [verb : Verbs, filter : Filters]

ASSUME TableAssumption ==
  /\ IsFiniteSet(ClientIds)
  /\ LongIds \subseteq ClientIds
  /\ MaxSubscriptions \in Nat
  /\ None \notin ClientIds
  /\ None \notin UpstreamIds
  /\ None \notin Requests

Open == {c \in ClientIds : toUpstream[c] # None}

----------------------------------------------------------------------------
TableInit == /\ toUpstream = [c \in ClientIds |-> None]
             /\ toClient = [u \in UpstreamIds |-> None]
             /\ request = [c \in ClientIds |-> None]

\* TooManySubscriptions: only an id that is not open yet is counted.
OverBudget(c) == c \notin Open /\ Cardinality(Open) >= MaxSubscriptions

\* ValueError: another open id has the same rewritten id.
Collides(c) == /\ c \notin Open
               /\ toClient[MakeUpstreamId(c)] \notin {None, c}

MayOpen(c) == ~ OverBudget(c) /\ ~ Collides(c)

\* open: a new id enters the table, an open one has its request replaced.
OpenEntry(c, verb, filter) ==
  /\ MayOpen(c)
  /\ toUpstream' = [toUpstream EXCEPT ![c] = MakeUpstreamId(c)]
  /\ toClient' = [toClient EXCEPT ![MakeUpstreamId(c)] = c]
  /\ request' = [request EXCEPT ![c] = [verb |-> verb, filter |-> filter]]

\* Mutant: the way back is not removed.
CloseEntryHalf(c) ==
  /\ c \in Open
  /\ toUpstream' = [toUpstream EXCEPT ![c] = None]
  /\ request' = [request EXCEPT ![c] = None]
  /\ UNCHANGED toClient

\* close: of an open id (of any other it does nothing and returns None).
CloseEntry(c) ==
  /\ c \in Open
  /\ toUpstream' = [toUpstream EXCEPT ![c] = None]
  /\ toClient' = [toClient EXCEPT ![toUpstream[c]] = None]
  /\ request' = [request EXCEPT ![c] = None]

ClearTable == /\ toUpstream' = [c \in ClientIds |-> None]
              /\ toClient' = [u \in UpstreamIds |-> None]
              /\ request' = [c \in ClientIds |-> None]

TableNext == \/ \E c \in ClientIds, v \in Verbs, f \in Filters : OpenEntry(c, v, f)
             \/ \E c \in ClientIds : CloseEntry(c)
             \/ ClearTable

TableSpec == TableInit /\ [][TableNext]_tableVars

----------------------------------------------------------------------------
TableTypeOK == /\ toUpstream \in [ClientIds -> UpstreamIds \cup {None}]
               /\ toClient \in [UpstreamIds -> ClientIds \cup {None}]
               /\ request \in [ClientIds -> Requests \cup {None}]

\* The dictionaries of the table agree: the way back from a rewritten id
\* leads to the one open id that has it, so no relay message reaches a
\* subscription it was not meant for, and an open id has a request to replay.
TableInverse ==
  /\ \A c \in ClientIds, u \in UpstreamIds :
       toUpstream[c] = u <=> toClient[u] = c
  /\ \A c \in ClientIds : toUpstream[c] = None <=> request[c] = None

\* A client never has more open subscriptions than its budget, however often
\* it re-opens ids it has (a re-open is not counted by open).
WithinBudget == Cardinality(Open) <= MaxSubscriptions

\* The collision branch of open is "only reachable if two different long ids
\* hash the same" (subscriptions.py:68): a short id is never refused for it,
\* even one spelled like the digest of an open long id.
OnlyLongIdsCollide ==
  \A c \in ClientIds : Collides(c) =>
    c \in LongIds /\ \E d \in LongIds \ {c} : Digest[d] = Digest[c]
============================================================================
