----------------------------- MODULE MCSession -----------------------------
(***************************************************************************)
(* One id for REQ and two for COUNT.  The latter are long and have the     *)
(* same digest, which is spelled like the id for REQ.  A history variable  *)
(* tells the behaviours in which a CLOSED of the relay crosses a new REQ.  *)
(***************************************************************************)
EXTENDS Session

MCClientIds == {"s1", "s2", "s3"}
MCLongIds == {"s2", "s3"}
MCDigest == [c \in MCLongIds |-> "s1"]
MCFilters == 1..MaxRequests

\* The ids of REQ and COUNT are distinct, as LiveInTable needs.
ASSUME IdsAreSeparate == SeparateIds

VARIABLE crossed     \* history: a CLOSED of the relay has crossed a REQ of its id

\* A CLOSED is on its way while a REQ for its id is, or has been taken already.
Crossing == \E u \in UpstreamIds : OnItsWay(Reply("CLOSED", u)) /\ ~ SettlesAs(u, None)

MCInit == Init /\ crossed = FALSE

MCNext == Next /\ crossed' = (crossed \/ Crossing')

MCSpec == MCInit /\ [][MCNext]_<<vars, crossed>> /\ Fairness

----------------------------------------------------------------------------
\* The relay holds every subscription of the table with its latest filter, and
\* no COUNT is open.
OpenAtRelay == \A c \in Open : /\ request[c].verb = "REQ"
                               /\ relaySubs[toUpstream[c]] = request[c].filter

\* The relay holds nothing that the table does not have.
NoOtherAtRelay == \A u \in UpstreamIds : relaySubs[u] # None => toClient[u] # None

\* If a connection stays up and carries its traffic, the relay ends up holding
\* every subscription of the table, whatever broke, overflowed or crossed before;
\* and no others, unless a CLOSED has crossed a new REQ of its id, which may leave
\* one behind for good (see NoOrphan).
RelayConverges ==
  <>[]Carrying => <>[](OpenAtRelay /\ (crossed \/ NoOtherAtRelay))
============================================================================
