------------------------------- MODULE Client -------------------------------
(***************************************************************************)
(* The reference client, HiddenRelayClient of client.py.  Its callers run  *)
(* request, publish, messages and discover; the first three read one inbox *)
(* and drop what is not theirs, discover puts a handler of its own in      *)
(* front of the connection's.  The bridge and the two connections are a    *)
(* FIFO path each way with a bounded number of faults; the hidden relay is *)
(* testing.py's MiniRelay, whose _on_req is one step here.                 *)
(***************************************************************************)
EXTENDS Naturals, Sequences, FiniteSets, SequencesExt

CONSTANTS Callers, Ids, Events,
          Replaceable,     \* the events that are versions of one replaceable event
          Ephemeral,
          MaxEvents,       \* MiniRelay.max_events
          Mixes,           \* bound: which kinds of calls occur in one behaviour
          MaxCalls,        \* bound on the calls and on what others publish
          MaxFaults        \* bound on the path's faults

VARIABLES call,            \* per caller: the call it runs or ran last
          inbox, handler,  \* handler: discover's sniffs before _on_relay_message
          up, down,        \* under way: to the hidden relay, and its answers
          stored, subs,    \* the hidden relay: _events and this session's subscriptions
          toRelay, lists,  \* under way: discover's REQ and CLOSE, and 10112 events
          listed, listSub, \* the rendez-vous relay: it has a list, and the subscription
          mix, calls, faults,   \* bounds
          used, asked, faulty, crossed   \* history, see the properties

callVars == <<call, inbox, handler, up, toRelay>>
relayVars == <<stored, subs>>
listVars == <<lists, listed, listSub>>
boundVars == <<mix, calls, faults>>
ghostVars == <<used, asked, faulty, crossed>>
vars == <<callVars, down, relayVars, listVars, boundVars, ghostVars>>

ASSUME ClientAssumption ==
  /\ Ids \cap Events = {} /\ Replaceable \subseteq Events /\ Ephemeral \subseteq Events
  /\ MaxEvents \in Nat \ {0} /\ MaxCalls \in Nat /\ MaxFaults \in Nat
  /\ "unasked" \notin Events

Unasked == <<"unasked">>
NoCall == [kind |-> "none", arg |-> "none", n |-> 0, keep |-> FALSE, how |-> "none", got |-> <<>>,
           orig |-> <<>>, found |-> FALSE, fresh |-> FALSE, lone |-> FALSE]

Init == /\ call = [c \in Callers |-> NoCall]
        /\ inbox = <<>> /\ handler = <<>> /\ up = <<>> /\ down = <<>>
        /\ stored = <<>> /\ subs = <<>>
        /\ toRelay = <<>> /\ lists = 0 /\ listed = FALSE /\ listSub = FALSE
        /\ mix \in Mixes /\ calls = 0 /\ faults = 0
        /\ used = {} /\ asked = [s \in Ids |-> Unasked] /\ faulty = FALSE /\ crossed = FALSE

----------------------------------------------------------------------------
\* The client's calls.
Running(c) == call[c].how = "running"
Discovers(c) == Running(c) /\ call[c].kind = "discover"

\* c begins a call; calls that read the same queue are no longer alone.
Begin(c, kind, arg, keep) ==
  LET Shares(d) == Running(d) /\ (call[d].kind = "discover" <=> kind = "discover")
  IN  /\ ~ Running(c) /\ calls < MaxCalls /\ kind \in mix
      /\ calls' = calls + 1
      /\ used' = used \cup {arg}
      /\ call' = [d \in Callers |->
           IF d = c
             THEN [NoCall EXCEPT !.kind = kind, !.arg = arg, !.n = calls + 1, !.keep = keep,
                     !.how = "running", !.orig = handler, !.fresh = arg \notin used,
                     !.lone = ~ \E e \in Callers : Shares(e)]
             ELSE [call[d] EXCEPT !.lone = @ /\ ~ Shares(d)]]
      /\ UNCHANGED <<inbox, down, relayVars, listVars, mix, faults, asked, faulty,
                     crossed>>

\* send: the messages of one event on their way (here always one).
Sent(m) == Append(up, m)

StartRequest(c) ==
  \E s \in Ids, keep \in BOOLEAN :
    /\ keep => "messages" \in mix
    /\ Begin(c, "request", s, keep)
    /\ up' = Sent(<<"REQ", s>>)
    /\ UNCHANGED <<handler, toRelay>>

StartPublish(c) ==
  \E e \in Events : /\ Begin(c, "publish", e, FALSE)
                    /\ up' = Sent(<<"EVENT", e>>)
                    /\ UNCHANGED <<handler, toRelay>>

StartMessages(c) == Begin(c, "messages", "none", FALSE) /\ UNCHANGED <<handler, up, toRelay>>

\* The sniff is in place before anything can answer: send does not suspend.
StartDiscover(c) == /\ Begin(c, "discover", "none", FALSE)
                    /\ toRelay' = Append(toRelay, "REQ")
                    /\ handler' = <<calls + 1>> \o handler
                    /\ UNCHANGED up

\* Of a call only what it returned is left.
Ends(c, how) ==
  call' = [call EXCEPT ![c] =
    IF how \in {"eose", "ok"} THEN [@ EXCEPT !.how = how, !.n = 0, !.keep = FALSE, !.orig = <<>>]
                              ELSE [NoCall EXCEPT !.how = how]]
Pop(c, kind) == /\ Running(c) /\ call[c].kind = kind
                /\ inbox # <<>> /\ inbox' = Tail(inbox)
                /\ UNCHANGED <<handler, toRelay, down, relayVars, listVars, boundVars, ghostVars>>
SendClose(c) == up' = IF call[c].keep THEN up ELSE Sent(<<"CLOSE", call[c].arg>>)

\* Mutant: CLOSED is not recognised.
RequestTakesNoClosed(c) ==
  LET m == Head(inbox)
      mine == m[2] = call[c].arg
  IN  /\ Pop(c, "request")
      /\ \/ mine /\ m[1] = "EVENT" /\ call' = [call EXCEPT ![c].got = Append(@, m[3])]
            /\ UNCHANGED up
         \/ mine /\ m[1] = "EOSE" /\ Ends(c, "eose") /\ SendClose(c)
         \/ ~ (mine /\ m[1] \in {"EVENT", "EOSE"}) /\ UNCHANGED <<call, up>>

\* What is not for this subscription is taken from the inbox and dropped.
RequestTakes(c) ==
  LET m == Head(inbox)
      mine == m[2] = call[c].arg
  IN  /\ Pop(c, "request")
      /\ \/ mine /\ m[1] = "EVENT" /\ call' = [call EXCEPT ![c].got = Append(@, m[3])]
            /\ UNCHANGED up
         \/ mine /\ m[1] = "EOSE" /\ Ends(c, "eose") /\ SendClose(c)
         \/ mine /\ m[1] = "CLOSED" /\ Ends(c, "closed") /\ UNCHANGED up
         \/ ~ mine /\ UNCHANGED <<call, up>>

\* Mutant: any OK will do.
PublishTakesAny(c) ==
  LET m == Head(inbox)
  IN  /\ Pop(c, "publish")
      /\ IF m[1] = "OK" THEN Ends(c, m[3]) ELSE UNCHANGED call
      /\ UNCHANGED up

PublishTakes(c) ==
  LET m == Head(inbox)
  IN  /\ Pop(c, "publish")
      /\ IF m[1] = "OK" /\ m[2] = call[c].arg THEN Ends(c, m[3]) ELSE UNCHANGED call
      /\ UNCHANGED up

MessagesTakes(c) == Pop(c, "messages") /\ UNCHANGED <<call, up>>

\* The deadline may pass just after an answer was put into the inbox.
TimesOut(c) ==
  /\ Running(c) /\ ~ Discovers(c)
  /\ Ends(c, "timeout")
  /\ IF call[c].kind = "request" THEN SendClose(c) ELSE UNCHANGED up
  /\ UNCHANGED <<inbox, handler, toRelay, down, relayVars, listVars, boundVars, ghostVars>>

\* Mutant: no finally.
DiscoverEndsUnrestored(c) ==
  /\ Discovers(c)
  /\ \/ call[c].found /\ Ends(c, "list") /\ handler' = call[c].orig
     \/ Ends(c, "timeout") /\ UNCHANGED handler
  /\ toRelay' = Append(toRelay, "CLOSE")
  /\ crossed' = (crossed \/ \E d \in Callers : Discovers(d) /\ call[d].n > call[c].n)
  /\ UNCHANGED <<inbox, up, down, relayVars, listVars, boundVars, used, asked, faulty>>

DiscoverEnds(c) ==
  /\ Discovers(c)
  /\ (call[c].found /\ Ends(c, "list")) \/ Ends(c, "timeout")
  /\ handler' = call[c].orig
  /\ toRelay' = Append(toRelay, "CLOSE")
  /\ crossed' = (crossed \/ \E d \in Callers : Discovers(d) /\ call[d].n > call[c].n)
  /\ UNCHANGED <<inbox, up, down, relayVars, listVars, boundVars, used, asked, faulty>>

----------------------------------------------------------------------------
\* What reaches the connection's handler.

\* Mutant: events of anybody.
DeliverAny ==
  /\ down # <<>> /\ down' = Tail(down)
  /\ inbox' = Append(inbox, Head(down).msg)
  /\ UNCHANGED <<call, handler, up, toRelay, relayVars, listVars, boundVars, ghostVars>>

\* _on_relay_message: only what the bridge has signed; every sniff passes it on.
Deliver ==
  /\ down # <<>> /\ down' = Tail(down)
  /\ inbox' = IF Head(down).by = "bridge" THEN Append(inbox, Head(down).msg) ELSE inbox
  /\ UNCHANGED <<call, handler, up, toRelay, relayVars, listVars, boundVars, ghostVars>>

ListArrives ==
  /\ lists > 0 /\ lists' = lists - 1
  /\ call' = [c \in Callers |->
       [call[c] EXCEPT !.found = @ \/ (Discovers(c) /\ Contains(handler, call[c].n))]]
  /\ UNCHANGED <<inbox, handler, up, toRelay, down, relayVars, listed, listSub, boundVars, ghostVars>>

----------------------------------------------------------------------------
\* The hidden relay.
FromBridge(m) == [by |-> "bridge", msg |-> m]

\* The elements of s that are in S, in their order.
Only(s, S) ==
  LET upTo[i \in 0..Len(s)] ==
        IF i = 0 THEN <<>>
        ELSE IF s[i] \in S THEN Append(upTo[i - 1], s[i]) ELSE upTo[i - 1]
  IN  upTo[Len(s)]

\* Mutant: nothing is removed from a full store.
StoreUnbounded(e) ==
  IF e \in Ephemeral THEN stored
  ELSE Append(IF e \in Replaceable THEN Only(stored, Events \ Replaceable) ELSE stored, e)

Store(e) ==
  LET kept == IF e \in Replaceable THEN Only(stored, Events \ Replaceable) ELSE stored
  IN  IF e \in Ephemeral THEN stored
      ELSE IF Len(kept) < MaxEvents THEN Append(kept, e) ELSE Append(Tail(kept), e)

FanOut(e) == [i \in 1..Len(subs) |-> FromBridge(<<"EVENT", subs[i], e>>)]

OnEvent(e) == \/ /\ stored' = Store(e)
                 /\ down' = down \o <<FromBridge(<<"OK", e, "ok">>)>> \o FanOut(e)
                 /\ UNCHANGED <<subs, asked>>
              \/ /\ down' = Append(down, FromBridge(<<"OK", e, "refused">>))
                 /\ UNCHANGED <<relayVars, asked>>

OnReq(s) ==
  \/ /\ subs' = IF Contains(subs, s) THEN subs ELSE Append(subs, s)
     /\ down' = down \o [i \in 1..Len(stored) |-> FromBridge(<<"EVENT", s, stored[i]>>)]
                     \o <<FromBridge(<<"EOSE", s>>)>>
     /\ asked' = [asked EXCEPT ![s] = IF @ = Unasked THEN stored ELSE @]
     /\ UNCHANGED stored
  \/ /\ down' = Append(down, FromBridge(<<"CLOSED", s>>))
     /\ UNCHANGED <<relayVars, asked>>

OnClose(s) == subs' = Only(subs, Ids \ {s}) /\ UNCHANGED <<stored, down, asked>>

RelayTakes ==
  /\ up # <<>> /\ up' = Tail(up)
  /\ LET m == Head(up)
     IN  \/ m[1] = "EVENT" /\ OnEvent(m[2])
         \/ m[1] = "REQ" /\ OnReq(m[2])
         \/ m[1] = "CLOSE" /\ OnClose(m[2])
  /\ UNCHANGED <<call, inbox, handler, toRelay, listVars, boundVars, used, faulty, crossed>>

\* Another client of the hidden relay publishes.
PeerPublishes ==
  /\ calls < MaxCalls /\ calls' = calls + 1
  /\ \E e \in Events : stored' = Store(e) /\ down' = down \o FanOut(e)
  /\ UNCHANGED <<callVars, subs, listVars, mix, faults, ghostVars>>

----------------------------------------------------------------------------
\* The rendez-vous relay and the bridge's kind 10112 event.
RendezvousTakes ==
  /\ toRelay # <<>> /\ toRelay' = Tail(toRelay)
  /\ listSub' = (Head(toRelay) = "REQ")
  /\ lists' = IF listSub' /\ listed THEN lists + 1 ELSE lists
  /\ UNCHANGED <<call, inbox, handler, up, down, relayVars, listed, boundVars, ghostVars>>

Announced == /\ ~ listed /\ listed' = TRUE
             /\ lists' = IF listSub THEN lists + 1 ELSE lists
             /\ UNCHANGED <<callVars, down, relayVars, listSub, boundVars, ghostVars>>

----------------------------------------------------------------------------
\* The path: a queue that was full, a connection that broke (Lose), a response
\* written before its send failed (Repeat), a message requeued (Postpone).
Fault == /\ faults < MaxFaults /\ faults' = faults + 1
         /\ UNCHANGED <<call, inbox, handler, toRelay, relayVars, listVars, mix, calls,
                        used, asked, crossed>>

Lose == /\ Fault /\ faulty' = TRUE
        /\ \/ up # <<>> /\ up' = Tail(up) /\ UNCHANGED down
           \/ down # <<>> /\ down' = Tail(down) /\ UNCHANGED up
Repeat == /\ Fault /\ faulty' = TRUE
          /\ down # <<>> /\ down' = Append(down, Head(down)) /\ UNCHANGED up
Postpone == /\ Fault /\ faulty' = TRUE
            /\ \/ Len(up) > 1 /\ up' = Append(Tail(up), Head(up)) /\ UNCHANGED down
               \/ Len(down) > 1 /\ down' = Append(Tail(down), Head(down)) /\ UNCHANGED up

\* Somebody else addresses an event to the client.
Stranger ==
  /\ Fault /\ UNCHANGED <<up, faulty>>
  /\ \E m \in {<<"EOSE", s>> : s \in Ids \cap used} \cup {<<"OK", e, "ok">> : e \in Events \cap used} :
       down' = Append(down, [by |-> "other", msg |-> m])

Next == \/ \E c \in Callers : \/ StartRequest(c) \/ StartPublish(c)
                              \/ StartMessages(c) \/ StartDiscover(c)
                              \/ RequestTakes(c) \/ PublishTakes(c) \/ MessagesTakes(c)
                              \/ TimesOut(c) \/ DiscoverEnds(c)
        \/ Deliver \/ ListArrives \/ RelayTakes \/ PeerPublishes
        \/ RendezvousTakes \/ Announced
        \/ Lose \/ Repeat \/ Postpone \/ Stranger

Spec == Init /\ [][Next]_vars

----------------------------------------------------------------------------
Answers == {<<"EOSE", s>> : s \in Ids} \cup {<<"CLOSED", s>> : s \in Ids}
           \cup {<<"EVENT", s, e>> : s \in Ids, e \in Events}
           \cup {<<"OK", e, how>> : e \in Events, how \in {"ok", "refused"}}

\* The types of the variables; the relay's store keeps to its limit, and a call
\* knows no handler but those of calls before it.
TypeOK ==
  /\ \A c \in Callers :
       /\ call[c].kind \in {"none", "request", "publish", "messages", "discover"}
       /\ call[c].how \in {"none", "running", "eose", "closed", "timeout", "ok", "refused", "list"}
       /\ Range(call[c].got) \subseteq Events
       /\ \A i \in DOMAIN call[c].orig : call[c].orig[i] < call[c].n
       /\ call[c].n \in 0..calls
  /\ Range(inbox) \subseteq Answers
  /\ Range(down) \subseteq [by : {"bridge", "other"}, msg : Answers]
  /\ Range(up) \subseteq ({"REQ", "CLOSE"} \X Ids) \cup ({"EVENT"} \X Events)
  /\ Range(stored) \subseteq Events \ Ephemeral /\ Len(stored) <= MaxEvents
  /\ Range(subs) \subseteq Ids /\ IsInjective(subs)
  /\ lists \in Nat /\ listed \in BOOLEAN /\ listSub \in BOOLEAN
  /\ Range(toRelay) \subseteq {"REQ", "CLOSE"} /\ Range(handler) \subseteq 1..calls

\* A request that ended with EOSE returned exactly the relay's events of the
\* moment it was taken, in their order, if its id was never used before, no
\* other call read the inbox meanwhile and the path was faithful.
RequestExact ==
  \A c \in Callers : call[c].how = "eose" /\ call[c].fresh /\ call[c].lone /\ ~ faulty
                       => call[c].got = asked[call[c].arg]

\* A publish that returned a positive OK is at the relay, whatever was lost,
\* repeated or late and whoever else read the inbox: the event is stored,
\* superseded, pushed out of a full store, or ephemeral.
PublishedIsKept ==
  \A c \in Callers : call[c].how = "ok" =>
    LET e == call[c].arg
    IN  \/ Contains(stored, e) \/ e \in Ephemeral \/ Len(stored) = MaxEvents
        \/ e \in Replaceable /\ \E x \in Replaceable : Contains(stored, x)

Coming == Range(inbox) \cup {d.msg : d \in {x \in Range(down) : x.by = "bridge"}}

\* Nobody waits in vain: on a faithful path, a call that shares its queue with
\* no other has its question or its answer under way until it returns.
AnswerUnderWay ==
  \A c \in Callers : Running(c) /\ call[c].lone /\ ~ faulty =>
    CASE call[c].kind = "request" ->
           \/ Contains(up, <<"REQ", call[c].arg>>)
           \/ {<<"EOSE", call[c].arg>>, <<"CLOSED", call[c].arg>>} \cap Coming # {}
      [] call[c].kind = "publish" ->
           \/ Contains(up, <<"EVENT", call[c].arg>>)
           \/ \E m \in Coming : m[1] = "OK" /\ m[2] = call[c].arg
      [] call[c].kind = "discover" ->
           listed => call[c].found \/ lists > 0 \/ Contains(toRelay, "REQ")
      [] OTHER -> TRUE

\* While discovers are nested, each running one hears the connection and
\* nothing else is left in front of the client's own handler.
NestedDiscovers ==
  ~ crossed => /\ Range(handler) = {call[c].n : c \in {d \in Callers : Discovers(d)}}
               /\ \A i, j \in 1..Len(handler) : i < j => handler[i] > handler[j]
============================================================================
