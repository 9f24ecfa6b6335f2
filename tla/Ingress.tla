------------------------------ MODULE Ingress ------------------------------
(***************************************************************************)
(* The way in: how RendezvousHub of rendezvous.py accepts the requests     *)
(* that reach it over several rendez-vous relays, each of which may        *)
(* deliver the same event, and deliver it again after a reconnect.         *)
(* _on_inbound_event does not suspend before it hands an event on, so one  *)
(* delivery is one step.  What it checks of the event alone is Protocol's; *)
(* the replay window, the rate limit and the cache of seen events are what *)
(* depends on time and history.                                            *)
(***************************************************************************)
EXTENDS Integers, Sequences, FiniteSets, Protocol

CONSTANTS Relays,         \* the rendez-vous relays
          Events,         \* the events clients publish
          Event,          \* each as a record, see Protocol
          Bridge,         \* the bridge's pubkey
          MaxMessages,    \* limits.max_messages_per_event
          MaxAge,         \* rendezvous.max_event_age_seconds, 0 for no bound
          MaxFuture,      \* rendezvous.max_event_future_seconds, 0 for no bound
          Slack,          \* rendezvous.subscribe_since_slack_seconds
          SeenCapacity,   \* _SEEN_EVENT_CAPACITY
          Keys, Capacity, Refill, Cost, MaxTime, None,   \* see RateLimiter
          MaxRestarts     \* bound: how often the bridge restarts

VARIABLES now, bucket, outcome,   \* the clock and the limiter
          sent,       \* what each relay has delivered, or will not, on its subscription
          seen,       \* _seen: the ids of events, oldest first
          restarts,   \* bound
          started,    \* history: when the bridge last restarted
          handled,    \* history: the events handed on since then
          before,     \* history: those handed on by an earlier run of the bridge
          repeated    \* history: those handed on again, see HandledOnce

limiterVars == <<now, bucket, outcome>>
historyVars == <<started, handled, before, repeated>>
vars == <<limiterVars, sent, seen, restarts, historyVars>>

Limiter == INSTANCE RateLimiter

ASSUME IngressAssumption ==
  /\ \A e \in Events : Event[e].created_at \in Int
  /\ MaxAge \in Nat /\ MaxFuture \in Nat /\ Slack \in Nat
  /\ SeenCapacity \in Nat \ {0} /\ MaxRestarts \in Nat
  /\ Capacity \in Nat /\ Refill \in Nat /\ Cost \in Nat /\ MaxTime \in Nat
  /\ None \notin Limiter!Buckets

Author(e) == Event[e].pubkey
CreatedAt(e) == Event[e].created_at

\* Wrong in kind, author, tags or signature; the limiter has a bucket for each
\* whitelisted client.
Malformed == {e \in Events : ~ Admitted(Event[e], Bridge, Keys)}

\* What cannot be decrypted or parsed.
Garbled == {e \in Events : Opened(Event[e], Bridge, MaxMessages) = {}}

Seen == {seen[i] : i \in 1..Len(seen)}

\* Mutant: the subscription has no since filter.
BeforeSinceOpen(t) == {}

\* The events a subscription made at time t excludes by its since filter.
BeforeSince(t) == {e \in Events : CreatedAt(e) < t - Slack}

Init == /\ Limiter!Init
        /\ sent = [r \in Relays |-> BeforeSince(0)]
        /\ seen = <<>> /\ restarts = 0
        /\ started = 0 /\ handled = {} /\ before = {} /\ repeated = {}

----------------------------------------------------------------------------
\* Mutant: old events pass.
InWindowForever(e) == CreatedAt(e) <= now + MaxFuture

\* _reject_reason before the rate limit.
InWindow(e) == /\ MaxAge > 0 => CreatedAt(e) >= now - MaxAge
               /\ MaxFuture > 0 => CreatedAt(e) <= now + MaxFuture

\* Mutant: nothing is ever forgotten.
RememberAll(e) == seen' = Append(seen, e)

\* SeenEvents.add of a new id: over capacity the oldest goes.
Remember(e) == seen' = LET all == Append(seen, e)
                       IN  IF Len(all) > SeenCapacity THEN Tail(all) ELSE all

Rejected(e) == /\ e \in Malformed \/ ~ InWindow(e)
               /\ UNCHANGED <<limiterVars, seen, historyVars>>

\* Mutant: the event is remembered before the limiter is asked.
RateLimitedSeen(e) == /\ e \notin Malformed /\ InWindow(e)
                      /\ Limiter!Take(Author(e)) /\ outcome'.answer = "refuse"
                      /\ IF e \in Seen THEN UNCHANGED seen ELSE Remember(e)
                      /\ UNCHANGED historyVars

\* The limiter is asked last, and before the cache of seen events.
RateLimited(e) == /\ e \notin Malformed /\ InWindow(e)
                  /\ Limiter!Take(Author(e)) /\ outcome'.answer = "refuse"
                  /\ UNCHANGED <<seen, historyVars>>

Duplicate(e) == /\ e \notin Malformed /\ InWindow(e)
                /\ Limiter!Take(Author(e)) /\ outcome'.answer = "allow"
                /\ e \in Seen
                /\ UNCHANGED <<seen, historyVars>>

\* What an earlier run of the bridge handed on, and a since filter should exclude.
TooOld == {e \in before : CreatedAt(e) < started - Slack}

Accepted(e) == /\ e \notin Malformed /\ InWindow(e)
               /\ Limiter!Take(Author(e)) /\ outcome'.answer = "allow"
               /\ e \notin Seen
               /\ Remember(e)
               /\ IF e \in Garbled THEN UNCHANGED historyVars
                  ELSE /\ handled' = handled \cup {e}
                       /\ repeated' = repeated \cup ({e} \cap (handled \cup TooOld))
                       /\ UNCHANGED <<started, before>>

\* A relay delivers an event its subscription matches, once per subscription.
Deliver(r, e) == /\ e \notin sent[r]
                 /\ sent' = [sent EXCEPT ![r] = @ \cup {e}]
                 /\ Rejected(e) \/ RateLimited(e) \/ Duplicate(e) \/ Accepted(e)
                 /\ UNCHANGED restarts

\* A reconnect: the new REQ asks for everything since a little while ago.
Resubscribe(r) == /\ sent' = [sent EXCEPT ![r] = BeforeSince(now)]
                  /\ UNCHANGED <<limiterVars, seen, restarts, historyVars>>

\* The announcer's round forgets full buckets.
Forget == /\ Limiter!ForgetFull
          /\ UNCHANGED <<sent, seen, restarts, historyVars>>

Tick == /\ Limiter!Tick
        /\ UNCHANGED <<sent, seen, restarts, historyVars>>

\* The bridge restarts: the cache and the buckets are gone.
Restart == /\ restarts < MaxRestarts
           /\ restarts' = restarts + 1
           /\ bucket' = [k \in Keys |-> None]
           /\ sent' = [r \in Relays |-> BeforeSince(now)]
           /\ seen' = <<>>
           /\ started' = now
           /\ handled' = {} /\ before' = before \cup handled
           /\ UNCHANGED <<now, outcome, repeated>>

Next == \/ \E r \in Relays, e \in Events : Deliver(r, e)
        \/ \E r \in Relays : Resubscribe(r)
        \/ Forget \/ Tick \/ Restart

Spec == Init /\ [][Next]_vars

----------------------------------------------------------------------------
TypeOK == /\ Limiter!TypeOK
          /\ sent \in [Relays -> SUBSET Events]
          /\ seen \in Seq(Events) /\ Len(seen) <= SeenCapacity
          /\ restarts \in 0..MaxRestarts
          /\ started \in 0..MaxTime
          /\ handled \subseteq Events /\ before \subseteq Events /\ repeated \subseteq Events

\* The events that pass while e may: their windows overlap e's, and all do if a
\* window has no end.
Near(e) == {f \in Events \ Malformed :
              \/ MaxAge = 0 \/ MaxFuture = 0
              \/ CreatedAt(f) - CreatedAt(e) \in (-(MaxAge + MaxFuture))..(MaxAge + MaxFuture)}

\* The cache holds what passes while an event may be delivered again (the code
\* has 8192 places, rendezvous.py:35, for what all clients may send meanwhile).
CacheSuffices == \A e \in Events : /\ IsFiniteSet(Near(e))
                                   /\ Cardinality(Near(e)) <= SeenCapacity

\* "so a redelivered event is only handled once" (rendezvous.py:39), by any
\* relay and after any reconnect, while the bridge runs; and a bridge that has
\* restarted handles nothing again that was created longer than the slack before.
HandledOnce == repeated = {}

\* An event the rate limiter refused can still be handled when it is delivered
\* again: the cache holds only events that were handed on (or are garbage).
RefusedCanReturn == Seen \subseteq handled \cup Garbled
============================================================================
