# A verification project for hidden-relay-bridge

The bridge lets whitelisted Nostr clients use a relay on a private network.
Clients publish encrypted requests (kind 27901) on public rendez-vous relays;
the bridge subscribes there, decrypts and checks the requests, forwards what is
in them to the local relay over one websocket per client, and publishes the
answers as encrypted events. It is one asyncio process: everything runs on one
event loop, so two pieces of code interleave only at an `await` that really
suspends. The models below take the code between two such awaits as one step.

Paths are relative to the repository; `session.py`, `nostr/relay.py` and so on
are under `src/hidden_relay_bridge/`.

## Inventory

| Component | State | Operations | Talks to |
| --- | --- | --- | --- |
| subscription table (`subscriptions.py`) | four dictionaries: rewritten id of each client id and back, verb, filters | `open`, `close`, `clear`, `replay` | owned by a session |
| relay connection (`nostr/relay.py`) | send queue, websocket, run task, writer task, `_stopping`, counters | `send`, `send_now`, `drop_pending`, `stop`; the run loop, the writer, the reader; AUTH answers | its owner by callbacks, a relay by frames |
| client session (`session.py`) | table, connection to the local relay, outbound queue, flusher | `handle_client_messages`, `_on_local_message`, `_on_local_connected`, flush, `close` | table, connection, hub |
| session manager and bridge (`session.py`, `bridge.py`) | session per pubkey, reaper task | `get` (with eviction), reaping, `stop` | called by one reader task per rendez-vous relay |
| rendez-vous hub, inbound (`rendezvous.py`) | seen-event cache, limiter | acceptance of an event, inbox subscription | relay connections, manager |
| rendez-vous hub, outbound (`rendezvous.py`, `nip11.py`) | last announcement | responses, announcements | framing, relay pool |
| rate limiter (`ratelimit.py`) | a token bucket per pubkey | `allow`, `forget_full` | hub |
| framing (`framing.py`) | none | packing messages into payloads | session, hub |
| NIP-44 lengths (`nostr/nip44_builtin.py`) | none | padding, encryption, decryption | hub |
| in-memory relay (`testing.py`) | connections, subscriptions, a bounded store of events | the relay side of the protocol | connection |
| reference client (`client.py`) | inbox, the connection's handler | `request`, `publish`, `messages`, `discover` | relay connection |
| protocol parsing (`protocol.py`), encodings (`nostr/bech32.py`, `nostr/nip19.py`) | none | pure functions | hub, client, configuration |
| keys, events, crypto backends, configuration, command line | none that lasts | pure functions, or read once | |

What is hard in this code, and what makes it correct:

* **Reconnects.** A connection can break between any two steps of the writer,
  the reader and the owner. What is queued, what the writer holds and what the
  table replays must add up to each subscription once (`README.md`,
  "Reconnecting").
* **Cancelled and failed sends.** A message a writer was sending goes back into
  a queue that may have filled since, and may have been written already.
* **Suspension inside a look-up.** `SessionManager.get` looks a pubkey up,
  possibly suspends while another session closes, and then registers a session.
  With several rendez-vous relays others run `get` meanwhile.
* **Crossing messages.** A relay's CLOSED crosses the client's next REQ; the
  inbox REQ crosses the AUTH handshake.
* **Bounded queues and caches.** Send queues drop the oldest message, outbound
  queues the newest, the seen-event cache forgets.
* **Redelivery.** Several relays and every reconnect deliver an event again; an
  event the limiter refused must not be taken for a duplicate.
* **Boundaries.** Token arithmetic, brackets and separators at a size limit,
  padding at powers of two, characters against bytes.
* **Shutdown.** `stop` and `close` must end in every state, what they await may
  be cancelled, and a task that is cancelled inside a `close` may go on.
* **Shared queues of the client.** Calls of the reference client take messages
  from one inbox and drop those that are not theirs; answers may come late, twice
  or never, and a discovery swaps the connection's handler while others run.

`PROJECT.json` lists each of these as a hazard at its line, with the properties
aimed at it, or with the reason why there is none yet.

## Modules

```
Subscriptions                    RelayConnection <-- RelayDelivery <-- RelayDeliveryProofs
      ^                             ^        ^
      |                    INSTANCE |        | INSTANCE
   Session <-- SessionProofs     Session   Inbox <-- InboxProofs
      ^
  MCSession

QueueLemmas <-- SessionProofs, RelayDeliveryProofs, InboxProofs, IngressProofs, HubPartsProofs, ClientProofs
SessionManager <-- SessionManagerProofs
RateLimiter <-- MCRateLimiter <-- HubPartsProofs;   RateLimiter refines TokenBudget
Framing <-- MCFraming, HubPartsProofs;   Bech32 <-- Nip19
Ingress (Protocol, INSTANCE RateLimiter) <-- MCIngress, IngressProofs
Client <-- MCClient, ClientProofs
MCFraming, Nip44Padding, Nip19, Protocol <-- MCEncodings
```

**Subscriptions** (`subscriptions.py`). The dictionaries are total functions
with `None` for an absent key; `request` is verb and filters together.
`OpenEntry`, `CloseEntry`, `ClearTable` are `open`, `close`, `clear`. Client
ids are opaque; a long id (over 45 characters) has a `Digest` that may equal
another long id's digest or be spelled like a short id.

**RelayConnection** (`nostr/relay.py`). The state of one connection and the
steps of its tasks. `conn` is "down" between attempts, "up", "broken" (the
websocket is gone, but the reader has not noticed: frames that had arrived can
still be read) and "stopped". `writer` follows the writer task through
`queue.get` ("idle" to "taken"), the write into the transport ("written") and
the end of `ws.send`; after a failed send it is "dead" although the connection
may stay up, which is what the code does. Cancellation at either point is
`ReaderEnd`. Owners give the queue after `on_connected` (`Connect(q)`) and what
they do with each message received. Backoff times are left out: an attempt may
succeed at any moment, or never.

**RelayDelivery** is a generic owner that sends 1, 2, 3, ..., with a history of
what was written and put back, for what a connection promises about loss, order
and repetition.

**Session** (`session.py`, `ClientSession`) EXTENDS the table and INSTANCEs the
connection. `ClientAsks`, `ClientCloses` and `ClientSendsOther` are the cases of
`_forward_to_local_locked`, `Connects` is `_on_local_connected`,
`BridgeReceives` is `_on_local_message`, `FlushTake` and `FlushDeliver` the
flusher, `BeginClose` and `FinishClose` `close`. The local relay is modelled
from NIP-01 and NIP-45 as `testing.py` implements them, and may in addition
close subscriptions by itself. Every REQ and COUNT has a new filter, a number,
so that an old request is told from the current one. MCSession adds a history of
whether a CLOSED of the relay has crossed a new REQ (`crossed`). AUTH is among "other"
messages here; the handshake itself is in Inbox.

**SessionManager** (`SessionManager` and the bridge's request path). `Hit`,
`Open` and `Evict` are `get` up to its end or its suspension, `Resume` is the
rest of `get` after an eviction; `ReaperWakes` and `ReaperResumes` are
`_reap_loop` between its suspensions. `activity` orders objects by
`last_activity`, `expired` are those idle for longer than the timeout, so no
clock is needed; `LocalMessage` is an answer of the local relay, which counts as
activity and may end the last entry of the table. `Bridge.stop` is a sequence of steps of its own: `BeginStop`
closes the relay connections and cancels their readers, each of which ends
(`ReaderEnds`, or `CancelledInGet` if the cancellation meets it while its victim's
websocket closes); then `CancelReaper`, then `StopSessions`. A cancellation that
arrives while `close` awaits one of its own tasks is swallowed there
(`session.py:89`, `nostr/relay.py:86`): the reader serves its request and ends
with its connection, the reaper goes on.

**Inbox** (`RendezvousHub` as owner of one rendez-vous connection): the inbox
REQ and the announcements on connect, responses, the announcements of other
relays' connects and of the announcer's rounds (`Announces`), the AUTH challenge
answered past the queue by `send_now`, a CLOSED that is only logged.

**Ingress** (`_on_inbound_event`): `Rejected`, `RateLimited`, `Duplicate`,
`Accepted` are its outcomes, in the order the code tests for them. `sent`
records what each relay's subscription has delivered; `Resubscribe` is a
reconnect with a new `since` (a window whose bound is 0 has none, as in the code), `Restart` a restart of the process with empty
cache and buckets. What is checked of the event alone comes from **Protocol**
(`protocol.py`): tags, payloads, and which events the bridge and the client read.
An event is a record of kind, author, tags, content and whether id and signature
are its author's.

**RateLimiter** (`ratelimit.py`) with an integer clock; **TokenBudget** is the
abstract specification it implements: one budget per key that is always up to
date. A refill of 0 is `inbound_events_per_minute = 0`: `allow` agrees to everything
and touches no bucket, the budget has no price, and `RateBound` claims nothing.

**Framing** packs messages one by one as `batch_messages` does; a message is the
pair of its characters and bytes. **Nip44Padding** follows the lengths
through `pad`, encryption, the decoder's checks and `unpad`: a padded plaintext is the
length it begins with and its size, which `unpad` compares with each other; the
reference for the padding is NIP-44's table of lengths, in MCEncodings. **Bech32**
and **Nip19** are the encodings of keys and addresses: symbols with the BCH
checksum, bits regrouped, type-length-value entries. A function that
may raise is an operator that returns the set of its results. The characters
that stand for symbols, and their case, are left out.

**Client** (`client.py`). A caller runs one call after the other: `StartRequest`,
`StartPublish`, `StartMessages`, `StartDiscover` are the calls up to their first
suspension, `RequestTakes` and so on one message taken from the inbox, `TimesOut`
the deadline at any moment. `handler` lists the sniffs that `discover` has put in
front of `_on_relay_message`; each remembers the one it found. The bridge and both
connections are a path each way that keeps order but for a bounded number of
faults: `Lose` (a full queue, a connection that broke), `Repeat` (a response
written before its send failed, or sent on two relays), `Postpone` (a message put
back behind others); `Stranger` is an event of somebody else that reaches the
handler. The hidden relay is `testing.py`'s MiniRelay with its store, replaceable
and ephemeral kinds and fan-out; its `_on_req` is one step, although under back-pressure
its sends could suspend.

## Runs

| Run | Question and result | Bounds and why they are enough |
| --- | --- | --- |
| `delivery` | What a connection promises: nothing is lost except at a full queue or dropped on connect; only a message that was put back is overtaken; no message goes out twice on a connection; the queue drains while a connection is up with a live writer; `stop` ends. | Queue of 2, five messages: the queue overflows while the writer holds one. Two connections: one to fail on, one to recover. |
| `session` | Table, relay and client agree: no REQ is lost (`NoLostSubscription`) or pending twice (`NoDuplicateRequest`), what the client has open is in the table and at the relay unless a CLOSED is on its way (`LiveInTable`, `LiveAtRelay`), on a connection that stays up the relay ends up with every subscription of the table, and with no other unless a CLOSED crossed a new REQ of its id (`RelayConverges`; `session_stale_closed` shows what the crossing does), `close` ends. | One REQ id and two colliding long COUNT ids, two requests (a REQ and its replacement, or a COUNT in between), two connections, queue of 2, outbound queue of 1. |
| `session_stale_closed` | Violation of `NoOrphan`, see below. | One connection, two requests. |
| `manager` | `get` returns open sessions of the right client, admits at most one too many, leaks in one way only; `Bridge.stop` ends (`StopEnds`) and leaves nothing open that was registered (`StopClosesAll`). | Three clients for two places, two relays, four objects: both relays can be suspended at once, also when `stop` begins. |
| `manager_duplicate` | Violation of `OpenIsRegistered`, see below. | As above. |
| `limiter` | `RateBound`: no period is granted more than a full bucket and its refill. `LazyIsExact`: the refinement of TokenBudget. | Two keys, cost 3 against refill 2: partial tokens, the cap and forgetting all occur. |
| `ingress` | An event is handled once, whatever relays and reconnects redeliver, and after a restart only if it is younger than the slack (`HandledOnce`); a refused one may return. | Two relays, one restart, windows as in the default configuration with a minute for a tick; four events, of which never more than `SeenCapacity` pass the window together: see the assumption below. |
| `inbox` | The inbox REQ of each connection reaches a relay without AUTH; a challenge is answered although the queue is full or the writer dead. | Queue of 4 against three messages per connect and four responses or rounds of announcements: old and new messages meet, and the REQ can be shed. |
| `inbox_auth_race` | Violation of `ReachableOnceAuthed`, see below. | As above. |
| `encodings` | The pure parts. Packing keeps messages and order, keeps to both limits, takes the fewest payloads; a plaintext of 1 to 65535 bytes, and no other, passes NIP-44's encoder and comes back whole from its decoder, padded to the least of the scheme's lengths that holds it, the size estimate is exact, and what one side wraps the other reads (`RoundTrips`: `PlaintextReturns`, `EnvelopeIsRead`); keys and addresses read back, and with one mistake are refused (`AddressesReadBack`). | All lists of up to six messages of five sizes around the limit; all plaintext lengths from 0 to 65536; all events of two kinds, three authors, up to two tags and three messages. Keys of 8 bytes and relays of up to 9 instead of 32 and 255: the operators take any size, and the code's own was compared with the program's output by hand. Every place of a text is mistyped with five symbols, dropped, doubled or swapped. |
| `framing_wide` | Violation of `PayloadsEncryptable`, see below. | Up to three messages, one size of which is longer in bytes; `max_payload_bytes` above the ceiling, so that the ceiling is the limit. |
| `client` | A `request` that ended with EOSE returned exactly what the relay had, if its id was new, it read the inbox alone and the path was faithful (`RequestExact`); an OK means the event is at the relay, whatever the path did (`PublishedIsKept`); nobody alone waits for an answer that is not coming (`AnswerUnderWay`); while discoveries are nested, the handler is the sniffs of those that run, the latest first (`NestedDiscovers`). | Two callers, three calls or events of others, one fault, three events (one ordinary, one replaceable, one ephemeral), a store of two: late answers to a call that timed out, a full store, and overlapping calls all occur. |

Other bounds (`MaxCalls`, `MaxFaults`, `Mixes`, `MaxSends`, `MaxConnects`, `MaxRequests`, `MaxEvents`,
`MaxInFlight`, `MaxObjects`, `MaxResponses`, `MaxRestarts`, `MaxTime`) cap how
often something happens; each is a guard of one action. Deadlock is not checked
where the counters or a stopped connection end the behaviour.

Two properties depend on assumptions that the code makes silently. Both are
definitions of the models, hypotheses of the theorems, and ASSUMEs of the MC
modules, so that the instances are known to satisfy them:

* `CacheSuffices` (Ingress): no more readable events lie in the windows an event can
  share with others than the cache has places (`_SEEN_EVENT_CAPACITY`).
  `HandledOnce` needs it: a smaller cache forgets an event whose copy may still be
  accepted.
* `SeparateIds` (Session): the client uses no id for both a REQ and a COUNT,
  nor two that are hashed to one digest.
  `LiveInTable` and `LiveAtRelay` need it: the table has one entry for an id, which
  a COUNT takes over and its answer ends.

**Fairness.** Weak fairness of what the event loop and the transport do on their
own: the writer's steps while the connection is up (the transport drains; if it
does not, the keepalive pings end the connection, which is `Break`), the end of
a reader whose websocket is gone, the handling of received messages, the
flusher, the end of a `close` that has begun; in a shutdown, a `get` that goes on
when its victim has closed (`Resume`), and the end of a cancelled task that is not
in a `close` (`ReaderEnds`, `CancelReaper`, `StopSessions`). Connecting is never fair (a relay
may stay unreachable), nor are `Break`, failing sends, the client, or the relay
sending anything unasked. The local relay is assumed to read what it is sent.
Liveness of delivery is therefore conditional on a connection that stays up.

## Proofs

All theorems hold for every value of the constants that the modules' ASSUMEs
allow: any numbers of clients, relays, messages, connections, any queue size.

* **SessionProofs.** First the table, by its own specification: `TypeCorrect`,
  `InverseCorrect`, `CollisionCorrect`, `BudgetCorrect`. The properties are not
  inductive by themselves: `TableInv` adds that an open id has exactly the
  rewritten id `MakeUpstreamId` gives it; without it a re-open could write the way
  back at another place than `close` removes it from. That the markers keep hashed
  and verbatim ids apart is `MarkersSeparate`.
  `SessionImplementsTable`: a session refines the table's
  specification, each of its steps is one of the table's operations or leaves
  the table alone. The table's theorems then hold of sessions.
  `SessionTypeCorrect` adds that open entries have filters the client has used up
  to now (`Entries`), so that a new request differs from everything under way.
  The two properties of the connection are then invariants of one line of frames,
  what the relay has not read, what the writer holds, what is queued (`Pending`):
  `SessionLosesNothing` (`NoLostSubscription`) says that the line's last word about
  an open id, or what the relay holds if the line is silent, is the table's request;
  `SessionRequestsOnce` (`NoDuplicateRequest`) that no two requests of the line are
  the same. There is a lemma for each thing that happens to the line: a frame is
  added at the end and may push out another (`PendingSend`, with `shed` if it was
  subscription traffic), the first is taken by the relay (`PendingTaken`), the
  writer moves one along (`PendingWriter`), a reconnect puts the replayed requests
  behind what is kept (`ConnectLine`). `SessionKeepsLive` and `SessionServesLive`
  (`LiveInTable`, `LiveAtRelay`) follow the client's view end to end, for a client
  with `SeparateIds`.
* **SessionManagerProofs.** `ManagerTypeCorrect`, `RegisteredIsOpenCorrect`, `AdmissionBoundCorrect`,
  `OneRelayKeepsTheLimit`, `LeaksOnlyByRace`, `StopClosesAllCorrect`, `GetGoesOnCorrect`.
  `RegisteredIsOpen` is not
  inductive: a resumed `get` marks its victim closed, so the invariant also says
  that whose close is awaited is not open, hence not registered
  (`AwaitedIsShut`). The bound counts registered sessions and suspended tasks:
  an eviction turns one into the other, a resumption turns it back, and a task
  that is not suspended leaves one place for the rest. `StopClosesAll` follows
  from two more: an open session is registered or another of its client was
  created after it (`OpenIsKnown`, which one `get` registering over another
  preserves), and when `stop` reaches the sessions the readers have ended and
  the reaper sleeps for good, so that the cleared table stays empty (`StopOrder`).
  That `_evict_idlest` always has a session to evict (`GetGoesOn`, a property of the proof
  module that no run lists) rests on every registered session being in the order of
  activity (`RegisteredIsListed`); the idlest exists because numbers are well-founded.
* **RelayDeliveryProofs.** `DeliveryTypeCorrect`, `OncePerConnectionCorrect`,
  `LossOnlyWhenFullCorrect`, `OvertakenCorrect`. The invariant says that a message is in one place
  (`OnePlace`): queue and writer have none in common, and while the writer lives
  the queue has none that this connection has written. A writer that put back a
  written message is dead until the next connection. `OvertakenCorrect` is about
  the line of written, held and queued messages: one that comes after a later one
  was put back.
* **InboxProofs.** `InboxTypeCorrect` and `InboxStaysOpen` (`InboxOpen`). The
  invariant adds that a relay which demands no AUTH takes a connection as it is
  (`Welcome`); then the REQ moves from queue to writer, wire and relay, and a full
  queue pushes out nothing newer than it before it, or has shed it.
* **IngressProofs.** `IngressTypeCorrect`, `RefusedCanReturnCorrect`,
  `HandledOnceCorrect`. What is in the cache of seen
  events was handed on by this run of the bridge or cannot be read, since
  `SeenEvents.add` is reached only after the limiter has agreed; that needs no more
  than the type of the cache beside it. `HandledOnce` needs to know what the cache
  still holds: an event that was handled is in the cache with only events of
  overlapping windows after it (`Remembered`), or too old to be accepted
  (`Outdated`). Under `CacheSuffices` those cannot fill the cache, as they are
  distinct, so that an event is not pushed out before it is too old. Where a bound
  of the window is 0 nothing gets too old or all is in time, and `Near` is everything
  readable. Whatever
  was too old for the subscriptions of this run's start stays excluded
  (`SinceKept`).
  `WrappedIsRead` and `OthersTagsIgnored` are what `EnvelopeIsRead` says, for
  every list of messages and of tags: a tag put into the list moves the
  ones behind it by one place (`Inserted`), so that the first one that names an
  encryption stays the first (`SplitInserted`). They are theorems about Protocol's
  operators, of which only the module of the run has a state.
* **HubPartsProofs**, the limiter: `LimiterTypeCorrect`, `LimiterImplementsBudget`,
  `RateBoundCorrect`. The
  refinement maps a bucket to what it would hold if it were refilled now; a step
  of the clock, which changes no bucket, is the step that refills them all. The
  bound on every period follows from the same level: granted since some request,
  plus what is left, is never more than a full bucket and the refill since then
  (`Within`).
* **HubPartsProofs**, the packing: `NothingLostCorrect`, `PayloadsFitCorrect`,
  `FewestPayloadsCorrect`, for messages of any sizes, any number of them and any
  limits. The invariant (`PackInv`) says that the open batch is the latest messages
  and the running size their encoded size. That greed is optimal needs two more
  facts: a part of what fits, fits (`FitsInside`); the messages before the open
  batch take, at best, as many payloads as have been closed, and with any part of the
  open batch one more (`NoneLater`). What the recursive functions `Encoded` and `FewestFor` compute
  is shown by the least place at which it would fail.
* **ClientProofs.** All properties of the client: `ClientTypeCorrect`,
  `PublishedIsKeptCorrect`, `NestedDiscoversCorrect`, `AnswerUnderWayCorrect`,
  `RequestExactCorrect`, for any number of callers, calls, faults and events.
  None is inductive.
  - `PublishedIsKept`: the invariant is about every OK under way or in the inbox,
    not only those returned (`OkIsKept`). It holds since what is kept stays kept:
    a replaceable event gives way to another version only, and a store that is full
    stays full, for which it must have one version at most (`OneVersion`).
  - `NestedDiscovers`: as long as no discover has ended before a later one, each has kept
    the part of the handler that follows its own sniff (`Nested`); the last one
    that runs is first in the handler, so that putting its part back removes its own
    sniff only.
  - `AnswerUnderWay`: who is alone at a queue knows it (`Alone`); the question is on
    its way, or the answer that ends the call is on its way or in the inbox (`Awaited`);
    a lone discover is the first to hear the connection and has spoken last to the
    rendez-vous relay (`Hears`).
  - `RequestExact`: nothing was said about an id that was never used (`Untouched`). A
    request under such an id first waits with its question on the path once
    (`Waits`); from the moment the relay takes it, what was returned, then what the
    inbox holds for it, then what the path holds for it, is the answer the relay gave,
    message by message (`Continues`), with later events of the subscription behind it.
    `Only`, which picks those messages from the queues, is a recursive function whose
    laws over joined, appended and shortened queues are lemmas of the module.
* **QueueLemmas** holds what the queues of the models do to their messages.

Of a recursive function's values at every argument there is no rule to cite, but
there is one for the least number at which something fails (`Least`, `Climbing` in
QueueLemmas); the theorems on Framing and on Client's queues rest on it.

Only model-checked: everything about liveness (`DrainsWhileUp`,
`RelayConverges`, `CloseEnds`, `ChallengeAnswered`, both `StopEnds`), which TLAPS
does not do; `PlaintextReturns`, checked for every plaintext length there is;
and `AddressesReadBack`. That one is about Nip19's decoder and Bech32's checksum: the one
is a RECURSIVE operator, the other takes exclusive or from a module that the proof
tools do not load. `NoOrphan`, `OpenIsRegistered`, `ReachableOnceAuthed` and
`PayloadsEncryptable` are false, see below.

## Where the code departs from what it says

Four runs end in a violation that shows a disagreement:

* `session_stale_closed`: the client replaces a subscription while the relay
  closes it. The CLOSED of the old one arrives after the new REQ has entered the
  table, and `session.py:175` ends the new entry; the relay keeps a subscription
  that no table has (`subscriptions.py:100`).
* `manager_duplicate`: two requests of one client over two rendez-vous relays
  meet in `get`: while one is suspended in an eviction the other opens a session, over
  which the first then registers its own; the replaced one stays open for good (`session.py:3`, `session.py:298`).
* `inbox_auth_race`: the inbox REQ is queued before the challenge is answered;
  if it is written first it is refused, and nothing repeats it
  (`rendezvous.py:151`, `tests/test_end_to_end.py:335`).
* `framing_wide`: sizes are counted in characters, the ceiling is in bytes, so that
  a batch of messages which could each be encrypted alone cannot be encrypted (`framing.py:26`, `README.md:177`).

Seen while modelling, without a run of their own:

* `nostr/relay.py:199` says a held message is put back for the next connection;
  if the queue is full it is dropped, and not counted when the writer was
  cancelled (the second case of `LossOnlyWhenFull`).
* COUNT and REQ share one id space: a COUNT under the id of an open REQ takes
  over its entry, and the answer ends it (`session.py:132`, `session.py:174`).
  The runs of Session keep the two sets of ids apart (`SeparateIds`).
* `max_sessions` is exceeded by one for each further rendez-vous relay
  (`README.md:179`; `AdmissionBound` is what holds).
* The reaper closes a session that has become active since its list was made
  (`session.py:338`).
* A minute can see nearly twice `inbound_events_per_minute`
  (`config.example.toml:59`; `RateBound` is what holds).
* The limiter is charged before the cache of seen events is asked, so copies of
  one event over several relays cost the client several tokens
  (`README.md:117` lists the two in the other order).

* `Bridge.stop` can wait for ever: if it cancels the reaper while that awaits the
  flusher or the run task of a session it closes, the session's `close` swallows the
  cancellation (`session.py:89`, `nostr/relay.py:86`), the reaper returns to its
  loop, and `SessionManager.stop` awaits it (the exception in `StopEnds`).
* `request` uses the id "sub1" by default; after a timeout, the late EOSE of one
  request ends the next (the condition `fresh` of `RequestExact`), and two calls
  at a time take each other's messages (`lone`).
* Of two discoveries that overlap without being nested, the one that ends first
  removes the other's sniff, and the one that ends last leaves a stale sniff
  behind (`crossed` in `NestedDiscovers`, `client.py:223`, `client.py:242`).
* `nip11.py:50` says that the announced document's identity is the bridge's own;
  `setdefault` keeps a `pubkey` that the local relay's document brings
  (`nip11.py:51`).

## Not modelled

Keys, signatures, hashing and the ciphers of NIP-44 (data the models trust: an
event is intact or not, and opened by the one it was encrypted to), backend
selection, NIP-11 documents, configuration, the command line, logging,
deployment: pure functions of their input, or read once at start. The text forms
of JSON, bech32 and NIP-19 are left out where they are read. The backoff between
connection attempts is any delay. `HiddenRelayClient.connect` and `close` are the
connection's `start` and `stop`, which RelayDelivery covers.

## Plan

Done in this order: Subscriptions, RelayConnection with RelayDelivery, Session,
SessionManager, RateLimiter, Ingress, Inbox, Framing, Nip44Padding and their
proofs, then Client, the shutdown in SessionManager, Protocol, Bech32 and Nip19, and the
proofs about the packing and the client. What would come next:

1. An abstract specification of a session as the client sees it (a mirror of
   its open subscriptions at the relay), and Session shown to implement it while
   a connection carries its traffic; `SessionServesLive` is its invariant.
2. AUTH inside Session, with `local_relay.auth` on and off; COUNT and REQ under
   one id.
