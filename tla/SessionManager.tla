-------------------------- MODULE SessionManager ---------------------------
(***************************************************************************)
(* The sessions of all clients: SessionManager of session.py with its      *)
(* callers.  One task per rendez-vous relay handles inbound events one by  *)
(* one (bridge.py, _handle_client_request: get, then the session's         *)
(* handler, which does not suspend); the reaper is a task of its own.      *)
(* Both suspend while a session closes, and only then.  Session objects    *)
(* are numbered in the order of their creation.  Bridge.stop cancels the   *)
(* reader tasks, then the reaper, and closes what is registered; a task    *)
(* cancelled while it awaits a close may lose the cancellation there.      *)
(***************************************************************************)
EXTENDS Naturals, Sequences, FiniteSets

CONSTANTS Pubkeys,       \* the whitelisted clients
          Tasks,         \* the rendez-vous relays, each with a reader task
          MaxSessions,   \* limits.max_sessions
          MaxObjects,    \* bound: how many session objects are created
          None

VARIABLES sessions,    \* _sessions: the session object of each pubkey
          owner,       \* the pubkey each object was created for
          life,        \* "open", "closing" (close is running), "closed"
          activity,    \* the objects by last_activity, idlest first
          expired,     \* those idle for more than session_idle_timeout_seconds
          subscribed,  \* the objects whose client has open subscriptions
          task,        \* each reader task: the pubkey get suspends for, and its victim
          stale,       \* the reaper's list of pubkeys, None while it sleeps
          reaping,     \* the object whose close the reaper awaits
          shutdown,    \* what Bridge.stop awaits: "none" before it is called, "readers",
                       \* "reaper", "sessions", and "stopped" when it has returned
          ended        \* the reader tasks that have ended

stopVars == <<shutdown, ended>>
vars == <<sessions, owner, life, activity, expired, subscribed, task, stale, reaping, stopVars>>

Objects == 1..MaxObjects
Ready == [pubkey |-> None, victim |-> None]

ASSUME ManagerAssumption ==
  /\ IsFiniteSet(Pubkeys) /\ IsFiniteSet(Tasks)
  /\ MaxSessions \in Nat \ {0} /\ MaxObjects \in Nat
  /\ None \notin Pubkeys /\ None \notin Nat

Registered == {sessions[p] : p \in Pubkeys} \ {None}
Created == DOMAIN owner
Suspended == {t \in Tasks : task[t] # Ready}

Init == /\ sessions = [p \in Pubkeys |-> None]
        /\ owner = <<>> /\ life = <<>> /\ activity = <<>>
        /\ expired = {} /\ subscribed = {}
        /\ task = [t \in Tasks |-> Ready]
        /\ stale = None /\ reaping = None
        /\ shutdown = "none" /\ ended = {}

----------------------------------------------------------------------------
Without(s, o) ==
  LET at == {i \in 1..Len(s) : s[i] = o}
  IN  IF at = {} THEN s
      ELSE LET k == CHOOSE i \in at : TRUE
           IN  SubSeq(s, 1, k - 1) \o SubSeq(s, k + 1, Len(s))

\* The registered session that _evict_idlest chooses.
Idlest == {o \in Registered :
             \E i \in 1..Len(activity) :
               activity[i] = o /\ \A j \in 1..(i - 1) : activity[j] \notin Registered}

\* A message, from the client or from the local relay, sets last_activity.
Touch(o) == /\ activity' = Append(Without(activity, o), o)
            /\ expired' = expired \ {o}

\* handle_client_messages: the client may open or close subscriptions.
Serve(o) == /\ Touch(o)
            /\ subscribed' \in {subscribed \cup {o}, subscribed \ {o}}

\* Mutant: the new session is registered but not started.
CreateUnstarted(p, lives) ==
  LET o == Len(owner) + 1
  IN  /\ o \in Objects
      /\ owner' = Append(owner, p)
      /\ life' = lives
      /\ sessions' = [sessions EXCEPT ![p] = o]
      /\ Serve(o)

\* get, last part: a new session is registered under the pubkey and started,
\* whatever is registered there now; then it serves the request.  (lives is
\* life as it stands by then.)
Create(p, lives) ==
  LET o == Len(owner) + 1
  IN  /\ o \in Objects
      /\ owner' = Append(owner, p)
      /\ life' = Append(lives, "open")
      /\ sessions' = [sessions EXCEPT ![p] = o]
      /\ Serve(o)

\* Mutant: the entry is still there while the session closes.
UnregisterLate(p, lives) ==
  /\ life' = [lives EXCEPT ![sessions[p]] = "closing"]
  /\ activity' = Without(activity, sessions[p])
  /\ expired' = expired \ {sessions[p]}
  /\ UNCHANGED sessions

\* _close up to its first suspension: the entry is popped, close begins.
Unregister(p, lives) ==
  /\ sessions' = [sessions EXCEPT ![p] = None]
  /\ life' = [lives EXCEPT ![sessions[p]] = "closing"]
  /\ activity' = Without(activity, sessions[p])
  /\ expired' = expired \ {sessions[p]}

----------------------------------------------------------------------------
\* A request of p reaches an idle reader task: get finds the session,
Hit(t, p) == /\ task[t] = Ready /\ t \notin ended /\ sessions[p] # None
             /\ Serve(sessions[p])
             /\ UNCHANGED <<sessions, owner, life, task, stale, reaping, stopVars>>

\* Mutants: get does not look whether there is a session; it lets one too many in.
OpenAlways(t, p) == /\ task[t] = Ready
                    /\ Cardinality(Registered) < MaxSessions
                    /\ Create(p, life)
                    /\ UNCHANGED <<task, stale, reaping, stopVars>>
OpenOneMore(t, p) == /\ task[t] = Ready /\ t \notin ended /\ sessions[p] = None
                     /\ Cardinality(Registered) <= MaxSessions
                     /\ Create(p, life)
                     /\ UNCHANGED <<task, stale, reaping, stopVars>>

\* or there is room for a new one,
Open(t, p) == /\ task[t] = Ready /\ t \notin ended /\ sessions[p] = None
              /\ Cardinality(Registered) < MaxSessions
              /\ Create(p, life)
              /\ UNCHANGED <<task, stale, reaping, stopVars>>

\* or the idlest session is evicted first, and get suspends.
Evict(t, p) ==
  /\ task[t] = Ready /\ t \notin ended /\ sessions[p] = None
  /\ Cardinality(Registered) >= MaxSessions
  /\ \E victim \in Idlest :
       /\ task' = [task EXCEPT ![t] = [pubkey |-> p, victim |-> victim]]
       /\ Unregister(owner[victim], life)
  /\ UNCHANGED <<owner, subscribed, stale, reaping, stopVars>>

\* Mutant: get waits for room.
ResumeIfRoom(t) == LET victim == task[t].victim
                   IN  /\ task[t] # Ready
                       /\ Cardinality(Registered) < MaxSessions
                       /\ Create(task[t].pubkey, [life EXCEPT ![victim] = "closed"])
                       /\ task' = [task EXCEPT ![t] = Ready]
                       /\ UNCHANGED <<stale, reaping, stopVars>>

\* get resumes when the victim has closed, and looks at nothing again.
Resume(t) == LET victim == task[t].victim
             IN  /\ task[t] # Ready
                 /\ Create(task[t].pubkey, [life EXCEPT ![victim] = "closed"])
                 /\ task' = [task EXCEPT ![t] = Ready]
                 /\ UNCHANGED <<stale, reaping, stopVars>>

----------------------------------------------------------------------------
\* Time passes: the longest idle session exceeds the idle timeout.
Expire(o) == /\ o \in Registered \ expired
             /\ \A i \in 1..Len(activity) : activity[i] = o =>
                  \A j \in 1..(i - 1) : activity[j] \in Registered => activity[j] \in expired
             /\ expired' = expired \cup {o}
             /\ UNCHANGED <<sessions, owner, life, activity, subscribed, task, stale, reaping, stopVars>>

\* The local relay sends a message for a session; a CLOSED or COUNT ends an entry
\* of its table, which may be the last one.
LocalMessage(o) == /\ o \in Registered
                   /\ Touch(o)
                   /\ subscribed' \in {subscribed, subscribed \ {o}}
                   /\ UNCHANGED <<sessions, owner, life, task, stale, reaping, stopVars>>

\* The reaper goes on with its list up to its next suspension: it skips the
\* pubkeys without a session and closes what is registered for another one;
\* without such a pubkey it sleeps.  (The list's order is the dictionary's; any
\* order is allowed here.)
ReapOn(list, lives) ==
  LET absent == {p \in list : sessions[p] = None}
  IN  \/ /\ list = absent
         /\ stale' = None /\ reaping' = None
         /\ life' = lives
         /\ UNCHANGED <<sessions, activity, expired>>
      \/ \E p \in list \ absent, skipped \in SUBSET absent :
           /\ stale' = list \ (skipped \cup {p})
           /\ reaping' = sessions[p]
           /\ Unregister(p, lives)

\* _reap_loop wakes up and lists the idle sessions without subscriptions.
ReaperRuns == shutdown \notin {"sessions", "stopped"}

ReaperWakes == /\ ReaperRuns /\ stale = None
               /\ ReapOn({p \in Pubkeys : sessions[p] \in expired \ subscribed}, life)
               /\ UNCHANGED <<owner, subscribed, task, stopVars>>

\* The close it awaits has ended.
ReaperResumes == /\ stale # None
                 /\ ReapOn(stale, [life EXCEPT ![reaping] = "closed"])
                 /\ UNCHANGED <<owner, subscribed, task, stopVars>>

----------------------------------------------------------------------------
\* Bridge.stop stops the pool of rendez-vous relays first: their connections are
\* closed and their tasks cancelled.
BeginStop == /\ shutdown = "none" /\ shutdown' = "readers"
             /\ UNCHANGED <<sessions, owner, life, activity, expired, subscribed, task, stale,
                            reaping, ended>>

\* A reader that is not in get ends; one that was, and whose cancellation was
\* swallowed there, finds its connection closed after it has served the request.
ReaderEnds(t) == /\ shutdown = "readers" /\ task[t] = Ready /\ t \notin ended
                 /\ ended' = ended \cup {t}
                 /\ UNCHANGED <<sessions, owner, life, activity, expired, subscribed, task, stale,
                                reaping, shutdown>>

\* The cancellation hits get while the victim's websocket closes: the request is
\* lost and the victim's close does not go on.  (While close awaits a task of the
\* victim's, except CancelledError swallows it, and nothing changes here.)
CancelledInGet(t) == /\ shutdown = "readers" /\ task[t] # Ready
                     /\ task' = [task EXCEPT ![t] = Ready]
                     /\ ended' = ended \cup {t}
                     /\ UNCHANGED <<sessions, owner, life, activity, expired, subscribed, stale,
                                    reaping, shutdown>>

\* Mutant: the sessions are stopped before the relays.
CancelReaperFirst == /\ shutdown = "readers"
                     /\ \/ shutdown' = "sessions" /\ stale' = None /\ reaping' = None
                        \/ stale # None /\ shutdown' = "reaper" /\ UNCHANGED <<stale, reaping>>
                     /\ UNCHANGED <<sessions, owner, life, activity, expired, subscribed, task,
                                    ended>>

\* SessionManager.stop: the reaper ends where it sleeps or while a websocket
\* closes, or else swallows its cancellation and goes on, with stop awaiting it.
CancelReaper == /\ shutdown = "readers" /\ ended = Tasks
                /\ \/ shutdown' = "sessions" /\ stale' = None /\ reaping' = None
                   \/ stale # None /\ shutdown' = "reaper" /\ UNCHANGED <<stale, reaping>>
                /\ UNCHANGED <<sessions, owner, life, activity, expired, subscribed, task, ended>>

\* All that is registered is closed, and the table cleared.
StopSessions == /\ shutdown = "sessions" /\ shutdown' = "stopped"
                /\ life' = [o \in Created |-> IF o \in Registered THEN "closed" ELSE life[o]]
                /\ sessions' = [p \in Pubkeys |-> None]
                /\ UNCHANGED <<owner, activity, expired, subscribed, task, stale, reaping, ended>>

Next == \/ \E t \in Tasks, p \in Pubkeys : Hit(t, p) \/ Open(t, p) \/ Evict(t, p)
        \/ \E t \in Tasks : Resume(t) \/ ReaderEnds(t) \/ CancelledInGet(t)
        \/ \E o \in Objects : Expire(o) \/ LocalMessage(o)
        \/ ReaperWakes \/ ReaperResumes
        \/ BeginStop \/ CancelReaper \/ StopSessions

\* A close ends (see CloseEnds of Session), and then its caller goes on; a
\* cancelled task that is not in a close ends, and stop goes on.
Fairness == /\ \A t \in Tasks : WF_vars(Resume(t)) /\ WF_vars(ReaderEnds(t))
            /\ WF_vars(CancelReaper) /\ WF_vars(StopSessions)

Spec == Init /\ [][Next]_vars
FairSpec == Spec /\ Fairness

----------------------------------------------------------------------------
TypeOK ==
  /\ sessions \in [Pubkeys -> Objects \cup {None}]
  /\ owner \in Seq(Pubkeys) /\ Len(owner) <= MaxObjects
  /\ life \in [Created -> {"open", "closing", "closed"}]
  /\ activity \in Seq(Created)
  /\ expired \subseteq Created /\ subscribed \subseteq Created
  /\ task \in [Tasks -> [pubkey : Pubkeys \cup {None}, victim : Objects \cup {None}]]
  /\ stale = None \/ stale \subseteq Pubkeys
  /\ reaping \in Objects \cup {None}
  /\ shutdown \in {"none", "readers", "reaper", "sessions", "stopped"} /\ ended \subseteq Tasks

\* What get returns is open and the client's own: whatever eviction, the
\* reaper and other tasks do while a get is suspended, no request is handed to
\* a session that is closing or belongs to another client.
RegisteredIsOpen == \A p \in Pubkeys : sessions[p] # None =>
                      life[sessions[p]] = "open" /\ owner[sessions[p]] = p

\* "Every whitelisted client pubkey gets its own session" (session.py:3): an
\* open session is the registered one of its client, so that later requests
\* reach it and the reaper can close it.
OpenIsRegistered == \A o \in Created : life[o] = "open" => sessions[owner[o]] = o

\* "The idlest is evicted when the limit is reached" (README.md:179): the
\* sessions that are registered and those about to be exceed max_sessions by
\* no more than one for every relay beyond the first.
AdmissionBound ==
  Cardinality(Registered) + Cardinality(Suspended)
    <= MaxSessions + Cardinality(Tasks) - 1

\* An open session drops out of the table in one way only: a get that was
\* suspended registers another one over it.
LeakOnlyByRace ==
  [][\A o \in Created : life[o] = "open" /\ sessions[owner[o]] = o =>
       \/ life'[o] # "open" \/ sessions'[owner[o]] = o
       \/ \E t \in Tasks : task[t].pubkey = owner[o] /\ task'[t] = Ready]_vars

\* Bridge.stop returns, whatever it finds its tasks doing, except that it waits
\* for ever for a reaper that has swallowed its cancellation; and unless the
\* model runs out of session objects.
StopEnds == shutdown = "readers" ~>
              shutdown \in {"stopped", "reaper"} \/ Len(owner) = MaxObjects

\* After stop no session is open, except those that had dropped out of the table
\* by the race of LeakOnlyByRace: another was opened for the client after them.
StopClosesAll == shutdown = "stopped" =>
  \A o \in Created : life[o] = "open" => \E q \in Created : q > o /\ owner[q] = owner[o]
============================================================================
