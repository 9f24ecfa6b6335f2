------------------------ MODULE SessionManagerProofs ------------------------
(***************************************************************************)
(* What holds of the sessions for any number of clients, relays and        *)
(* session objects.  Beside the properties the inductive invariant says    *)
(* that a victim that is being closed is not registered any more: get may  *)
(* mark it closed after any suspension without touching a session in use.  *)
(* Of the order of activity it says that every registered session is in    *)
(* it, so that an eviction has something to choose from.                   *)
(***************************************************************************)
EXTENDS SessionManager, FiniteSetTheorems, SequenceTheorems, WellFoundedInduction, TLAPS

States == {"open", "closing", "closed"}

Types == /\ sessions \in [Pubkeys -> Objects \cup {None}]
         /\ owner \in Seq(Pubkeys) /\ Len(owner) <= MaxObjects
         /\ life \in Seq(States) /\ Len(life) = Len(owner)
         /\ task \in [Tasks -> [pubkey : Pubkeys \cup {None}, victim : Objects \cup {None}]]
         /\ stale = None \/ stale \subseteq Pubkeys

\* Registered objects have been created.
RegisteredIsCreated == \A p \in Pubkeys : sessions[p] # None => sessions[p] \in Created

Shut(o) == o \in Created /\ life[o] # "open"

\* Whose close is awaited is not open.
AwaitedIsShut ==
  /\ \A t \in Tasks : task[t] # Ready => task[t].pubkey \in Pubkeys /\ Shut(task[t].victim)
  /\ stale # None => Shut(reaping)

Inv == Types /\ RegisteredIsCreated /\ RegisteredIsOpen /\ AwaitedIsShut

LEMMA InitInv == Init => Inv
BY ManagerAssumption
   DEF Init, Inv, Types, RegisteredIsCreated, RegisteredIsOpen, AwaitedIsShut, Ready, States

LEMMA CreatedNumbers ==
  ASSUME Types
  PROVE  /\ Len(owner) \in Nat /\ Created = 1..Len(owner) /\ DOMAIN life = 1..Len(owner)
         /\ None \notin Created
BY ManagerAssumption DEF Types, Created

\* Closing an object that is not open changes nothing for a registered one.
LEMMA LivesAfterClose ==
  ASSUME Inv, NEW o, Shut(o)
  PROVE  LET lives == [life EXCEPT ![o] = "closed"]
         IN  /\ lives \in Seq(States) /\ Len(lives) = Len(owner)
             /\ \A p \in Pubkeys : sessions[p] # None => lives[sessions[p]] = "open"
             /\ \A q \in Created : Shut(q) => lives[q] # "open"
<1> USE CreatedNumbers
<1> DEFINE lives == [life EXCEPT ![o] = "closed"]
<1>1. o \in 1..Len(owner) /\ o \in 1..Len(life)
  BY DEF Inv, Types, Shut
<1>2. lives \in Seq(States) /\ Len(lives) = Len(owner)
  BY <1>1 DEF Inv, Types, States
<1>3. ASSUME NEW p \in Pubkeys, sessions[p] # None PROVE lives[sessions[p]] = "open"
  BY <1>1, <1>3 DEF Inv, Types, RegisteredIsCreated, RegisteredIsOpen, Shut
<1>4. ASSUME NEW q \in Created, Shut(q) PROVE lives[q] # "open"
  BY <1>1, <1>4 DEF Inv, Types, Shut
<1> QED BY <1>2, <1>3, <1>4

\* What Create does to the objects, given that the lives it starts from keep
\* what is registered open and what is awaited shut.
LEMMA CreateInv ==
  ASSUME Inv, NEW p \in Pubkeys, NEW lives \in Seq(States), Len(lives) = Len(owner),
         \A q \in Pubkeys : sessions[q] # None => lives[sessions[q]] = "open",
         \A q \in Created : Shut(q) => lives[q] # "open",
         Create(p, lives)
  PROVE  /\ sessions' \in [Pubkeys -> Objects \cup {None}]
         /\ owner' \in Seq(Pubkeys) /\ Len(owner') <= MaxObjects
         /\ life' \in Seq(States) /\ Len(life') = Len(owner')
         /\ RegisteredIsCreated' /\ RegisteredIsOpen'
         /\ \A q \in Created : Shut(q) => Shut(q)'
<1> USE CreatedNumbers
<1> DEFINE o == Len(owner) + 1
<1>1. /\ o \in Objects /\ o # None /\ o \notin Created
      /\ owner' = Append(owner, p) /\ life' = Append(lives, "open")
      /\ sessions' = [sessions EXCEPT ![p] = o]
  BY ManagerAssumption DEF Inv, Create
<1>2. /\ sessions' \in [Pubkeys -> Objects \cup {None}]
      /\ owner' \in Seq(Pubkeys) /\ Len(owner') <= MaxObjects
      /\ life' \in Seq(States) /\ Len(life') = Len(owner')
  <2>1. sessions' \in [Pubkeys -> Objects \cup {None}]
    BY <1>1 DEF Inv, Types
  <2>2. owner' \in Seq(Pubkeys) /\ Len(owner') = o
    BY <1>1 DEF Inv, Types
  <2>3. life' \in Seq(States) /\ Len(life') = o
    BY <1>1 DEF Inv, Types, States
  <2>4. o <= MaxObjects
    BY <1>1, ManagerAssumption DEF Objects
  <2> QED BY <2>1, <2>2, <2>3, <2>4
<1>3. Created' = 1..o
  BY <1>1 DEF Inv, Types, Created
<1>4. ASSUME NEW q \in Created
      PROVE  q \in Created' /\ owner'[q] = owner[q] /\ life'[q] = lives[q]
  BY <1>1, <1>3 DEF Inv, Types
<1>5. owner'[o] = p /\ life'[o] = "open"
  BY <1>1 DEF Inv, Types
<1>6. ASSUME NEW q \in Pubkeys, sessions'[q] # None
      PROVE  sessions'[q] \in Created' /\ life'[sessions'[q]] = "open" /\ owner'[sessions'[q]] = q
  <2>1. CASE q = p
    BY <2>1, <1>1, <1>3, <1>5 DEF Inv, Types
  <2>2. CASE q # p
    BY <2>2, <1>1, <1>4, <1>6 DEF Inv, Types, RegisteredIsCreated, RegisteredIsOpen
  <2> QED BY <2>1, <2>2
<1>7. \A q \in Created : Shut(q) => Shut(q)'
  BY <1>4 DEF Shut
<1> QED BY <1>2, <1>6, <1>7 DEF RegisteredIsCreated, RegisteredIsOpen

\* The same of Unregister; in addition the session it closes is shut.
LEMMA UnregisterInv ==
  ASSUME Inv, NEW p \in Pubkeys, sessions[p] # None,
         NEW lives \in Seq(States), Len(lives) = Len(owner),
         \A q \in Pubkeys : sessions[q] # None => lives[sessions[q]] = "open",
         \A q \in Created : Shut(q) => lives[q] # "open",
         Unregister(p, lives), UNCHANGED owner
  PROVE  /\ sessions' \in [Pubkeys -> Objects \cup {None}]
         /\ life' \in Seq(States) /\ Len(life') = Len(owner')
         /\ RegisteredIsCreated' /\ RegisteredIsOpen'
         /\ \A q \in Created : Shut(q) => Shut(q)'
         /\ sessions[p] \in Created' /\ life'[sessions[p]] # "open"
<1> PICK o : o = sessions[p]
  OBVIOUS
<1>1. /\ Created = 1..Len(owner) /\ DOMAIN lives = Created
      /\ o \in Created /\ Created' = Created
  BY CreatedNumbers DEF Inv, Types, RegisteredIsCreated, Created
<1>2. /\ sessions' = [sessions EXCEPT ![p] = None]
      /\ life' = [lives EXCEPT ![o] = "closing"]
  BY DEF Unregister
<1>3. /\ sessions' \in [Pubkeys -> Objects \cup {None}]
      /\ life' \in Seq(States) /\ Len(life') = Len(owner')
  BY <1>1, <1>2 DEF Inv, Types, States
<1>4. ASSUME NEW q \in Pubkeys, sessions'[q] # None
      PROVE  sessions'[q] \in Created' /\ life'[sessions'[q]] = "open" /\ owner'[sessions'[q]] = q
  <2>1. q # p /\ sessions'[q] = sessions[q]
    BY <1>2, <1>4 DEF Inv, Types
  <2>2. sessions[q] \in Created /\ owner[sessions[q]] = q /\ owner[o] = p
    BY <2>1, <1>4 DEF Inv, RegisteredIsCreated, RegisteredIsOpen
  <2>3. sessions[q] # o
    BY <2>1, <2>2
  <2>4. life'[sessions[q]] = "open"
    BY <2>1, <2>2, <2>3, <1>1, <1>2, <1>4 DEF Inv, Types
  <2> QED BY <2>1, <2>2, <2>4, <1>1
<1>5. ASSUME NEW q \in Created, lives[q] # "open" PROVE Shut(q)'
  <2>1. q \in DOMAIN lives /\ q \in Created'
    BY <1>1
  <2>2. CASE q = o
    BY <2>1, <2>2, <1>1, <1>2 DEF Shut
  <2>3. CASE q # o
    BY <2>1, <2>3, <1>1, <1>2, <1>5 DEF Shut
  <2> QED BY <2>2, <2>3
<1>6. o \in Created' /\ life'[o] # "open"
  BY <1>1, <1>2
<1> QED BY <1>3, <1>4, <1>5, <1>6 DEF RegisteredIsCreated, RegisteredIsOpen, Inv, Types

\* life as it stands can be the start of either.
LEMMA LivesAsTheyAre ==
  ASSUME Inv
  PROVE  /\ life \in Seq(States) /\ Len(life) = Len(owner)
         /\ \A p \in Pubkeys : sessions[p] # None => life[sessions[p]] = "open"
         /\ \A q \in Created : Shut(q) => life[q] # "open"
BY DEF Inv, Types, RegisteredIsOpen, Shut

LEMMA ReapOnInv ==
  ASSUME Inv, NEW list \in SUBSET Pubkeys,
         NEW lives \in Seq(States), Len(lives) = Len(owner),
         \A q \in Pubkeys : sessions[q] # None => lives[sessions[q]] = "open",
         \A q \in Created : Shut(q) => lives[q] # "open",
         ReapOn(list, lives), UNCHANGED <<owner, task>>
  PROVE  Inv'
<1> DEFINE absent == {p \in list : sessions[p] = None}
<1>1. CASE stale' = None /\ life' = lives /\ UNCHANGED sessions
  <2>1. Types' /\ Created' = Created
    BY <1>1 DEF Inv, Types, Created
  <2>2. RegisteredIsCreated' /\ RegisteredIsOpen'
    BY <1>1, <2>1 DEF Inv, RegisteredIsCreated, RegisteredIsOpen
  <2>3. \A q \in Created : Shut(q) => Shut(q)'
    BY <1>1, <2>1 DEF Shut
  <2>4. AwaitedIsShut'
    BY <1>1, <2>3 DEF Inv, AwaitedIsShut, Ready, Shut
  <2> QED BY <2>1, <2>2, <2>4 DEF Inv
<1>2. ASSUME NEW p \in list \ absent, NEW skipped \in SUBSET absent,
             stale' = list \ (skipped \cup {p}), reaping' = sessions[p],
             Unregister(p, lives)
      PROVE  Inv'
  <2>1. p \in Pubkeys /\ sessions[p] # None
    OBVIOUS
  <2>2. /\ sessions' \in [Pubkeys -> Objects \cup {None}]
        /\ life' \in Seq(States) /\ Len(life') = Len(owner')
        /\ RegisteredIsCreated' /\ RegisteredIsOpen'
        /\ \A q \in Created : Shut(q) => Shut(q)'
        /\ sessions[p] \in Created' /\ life'[sessions[p]] # "open"
    BY <2>1, <1>2, UnregisterInv
  <2>3. Types'
    BY <2>2, <1>2 DEF Inv, Types
  <2>4. Shut(reaping)'
    BY <2>2, <1>2 DEF Shut
  <2>5. ASSUME NEW t \in Tasks, task'[t] # Ready
        PROVE  task'[t].pubkey \in Pubkeys /\ Shut(task[t].victim)'
    BY <2>2, <2>5 DEF Inv, AwaitedIsShut, Shut, Ready
  <2>6. AwaitedIsShut'
    BY <2>4, <2>5 DEF AwaitedIsShut, Ready
  <2> QED BY <2>2, <2>3, <2>6 DEF Inv
<1> QED BY <1>1, <1>2 DEF ReapOn

LEMMA CreateStepInv ==
  ASSUME Inv, NEW p \in Pubkeys, NEW lives \in Seq(States), Len(lives) = Len(owner),
         \A q \in Pubkeys : sessions[q] # None => lives[sessions[q]] = "open",
         \A q \in Created : Shut(q) => lives[q] # "open",
         Create(p, lives), UNCHANGED <<stale, reaping>>,
         NEW t \in Tasks, task' \in {task, [task EXCEPT ![t] = Ready]}
  PROVE  Inv'
<1>1. /\ sessions' \in [Pubkeys -> Objects \cup {None}]
      /\ owner' \in Seq(Pubkeys) /\ Len(owner') <= MaxObjects
      /\ life' \in Seq(States) /\ Len(life') = Len(owner')
      /\ RegisteredIsCreated' /\ RegisteredIsOpen'
      /\ \A q \in Created : Shut(q) => Shut(q)'
  BY CreateInv
<1>2. Types'
  BY <1>1 DEF Inv, Types, Ready
<1>3. ASSUME NEW u \in Tasks, task'[u] # Ready
      PROVE  task'[u].pubkey \in Pubkeys /\ Shut(task[u].victim)'
  <2>1. task'[u] = task[u]
    BY <1>3 DEF Inv, Types
  <2> QED BY <2>1, <1>1, <1>3 DEF Inv, AwaitedIsShut, Shut, Ready
<1>4. stale' # None => Shut(reaping)'
  BY <1>1 DEF Inv, AwaitedIsShut, Shut
<1> QED BY <1>1, <1>2, <1>3, <1>4 DEF Inv, AwaitedIsShut, Ready

LEMMA EvictInv ==
  ASSUME Inv, NEW t \in Tasks, NEW p \in Pubkeys, Evict(t, p)
  PROVE  Inv'
<1>1. PICK victim \in Idlest :
        /\ task' = [task EXCEPT ![t] = [pubkey |-> p, victim |-> victim]]
        /\ Unregister(owner[victim], life)
        /\ UNCHANGED <<owner, stale, reaping>>
  BY DEF Evict
<1>2. PICK q \in Pubkeys : sessions[q] = victim /\ owner[victim] = q /\ victim # None
  BY <1>1 DEF Idlest, Registered, Inv, RegisteredIsOpen
<1>3. /\ sessions' \in [Pubkeys -> Objects \cup {None}]
      /\ life' \in Seq(States) /\ Len(life') = Len(owner')
      /\ RegisteredIsCreated' /\ RegisteredIsOpen'
      /\ \A o \in Created : Shut(o) => Shut(o)'
      /\ victim \in Created' /\ life'[victim] # "open"
  BY <1>1, <1>2, UnregisterInv, LivesAsTheyAre
<1>4. victim \in Objects
  BY <1>2 DEF Inv, Types
<1>5. Types'
  BY <1>1, <1>3, <1>4 DEF Inv, Types
<1>6. ASSUME NEW u \in Tasks, task'[u] # Ready
      PROVE  task'[u].pubkey \in Pubkeys /\ Shut(task[u].victim)'
  <2>1. CASE u = t
    BY <2>1, <1>1, <1>3 DEF Inv, Types, Shut
  <2>2. CASE u # t
    BY <2>2, <1>1, <1>3, <1>6 DEF Inv, Types, AwaitedIsShut, Shut, Ready
  <2> QED BY <2>1, <2>2
<1>7. stale' # None => Shut(reaping)'
  BY <1>1, <1>3 DEF Inv, AwaitedIsShut, Shut
<1> QED BY <1>3, <1>5, <1>6, <1>7 DEF Inv, AwaitedIsShut, Ready

LEMMA ReapInv ==
  ASSUME Inv, ReaperWakes \/ ReaperResumes
  PROVE  Inv'
<1>1. CASE ReaperWakes
  <2>1. {p \in Pubkeys : sessions[p] \in expired \ subscribed} \in SUBSET Pubkeys
    OBVIOUS
  <2> QED BY <2>1, <1>1, ReapOnInv, LivesAsTheyAre DEF ReaperWakes
<1>2. CASE ReaperResumes
  <2>1. stale \in SUBSET Pubkeys /\ Shut(reaping)
    BY <1>2 DEF ReaperResumes, Inv, Types, AwaitedIsShut
  <2> HIDE DEF Inv
  <2> QED BY <2>1, <1>2, ReapOnInv, LivesAfterClose DEF ReaperResumes
<1> QED BY <1>1, <1>2

\* A stop cancels a get or the reaper: there is less to await.
LEMMA CancelInv ==
  ASSUME Inv, CancelReaper \/ \E t \in Tasks : CancelledInGet(t)
  PROVE  Inv'
<1>1. CASE CancelReaper
  BY <1>1 DEF CancelReaper, Inv, Types, RegisteredIsCreated, RegisteredIsOpen, AwaitedIsShut,
              Shut, Created, Ready
<1>2. ASSUME NEW t \in Tasks, CancelledInGet(t) PROVE Inv'
  <2>1. /\ task' = [task EXCEPT ![t] = Ready]
        /\ UNCHANGED <<sessions, owner, life, stale, reaping>>
    BY <1>2 DEF CancelledInGet
  <2>2. Types' /\ RegisteredIsCreated' /\ RegisteredIsOpen'
    BY <2>1 DEF Inv, Types, RegisteredIsCreated, RegisteredIsOpen, Created, Ready
  <2>3. AwaitedIsShut'
    BY <2>1 DEF Inv, Types, AwaitedIsShut, Shut, Created, Ready
  <2> QED BY <2>2, <2>3 DEF Inv
<1> QED BY <1>1, <1>2

\* Closing all that is registered leaves nothing registered.
LEMMA StopSessionsInv ==
  ASSUME Inv, StopSessions
  PROVE  Inv'
<1> USE CreatedNumbers
<1>1. /\ life' = [o \in Created |-> IF o \in Registered THEN "closed" ELSE life[o]]
      /\ sessions' = [p \in Pubkeys |-> None]
      /\ UNCHANGED <<owner, task, stale, reaping>>
  BY DEF StopSessions
<1>2. life' \in Seq(States) /\ Len(life') = Len(owner)
  BY <1>1 DEF Inv, Types, States
<1>3. Types' /\ RegisteredIsCreated' /\ RegisteredIsOpen'
  BY <1>1, <1>2 DEF Inv, Types, RegisteredIsCreated, RegisteredIsOpen
<1>4. ASSUME NEW o, Shut(o) PROVE Shut(o)'
  BY <1>1, <1>4 DEF Shut, Created
<1>5. AwaitedIsShut'
  BY <1>1, <1>4 DEF Inv, AwaitedIsShut, Ready
<1> QED BY <1>3, <1>5 DEF Inv

LEMMA StepInv == Inv /\ [Next]_vars => Inv'
<1> SUFFICES ASSUME Inv, [Next]_vars PROVE Inv'
  OBVIOUS
<1>1. ASSUME UNCHANGED <<sessions, owner, life, task, stale, reaping>> PROVE Inv'
  BY <1>1 DEF Inv, Types, RegisteredIsCreated, RegisteredIsOpen, AwaitedIsShut,
              Shut, Created, Ready
<1>2. ASSUME NEW t \in Tasks, NEW p \in Pubkeys, Hit(t, p) PROVE Inv'
  BY <1>2, <1>1 DEF Hit
<1>3. ASSUME NEW t \in Tasks, NEW p \in Pubkeys, Open(t, p) PROVE Inv'
  BY <1>3, CreateStepInv, LivesAsTheyAre DEF Open
<1>4. ASSUME NEW t \in Tasks, NEW p \in Pubkeys, Evict(t, p) PROVE Inv'
  BY <1>4, EvictInv
<1>5. ASSUME NEW t \in Tasks, Resume(t) PROVE Inv'
  <2>1. task[t].pubkey \in Pubkeys /\ Shut(task[t].victim)
    BY <1>5 DEF Resume, Inv, AwaitedIsShut
  <2> QED BY <2>1, <1>5, CreateStepInv, LivesAfterClose DEF Resume
<1>6. ASSUME NEW o \in Objects, Expire(o) \/ LocalMessage(o) PROVE Inv'
  BY <1>6, <1>1 DEF Expire, LocalMessage
<1>7. CASE ReaperWakes \/ ReaperResumes
  BY <1>7, ReapInv
<1>8. CASE BeginStop \/ \E t \in Tasks : ReaderEnds(t)
  BY <1>8, <1>1 DEF BeginStop, ReaderEnds
<1>9. CASE UNCHANGED vars
  BY <1>9, <1>1 DEF vars
<1> QED BY <1>2, <1>3, <1>4, <1>5, <1>6, <1>7, <1>8, <1>9, CancelInv, StopSessionsInv DEF Next

\* Whatever eviction, the reaper and other tasks do while a get is suspended,
\* the session a request is handed to is open and its client's own.
THEOREM RegisteredIsOpenCorrect == Spec => []RegisteredIsOpen
<1>1. Inv => RegisteredIsOpen
  BY DEF Inv
<1> QED BY <1>1, InitInv, StepInv, PTL DEF Spec

----------------------------------------------------------------------------
LEMMA ImageFinite ==
  ASSUME NEW S, IsFiniteSet(S), NEW f
  PROVE  IsFiniteSet({f[x] : x \in S})
<1> DEFINE T == {f[x] : x \in S}
           g == [x \in S |-> f[x]]
<1>1. g \in Surjection(S, T)
  BY DEF Surjection
<1> QED BY <1>1, FS_Surjection

LEMMA AddOne ==
  ASSUME NEW S, IsFiniteSet(S), NEW x
  PROVE  /\ IsFiniteSet(S \cup {x})
         /\ Cardinality(S \cup {x}) <= Cardinality(S) + 1
<1>1. Cardinality(S) \in Nat
  BY FS_CardinalityType
<1>2. CASE x \in S
  BY <1>1, <1>2, FS_AddElement
<1>3. CASE x \notin S
  BY <1>1, <1>3, FS_AddElement
<1> QED BY <1>2, <1>3

LEMMA SizesFinite ==
  /\ IsFiniteSet(Registered) /\ Cardinality(Registered) \in Nat
  /\ IsFiniteSet(Suspended) /\ Cardinality(Suspended) \in Nat
  /\ Cardinality(Tasks) \in Nat /\ MaxSessions \in Nat
<1>1. IsFiniteSet({sessions[p] : p \in Pubkeys})
  BY ImageFinite, ManagerAssumption
<1>2. IsFiniteSet(Registered)
  BY <1>1, FS_Subset DEF Registered
<1>3. IsFiniteSet(Suspended)
  BY FS_Subset, ManagerAssumption DEF Suspended
<1> QED BY <1>2, <1>3, FS_CardinalityType, ManagerAssumption

\* Creating a session registers at most one object more.
LEMMA CreateSize ==
  ASSUME Inv, NEW p \in Pubkeys, NEW lives, Create(p, lives)
  PROVE  Cardinality(Registered') <= Cardinality(Registered) + 1
<1> DEFINE o == Len(owner) + 1
<1>1. Registered' \subseteq Registered \cup {o}
  BY DEF Create, Registered, Inv, Types
<1>2. IsFiniteSet(Registered \cup {o})
      /\ Cardinality(Registered \cup {o}) <= Cardinality(Registered) + 1
  BY SizesFinite, AddOne
<1>3. Cardinality(Registered') <= Cardinality(Registered \cup {o})
  BY <1>1, <1>2, FS_Subset
<1>4. Cardinality(Registered') \in Nat /\ Cardinality(Registered \cup {o}) \in Nat
  BY <1>1, <1>2, FS_Subset, FS_CardinalityType
<1> QED BY <1>2, <1>3, <1>4, SizesFinite

\* A task that is not suspended leaves room for the others.
LEMMA OthersSuspended ==
  ASSUME NEW t \in Tasks, task[t] = Ready
  PROVE  Cardinality(Suspended) <= Cardinality(Tasks) - 1
<1>1. Suspended \subseteq Tasks \ {t}
  BY DEF Suspended
<1>2. IsFiniteSet(Tasks \ {t}) /\ Cardinality(Tasks \ {t}) = Cardinality(Tasks) - 1
  BY FS_RemoveElement, ManagerAssumption
<1> QED BY <1>1, <1>2, FS_Subset

\* The bound is kept by a step after which fewer or as many are registered and
\* suspended.
LEMMA BoundKept ==
  ASSUME AdmissionBound,
         /\ Cardinality(Registered') \in Nat /\ Cardinality(Suspended') \in Nat
         /\ Cardinality(Registered') + Cardinality(Suspended')
              <= Cardinality(Registered) + Cardinality(Suspended)
  PROVE  AdmissionBound'
BY SizesFinite DEF AdmissionBound

LEMMA SizesFiniteNext ==
  /\ Cardinality(Registered') \in Nat /\ Cardinality(Suspended') \in Nat
<1>1. IsFiniteSet({sessions'[p] : p \in Pubkeys})
  BY ImageFinite, ManagerAssumption
<1>2. IsFiniteSet(Registered')
  BY <1>1, FS_Subset DEF Registered
<1>3. IsFiniteSet(Suspended')
  BY FS_Subset, ManagerAssumption DEF Suspended
<1> QED BY <1>2, <1>3, FS_CardinalityType

LEMMA InitBound == Init => AdmissionBound
<1> SUFFICES ASSUME Init PROVE AdmissionBound
  OBVIOUS
<1>1. Registered = {} /\ Suspended = {}
  BY DEF Init, Registered, Suspended
<1> QED BY <1>1, FS_EmptySet, SizesFinite, ManagerAssumption DEF AdmissionBound

LEMMA OpenBound ==
  ASSUME Inv, NEW t \in Tasks, NEW p \in Pubkeys, Open(t, p)
  PROVE  AdmissionBound'
<1>1. Suspended' = Suspended /\ Cardinality(Registered) < MaxSessions
  BY DEF Open, Suspended
<1>2. Cardinality(Registered') <= Cardinality(Registered) + 1
  BY CreateSize DEF Open
<1>3. Cardinality(Suspended) <= Cardinality(Tasks) - 1
  BY OthersSuspended DEF Open
<1> QED BY <1>1, <1>2, <1>3, SizesFinite, SizesFiniteNext DEF AdmissionBound

\* An eviction moves one from the registered to the suspended.
LEMMA EvictBound ==
  ASSUME Inv, AdmissionBound, NEW t \in Tasks, NEW p \in Pubkeys, Evict(t, p)
  PROVE  AdmissionBound'
<1>1. PICK victim \in Idlest :
        /\ task' = [task EXCEPT ![t] = [pubkey |-> p, victim |-> victim]]
        /\ sessions' = [sessions EXCEPT ![owner[victim]] = None]
  BY DEF Evict, Unregister
<1>2. PICK q \in Pubkeys : sessions[q] = victim /\ owner[victim] = q /\ victim # None
  BY <1>1 DEF Idlest, Registered, Inv, RegisteredIsOpen
<1>3. victim \in Registered /\ Registered' \subseteq Registered \ {victim}
  <2>1. ASSUME NEW r \in Pubkeys, sessions'[r] # None
        PROVE  sessions'[r] \in Registered \ {victim}
    BY <2>1, <1>1, <1>2 DEF Inv, Types, Registered, RegisteredIsOpen
  <2> QED BY <2>1, <1>1 DEF Idlest, Registered
<1>4. Cardinality(Registered \ {victim}) = Cardinality(Registered) - 1
      /\ IsFiniteSet(Registered \ {victim})
  BY <1>3, SizesFinite, FS_RemoveElement
<1>5. Cardinality(Registered') <= Cardinality(Registered) - 1
  BY <1>3, <1>4, FS_Subset
<1>6. Suspended' \subseteq Suspended \cup {t}
  BY <1>1 DEF Suspended, Inv, Types
<1>7. IsFiniteSet(Suspended \cup {t})
      /\ Cardinality(Suspended \cup {t}) <= Cardinality(Suspended) + 1
  BY SizesFinite, AddOne
<1>8. Cardinality(Suspended') <= Cardinality(Suspended) + 1
  <2>1. Cardinality(Suspended') <= Cardinality(Suspended \cup {t})
    BY <1>6, <1>7, FS_Subset
  <2> QED BY <2>1, <1>7, SizesFinite, SizesFiniteNext, FS_CardinalityType
<1> QED BY <1>5, <1>8, SizesFinite, SizesFiniteNext, BoundKept

\* A get that resumes turns one suspended into one registered.
LEMMA ResumeBound ==
  ASSUME Inv, AdmissionBound, NEW t \in Tasks, Resume(t)
  PROVE  AdmissionBound'
<1>1. task[t].pubkey \in Pubkeys /\ t \in Suspended
  BY DEF Resume, Inv, AwaitedIsShut, Suspended
<1>2. Cardinality(Registered') <= Cardinality(Registered) + 1
  BY <1>1, CreateSize DEF Resume
<1>3. Suspended' \subseteq Suspended \ {t}
  BY DEF Resume, Suspended, Inv, Types
<1>4. Cardinality(Suspended \ {t}) = Cardinality(Suspended) - 1
      /\ IsFiniteSet(Suspended \ {t})
  BY <1>1, SizesFinite, FS_RemoveElement
<1>5. Cardinality(Suspended') <= Cardinality(Suspended) - 1
  BY <1>3, <1>4, FS_Subset
<1> QED BY <1>2, <1>5, SizesFinite, SizesFiniteNext, BoundKept

\* The reaper only takes sessions away.
LEMMA ReapBound ==
  ASSUME Inv, AdmissionBound, ReaperWakes \/ ReaperResumes
  PROVE  AdmissionBound'
<1>1. Suspended' = Suspended
  BY DEF ReaperWakes, ReaperResumes, Suspended
<1>2. sessions' = sessions \/ \E p \in Pubkeys : sessions' = [sessions EXCEPT ![p] = None]
  BY DEF ReaperWakes, ReaperResumes, ReapOn, Unregister, Inv, Types
<1>3. Registered' \subseteq Registered
  BY <1>2 DEF Registered, Inv, Types
<1>4. Cardinality(Registered') <= Cardinality(Registered)
  BY <1>3, SizesFinite, FS_Subset
<1> QED BY <1>1, <1>4, SizesFinite, SizesFiniteNext, BoundKept

\* A stop takes suspended tasks and sessions away.
LEMMA StopBound ==
  ASSUME Inv, AdmissionBound, StopSessions \/ \E t \in Tasks : CancelledInGet(t)
  PROVE  AdmissionBound'
<1>1. Registered' \subseteq Registered /\ Suspended' \subseteq Suspended
  BY DEF StopSessions, CancelledInGet, Registered, Suspended, Inv, Types
<1>2. Cardinality(Registered') <= Cardinality(Registered)
  BY <1>1, SizesFinite, FS_Subset
<1>3. Cardinality(Suspended') <= Cardinality(Suspended)
  BY <1>1, SizesFinite, FS_Subset
<1> QED BY <1>2, <1>3, SizesFinite, SizesFiniteNext, BoundKept

LEMMA StepBound == Inv /\ AdmissionBound /\ [Next]_vars => AdmissionBound'
<1> SUFFICES ASSUME Inv, AdmissionBound, [Next]_vars PROVE AdmissionBound'
  OBVIOUS
<1>1. ASSUME UNCHANGED <<sessions, task>> PROVE AdmissionBound'
  BY <1>1 DEF AdmissionBound, Registered, Suspended
<1>2. ASSUME NEW t \in Tasks, NEW p \in Pubkeys, Hit(t, p) PROVE AdmissionBound'
  BY <1>2, <1>1 DEF Hit
<1>3. ASSUME NEW o \in Objects, Expire(o) \/ LocalMessage(o) PROVE AdmissionBound'
  BY <1>3, <1>1 DEF Expire, LocalMessage
<1>4. CASE BeginStop \/ CancelReaper \/ \E t \in Tasks : ReaderEnds(t)
  BY <1>4, <1>1 DEF BeginStop, CancelReaper, ReaderEnds
<1>5. CASE UNCHANGED vars
  BY <1>5, <1>1 DEF vars
<1> QED BY <1>2, <1>3, <1>4, <1>5, OpenBound, EvictBound, ResumeBound, ReapBound, StopBound
        DEF Next

\* max_sessions is exceeded by no more than one session for every relay beyond
\* the first, those counted that a suspended get is about to register.
THEOREM AdmissionBoundCorrect == Spec => []AdmissionBound
BY InitInv, InitBound, StepInv, StepBound, PTL DEF Spec

\* With a single rendez-vous relay max_sessions is a limit.
THEOREM OneRelayKeepsTheLimit ==
  ASSUME Cardinality(Tasks) = 1
  PROVE  Spec => [](Cardinality(Registered) <= MaxSessions)
<1>1. AdmissionBound => Cardinality(Registered) <= MaxSessions
  BY SizesFinite DEF AdmissionBound
<1> QED BY <1>1, AdmissionBoundCorrect, PTL

----------------------------------------------------------------------------
\* An open session drops out of the table in one way only, a get registering
\* another session over it after its suspension.
THEOREM LeaksOnlyByRace == Spec => LeakOnlyByRace
<1> DEFINE Kept(o) == \/ life'[o] # "open" \/ sessions'[owner[o]] = o
                      \/ \E t \in Tasks : task[t].pubkey = owner[o] /\ task'[t] = Ready
           Leak == \A o \in Created : life[o] = "open" /\ sessions[owner[o]] = o => Kept(o)
<1>1. Inv /\ [Next]_vars => [Leak]_vars
  <2> SUFFICES ASSUME Inv, Next, NEW o \in Created,
                      life[o] = "open", sessions[owner[o]] = o
               PROVE  Kept(o)
    BY DEF vars
  <2>1. o # None /\ owner[o] \in Pubkeys
    BY CreatedNumbers DEF Inv, Types, Created
  <2>2. ASSUME UNCHANGED sessions PROVE Kept(o)
    BY <2>2
  <2>3. ASSUME NEW t \in Tasks, NEW p \in Pubkeys, Hit(t, p) PROVE Kept(o)
    BY <2>3, <2>2 DEF Hit
  <2>4. ASSUME NEW t \in Tasks, NEW p \in Pubkeys, Open(t, p) PROVE Kept(o)
    BY <2>1, <2>4 DEF Open, Create, Inv, Types
  <2>5. ASSUME NEW p \in Pubkeys, NEW lives \in Seq(States), Len(lives) = Len(owner),
               sessions[p] # None, Unregister(p, lives)
        PROVE  Kept(o)
    <3>1. CASE p = owner[o]
      BY <2>1, <2>5, <3>1, CreatedNumbers DEF Unregister, Inv, Types
    <3>2. CASE p # owner[o]
      BY <2>1, <2>5, <3>2 DEF Unregister, Inv, Types
    <3> QED BY <3>1, <3>2
  <2>6. ASSUME NEW t \in Tasks, NEW p \in Pubkeys, Evict(t, p) PROVE Kept(o)
    <3>1. PICK victim \in Idlest : Unregister(owner[victim], life)
      BY <2>6 DEF Evict
    <3>2. owner[victim] \in Pubkeys /\ sessions[owner[victim]] # None
      BY <3>1 DEF Idlest, Registered, Inv, RegisteredIsOpen
    <3> HIDE DEF Kept
    <3> QED BY <3>1, <3>2, <2>5, LivesAsTheyAre
  <2>7. ASSUME NEW t \in Tasks, Resume(t) PROVE Kept(o)
    <3>1. task[t].pubkey \in Pubkeys /\ task'[t] = Ready
      BY <2>7 DEF Resume, Inv, Types, AwaitedIsShut
    <3>2. CASE task[t].pubkey = owner[o]
      BY <3>1, <3>2
    <3>3. CASE task[t].pubkey # owner[o]
      BY <3>1, <3>3, <2>1, <2>7 DEF Resume, Create, Inv, Types
    <3> QED BY <3>2, <3>3
  <2>8. ASSUME NEW c \in Objects, Expire(c) \/ LocalMessage(c) PROVE Kept(o)
    BY <2>8, <2>2 DEF Expire, LocalMessage
  <2>9. ASSUME NEW list \in SUBSET Pubkeys, NEW lives \in Seq(States),
               Len(lives) = Len(owner), ReapOn(list, lives)
        PROVE  Kept(o)
    <3> HIDE DEF Kept
    <3> QED BY <2>2, <2>5, <2>9 DEF ReapOn
  <2>10. CASE ReaperWakes
    <3>1. {p \in Pubkeys : sessions[p] \in expired \ subscribed} \in SUBSET Pubkeys
      OBVIOUS
    <3> HIDE DEF Kept
    <3> QED BY <3>1, <2>9, <2>10, LivesAsTheyAre DEF ReaperWakes
  <2>11. CASE ReaperResumes
    <3>1. stale \in SUBSET Pubkeys /\ Shut(reaping)
      BY <2>11 DEF ReaperResumes, Inv, Types, AwaitedIsShut
    <3> HIDE DEF Kept, Inv
    <3> QED BY <3>1, <2>9, <2>11, LivesAfterClose DEF ReaperResumes
  <2>12. CASE StopSessions
    BY <2>1, <2>12 DEF StopSessions, Registered
  <2>13. CASE \/ BeginStop \/ CancelReaper
              \/ \E t \in Tasks : ReaderEnds(t) \/ CancelledInGet(t)
    BY <2>13, <2>2 DEF BeginStop, CancelReaper, ReaderEnds, CancelledInGet
  <2> HIDE DEF Kept
  <2> QED BY <2>3, <2>4, <2>6, <2>7, <2>8, <2>10, <2>11, <2>12, <2>13 DEF Next
<1> QED BY <1>1, InitInv, StepInv, PTL DEF Spec, LeakOnlyByRace

----------------------------------------------------------------------------
\* Every open session is registered, or another was registered for its client
\* after it; once Bridge.stop has come to the sessions, no reader can register one.
Outlived(o) == \E q \in Created : q > o /\ owner[q] = owner[o]
OpenIsKnown == \A o \in Created : life[o] = "open" => sessions[owner[o]] = o \/ Outlived(o)

StopOrder == /\ ended \subseteq Tasks
             /\ \A t \in ended : task[t] = Ready
             /\ shutdown \in {"reaper", "sessions", "stopped"} => ended = Tasks
             /\ shutdown \in {"sessions", "stopped"} => stale = None
             /\ shutdown = "stopped" => \A p \in Pubkeys : sessions[p] = None

StopInv == Inv /\ OpenIsKnown /\ StopOrder

\* Lives that open nothing: what is open after the step was open before.
OpensNothing(lives) == \A q \in Created : lives[q] = "open" => life[q] = "open"

LEMMA ClosingOpensNothing ==
  ASSUME Inv, NEW o, Shut(o)
  PROVE  OpensNothing([life EXCEPT ![o] = "closed"])
BY CreatedNumbers DEF OpensNothing, Shut, Inv, Types

LEMMA CreateKnown ==
  ASSUME Inv, OpenIsKnown, NEW p \in Pubkeys, NEW lives \in Seq(States),
         Len(lives) = Len(owner), OpensNothing(lives), Create(p, lives)
  PROVE  OpenIsKnown'
<1> USE CreatedNumbers
<1> DEFINE o == Len(owner) + 1
<1>1. /\ o # None /\ o \notin Created /\ Created' = 1..o /\ Created' = Created \cup {o}
      /\ owner' = Append(owner, p) /\ life' = Append(lives, "open")
      /\ sessions' = [sessions EXCEPT ![p] = o]
  BY ManagerAssumption DEF Create, Inv, Types, Created, Objects
<1>2. owner'[o] = p
  BY <1>1 DEF Inv, Types
<1>3. ASSUME NEW q \in Created
      PROVE  owner'[q] = owner[q] /\ life'[q] = lives[q] /\ q < o
  BY <1>1 DEF Inv, Types
<1>4. ASSUME NEW q \in Created, Outlived(q) PROVE Outlived(q)'
  BY <1>1, <1>3, <1>4 DEF Outlived
<1>5. ASSUME NEW q \in Created', life'[q] = "open"
      PROVE  sessions'[owner'[q]] = q \/ Outlived(q)'
  <2>1. CASE q = o
    BY <2>1, <1>1, <1>2 DEF Inv, Types
  <2>2. CASE q \in Created /\ owner[q] = p
    BY <2>2, <1>1, <1>2, <1>3 DEF Outlived
  <2>3. CASE q \in Created /\ owner[q] # p
    <3>1. sessions[owner[q]] = q \/ Outlived(q)
      BY <2>3, <1>3, <1>5 DEF OpenIsKnown, OpensNothing
    <3>2. owner[q] \in Pubkeys
      BY <2>3 DEF Inv, Types
    <3> QED BY <3>1, <3>2, <2>3, <1>1, <1>3, <1>4 DEF Inv, Types
  <2> QED BY <2>1, <2>2, <2>3, <1>1
<1> QED BY <1>5 DEF OpenIsKnown

LEMMA UnregisterKnown ==
  ASSUME Inv, OpenIsKnown, NEW p \in Pubkeys, sessions[p] # None, NEW lives \in Seq(States),
         Len(lives) = Len(owner), OpensNothing(lives), Unregister(p, lives), UNCHANGED owner
  PROVE  OpenIsKnown'
<1> USE CreatedNumbers
<1>1. /\ sessions' = [sessions EXCEPT ![p] = None]
      /\ life' = [lives EXCEPT ![sessions[p]] = "closing"]
      /\ Created' = Created /\ sessions[p] \in Created
  BY DEF Unregister, Inv, RegisteredIsCreated, Created
<1>2. ASSUME NEW q \in Created, life'[q] = "open"
      PROVE  sessions'[owner[q]] = q \/ Outlived(q)
  <2>1. q # sessions[p] /\ lives[q] = "open" /\ owner[q] \in Pubkeys
    BY <1>1, <1>2 DEF Inv, Types
  <2>2. sessions[owner[q]] = q \/ Outlived(q)
    BY <2>1 DEF OpenIsKnown, OpensNothing
  <2>3. CASE sessions[owner[q]] = q
    BY <2>1, <2>3, <1>1 DEF Inv, Types
  <2> QED BY <2>2, <2>3
<1> QED BY <1>1, <1>2 DEF OpenIsKnown, Outlived

\* What is known stays known while no object is created, opened or unregistered.
LEMMA KnownStays ==
  ASSUME Inv, OpenIsKnown, UNCHANGED <<owner, sessions>>,
         \A q \in Created : life'[q] = "open" => life[q] = "open"
  PROVE  OpenIsKnown'
BY DEF OpenIsKnown, Outlived, Created

LEMMA ReapOnKnown ==
  ASSUME Inv, OpenIsKnown, NEW list \in SUBSET Pubkeys, NEW lives \in Seq(States),
         Len(lives) = Len(owner), OpensNothing(lives), ReapOn(list, lives), UNCHANGED owner
  PROVE  OpenIsKnown'
<1>1. CASE life' = lives /\ UNCHANGED sessions
  BY <1>1, KnownStays DEF OpensNothing
<1>2. ASSUME NEW p \in list, sessions[p] # None, Unregister(p, lives) PROVE OpenIsKnown'
  BY <1>2, UnregisterKnown
<1> QED BY <1>1, <1>2 DEF ReapOn

LEMMA StepKnown ==
  ASSUME Inv, OpenIsKnown, [Next]_vars
  PROVE  OpenIsKnown'
<1> USE LivesAsTheyAre
<1>1. OpensNothing(life)
  BY DEF OpensNothing
<1>2. ASSUME UNCHANGED <<owner, sessions, life>> PROVE OpenIsKnown'
  BY <1>2, KnownStays
<1>3. ASSUME NEW t \in Tasks, NEW p \in Pubkeys, Hit(t, p) PROVE OpenIsKnown'
  BY <1>3, <1>2 DEF Hit
<1>4. ASSUME NEW t \in Tasks, NEW p \in Pubkeys, Open(t, p) PROVE OpenIsKnown'
  BY <1>1, <1>4, CreateKnown DEF Open
<1>5. ASSUME NEW t \in Tasks, NEW p \in Pubkeys, Evict(t, p) PROVE OpenIsKnown'
  <2>1. PICK victim \in Idlest : Unregister(owner[victim], life) /\ UNCHANGED owner
    BY <1>5 DEF Evict
  <2>2. owner[victim] \in Pubkeys /\ sessions[owner[victim]] # None
    BY <2>1 DEF Idlest, Registered, Inv, RegisteredIsOpen
  <2> QED BY <2>1, <2>2, <1>1, UnregisterKnown
<1>6. ASSUME NEW t \in Tasks, Resume(t) PROVE OpenIsKnown'
  <2>1. task[t].pubkey \in Pubkeys /\ Shut(task[t].victim)
    BY <1>6 DEF Resume, Inv, AwaitedIsShut
  <2> QED BY <2>1, <1>6, CreateKnown, LivesAfterClose, ClosingOpensNothing DEF Resume
<1>7. CASE ReaperWakes
  <2>1. {p \in Pubkeys : sessions[p] \in expired \ subscribed} \in SUBSET Pubkeys
    OBVIOUS
  <2> QED BY <2>1, <1>1, <1>7, ReapOnKnown DEF ReaperWakes
<1>8. CASE ReaperResumes
  <2>1. stale \in SUBSET Pubkeys /\ Shut(reaping)
    BY <1>8 DEF ReaperResumes, Inv, Types, AwaitedIsShut
  <2> HIDE DEF Inv, OpenIsKnown
  <2> QED BY <2>1, <1>8, ReapOnKnown, LivesAfterClose, ClosingOpensNothing DEF ReaperResumes
<1>9. CASE StopSessions
  <2>1. /\ Created' = Created /\ UNCHANGED owner
        /\ \A o \in Created : life'[o] = "open" => life[o] = "open" /\ o \notin Registered
    BY <1>9 DEF StopSessions, Created
  <2>2. ASSUME NEW o \in Created, life'[o] = "open" PROVE Outlived(o)
    <3>1. owner[o] \in Pubkeys /\ o # None
      BY CreatedNumbers DEF Inv, Types, Created
    <3>2. sessions[owner[o]] # o
      BY <2>1, <2>2, <3>1 DEF Registered
    <3> QED BY <2>1, <2>2, <3>2 DEF OpenIsKnown
  <2> QED BY <2>1, <2>2 DEF OpenIsKnown, Outlived
<1>10. CASE \/ BeginStop \/ CancelReaper \/ UNCHANGED vars
            \/ \E t \in Tasks : ReaderEnds(t) \/ CancelledInGet(t)
            \/ \E o \in Objects : Expire(o) \/ LocalMessage(o)
  BY <1>10, <1>2 DEF BeginStop, CancelReaper, ReaderEnds, CancelledInGet, Expire,
                     LocalMessage, vars
<1> QED BY <1>3, <1>4, <1>5, <1>6, <1>7, <1>8, <1>9, <1>10 DEF Next

\* A table that has been cleared stays empty: its tasks have ended.
LEMMA StepOrder ==
  ASSUME Inv, StopOrder, [Next]_vars
  PROVE  StopOrder'
<1>1. ASSUME NEW t \in Tasks, NEW p \in Pubkeys, Hit(t, p) \/ Open(t, p) \/ Evict(t, p)
      PROVE  StopOrder'
  <2>1. t \in Tasks \ ended /\ UNCHANGED stopVars
    BY <1>1 DEF Hit, Open, Evict
  <2>2. \A u \in ended : task'[u] = task[u]
    BY <1>1, <2>1 DEF Hit, Open, Evict, StopOrder, Inv, Types
  <2>3. UNCHANGED stale
    BY <1>1 DEF Hit, Open, Evict
  <2> QED BY <2>1, <2>2, <2>3 DEF StopOrder, stopVars, Ready
<1>2. ASSUME NEW t \in Tasks, Resume(t) PROVE StopOrder'
  <2>1. /\ t \notin ended /\ UNCHANGED <<stale, stopVars>>
        /\ task' = [task EXCEPT ![t] = Ready]
    BY <1>2 DEF Resume, StopOrder
  <2> QED BY <2>1 DEF StopOrder, stopVars, Ready, Inv, Types
<1>3. ASSUME NEW t \in Tasks, ReaderEnds(t) \/ CancelledInGet(t) PROVE StopOrder'
  BY <1>3 DEF ReaderEnds, CancelledInGet, StopOrder, Ready, Inv, Types
<1>4. CASE ReaperWakes \/ ReaperResumes
  BY <1>4 DEF ReaperWakes, ReaperResumes, ReaperRuns, StopOrder, stopVars, Ready
<1>5. CASE BeginStop \/ CancelReaper \/ StopSessions
  BY <1>5 DEF BeginStop, CancelReaper, StopSessions, StopOrder, Ready
<1>6. CASE UNCHANGED vars \/ \E o \in Objects : Expire(o) \/ LocalMessage(o)
  BY <1>6 DEF vars, Expire, LocalMessage, StopOrder, stopVars, Ready
<1> QED BY <1>1, <1>2, <1>3, <1>4, <1>5, <1>6 DEF Next

\* After stop only those sessions are open that the race had left behind.
THEOREM StopClosesAllCorrect == Spec => []StopClosesAll
<1>1. Init => StopInv
  BY InitInv DEF Init, StopInv, OpenIsKnown, StopOrder, Created, Ready
<1>2. StopInv /\ [Next]_vars => StopInv'
  BY StepInv, StepKnown, StepOrder DEF StopInv
<1>3. StopInv => StopClosesAll
  <2> SUFFICES ASSUME StopInv, shutdown = "stopped", NEW o \in Created, life[o] = "open"
               PROVE  Outlived(o)
    BY DEF StopClosesAll, Outlived
  <2>1. owner[o] \in Pubkeys /\ o # None
    BY CreatedNumbers DEF StopInv, Inv, Types, Created
  <2> QED BY <2>1 DEF StopInv, StopOrder, OpenIsKnown
<1> QED BY <1>1, <1>2, <1>3, PTL DEF Spec

----------------------------------------------------------------------------
\* The order of activity: it lists every registered session, so that there is
\* an idlest one whenever there is any.
Listed(s, o) == \E i \in 1..Len(s) : s[i] = o
RegisteredIsListed == \A p \in Pubkeys : sessions[p] # None => Listed(activity, sessions[p])

LEMMA SeqGrows ==
  ASSUME NEW S, NEW T, S \subseteq T, NEW q \in Seq(S)
  PROVE  q \in Seq(T)
BY SeqDef

LEMMA WithoutKeeps ==
  ASSUME NEW S, NEW s \in Seq(S), NEW o
  PROVE  /\ Without(s, o) \in Seq(S)
         /\ \A x : x # o /\ Listed(s, x) => Listed(Without(s, o), x)
<1> DEFINE at == {i \in 1..Len(s) : s[i] = o}
<1>1. CASE at = {}
  BY <1>1 DEF Without
<1>2. CASE at # {}
  <2>1. PICK k \in 1..Len(s) : s[k] = o /\ Without(s, o) = SubSeq(s, 1, k - 1) \o SubSeq(s, k + 1, Len(s))
    <3> DEFINE k == CHOOSE i \in at : TRUE
    <3>1. k \in at
      BY <1>2
    <3> HIDE DEF k
    <3>2. Without(s, o) = SubSeq(s, 1, k - 1) \o SubSeq(s, k + 1, Len(s))
      BY <1>2 DEF Without, k
    <3> QED BY <3>1, <3>2
  <2>2. PICK u : u = SubSeq(s, 1, k - 1)
    OBVIOUS
  <2>3. PICK v : v = SubSeq(s, k + 1, Len(s))
    OBVIOUS
  <2>4. Len(s) \in Nat /\ k \in Nat /\ k >= 1 /\ k <= Len(s)
    BY <2>1
  <2>5. u \in Seq(S) /\ Len(u) = k - 1 /\ \A i \in 1..(k - 1) : u[i] = s[i]
    BY <2>2, <2>4, SubSeqProperties
  <2>6. v \in Seq(S) /\ Len(v) = Len(s) - k /\ \A i \in 1..(Len(s) - k) : v[i] = s[k + i]
    BY <2>3, <2>4, SubSeqProperties
  <2>7. PICK r : r = Without(s, o)
    OBVIOUS
  <2>8. r = u \o v
    BY <2>1, <2>2, <2>3, <2>7
  <2>9. /\ r \in Seq(S) /\ Len(r) = Len(s) - 1
        /\ \A i \in 1..(Len(s) - 1) : r[i] = IF i <= k - 1 THEN u[i] ELSE v[i - (k - 1)]
    <3>1. /\ u \o v \in Seq(S) /\ Len(u \o v) = Len(u) + Len(v)
          /\ \A i \in 1..(Len(u) + Len(v)) :
               (u \o v)[i] = IF i <= Len(u) THEN u[i] ELSE v[i - Len(u)]
      BY <2>5, <2>6, ConcatProperties, Zenon
    <3>2. Len(u) + Len(v) = Len(s) - 1
      BY <2>4, <2>5, <2>6
    <3> QED BY <2>5, <2>6, <2>8, <3>1, <3>2
  <2>10. ASSUME NEW x, x # o, NEW i \in 1..Len(s), s[i] = x PROVE Listed(r, x)
    <3>1. CASE i < k
      <4>1. i \in 1..(Len(s) - 1) /\ i <= k - 1 /\ i \in 1..(k - 1)
        BY <3>1, <2>4
      <4>2. r[i] = x /\ i \in 1..Len(r)
        BY <4>1, <2>5, <2>9, <2>10
      <4> QED BY <4>2 DEF Listed
    <3>2. CASE i > k
      <4>1. /\ i - 1 \in 1..(Len(s) - 1) /\ ~ (i - 1 <= k - 1)
            /\ i - k \in 1..(Len(s) - k) /\ (i - 1) - (k - 1) = i - k /\ k + (i - k) = i
        BY <3>2, <2>4
      <4>2. r[i - 1] = x /\ i - 1 \in 1..Len(r)
        BY <4>1, <2>6, <2>9, <2>10
      <4> QED BY <4>2 DEF Listed
    <3>3. i # k
      BY <2>1, <2>10
    <3> QED BY <3>1, <3>2, <3>3, <2>4
  <2>11. \A x : x # o /\ Listed(s, x) => Listed(r, x)
    BY <2>10 DEF Listed
  <2> QED BY <2>7, <2>9, <2>11
<1> QED BY <1>1, <1>2

LEMMA AppendLists ==
  ASSUME NEW S, NEW s \in Seq(S), NEW o \in S
  PROVE  /\ Append(s, o) \in Seq(S) /\ Listed(Append(s, o), o)
         /\ \A x : Listed(s, x) => Listed(Append(s, o), x)
<1> PICK r : r = Append(s, o)
  OBVIOUS
<1>1. /\ r \in Seq(S) /\ Len(r) = Len(s) + 1 /\ r[Len(s) + 1] = o
      /\ Len(s) \in Nat /\ \A i \in 1..Len(s) : r[i] = s[i]
  OBVIOUS
<1>2. Len(s) + 1 \in 1..Len(r) /\ \A i \in 1..Len(s) : i \in 1..Len(r)
  BY <1>1
<1> QED BY <1>1, <1>2 DEF Listed

\* The two ways the order changes.
LEMMA TouchLists ==
  ASSUME NEW S, activity \in Seq(S), NEW o \in S, Touch(o)
  PROVE  /\ activity' \in Seq(S) /\ Listed(activity', o)
         /\ \A x : Listed(activity, x) => Listed(activity', x)
<1> PICK w : w = Without(activity, o)
  OBVIOUS
<1>1. w \in Seq(S) /\ \A x : x # o /\ Listed(activity, x) => Listed(w, x)
  BY WithoutKeeps, Zenon
<1>2. activity' = Append(w, o)
  BY DEF Touch
<1>3. /\ Append(w, o) \in Seq(S) /\ Listed(Append(w, o), o)
      /\ \A x : Listed(w, x) => Listed(Append(w, o), x)
  BY <1>1, AppendLists, Zenon
<1> QED BY <1>1, <1>2, <1>3, Zenon

LEMMA UnregisterLists ==
  ASSUME Inv, NEW S, activity \in Seq(S), RegisteredIsListed,
         NEW p \in Pubkeys, NEW lives, sessions[p] # None, Unregister(p, lives)
  PROVE  activity' \in Seq(S) /\ RegisteredIsListed'
<1> PICK o : o = sessions[p]
  OBVIOUS
<1>1. activity' = Without(activity, o)
  BY DEF Unregister
<1>2. activity' \in Seq(S) /\ \A x : x # o /\ Listed(activity, x) => Listed(activity', x)
  BY <1>1, WithoutKeeps, Zenon
<1>3. sessions' = [sessions EXCEPT ![p] = None] /\ sessions \in [Pubkeys -> Objects \cup {None}]
  BY DEF Unregister, Inv, Types
<1>4. ASSUME NEW q \in Pubkeys, sessions'[q] # None PROVE Listed(activity', sessions'[q])
  <2>1. q # p /\ sessions'[q] = sessions[q] /\ sessions[q] # None
    BY <1>3, <1>4
  <2>2. sessions[q] # o
    BY <2>1 DEF Inv, RegisteredIsOpen
  <2>3. Listed(activity, sessions[q])
    BY <2>1 DEF RegisteredIsListed
  <2> QED BY <2>1, <2>2, <2>3, <1>2
<1> QED BY <1>2, <1>4 DEF RegisteredIsListed

Marks == /\ expired \subseteq Created /\ subscribed \subseteq Created
         /\ reaping \in Objects \cup {None}
         /\ shutdown \in {"none", "readers", "reaper", "sessions", "stopped"}

\* The order of activity and what is noted of the objects.
Order == activity \in Seq(Created) /\ RegisteredIsListed /\ Marks

LEMMA ServeOrder ==
  ASSUME Order, NEW o, Created \cup {o} \subseteq Created', Created' \subseteq Created \cup {o},
         Touch(o), subscribed' \subseteq subscribed \cup {o},
         \A p \in Pubkeys : sessions'[p] # None => sessions'[p] = o \/ sessions'[p] = sessions[p],
         UNCHANGED <<reaping, shutdown>>
  PROVE  Order'
<1> PICK S : S = Created'
  OBVIOUS
<1>1. Created \subseteq S /\ o \in S
  OBVIOUS
<1>2. activity \in Seq(Created)
  BY DEF Order
<1>3. activity \in Seq(S)
  BY <1>1, <1>2, SeqGrows, Zenon
<1>4. /\ activity' \in Seq(S) /\ Listed(activity', o)
      /\ \A x : Listed(activity, x) => Listed(activity', x)
  BY <1>1, <1>3, TouchLists, Zenon
<1>5. RegisteredIsListed'
  BY <1>4 DEF Order, RegisteredIsListed
<1>6. Marks'
  BY DEF Order, Marks, Touch
<1> QED BY <1>4, <1>5, <1>6 DEF Order

LEMMA CreateOrder ==
  ASSUME Inv, Order, NEW p \in Pubkeys, NEW lives, Create(p, lives), UNCHANGED <<reaping, shutdown>>
  PROVE  Order'
<1> USE CreatedNumbers
<1> PICK o : o = Len(owner) + 1
  OBVIOUS
<1>1. /\ owner' = Append(owner, p) /\ sessions' = [sessions EXCEPT ![p] = o]
      /\ Touch(o) /\ subscribed' \subseteq subscribed \cup {o}
  BY DEF Create, Serve
<1>2. Created' = 1..o /\ Created = 1..Len(owner)
  BY <1>1 DEF Inv, Types, Created
<1>3. Created \cup {o} \subseteq Created' /\ Created' \subseteq Created \cup {o}
  BY <1>2
<1>4. \A q \in Pubkeys : sessions'[q] # None => sessions'[q] = o \/ sessions'[q] = sessions[q]
  BY <1>1 DEF Inv, Types
<1> QED BY <1>1, <1>3, <1>4, ServeOrder, Zenon

LEMMA UnregisterOrder ==
  ASSUME Inv, Order, NEW p \in Pubkeys, NEW lives, sessions[p] # None, Unregister(p, lives),
         UNCHANGED <<owner, subscribed, shutdown>>, reaping' \in Objects \cup {None}
  PROVE  Order'
<1>1. activity \in Seq(Created) /\ RegisteredIsListed /\ Created' = Created
  BY DEF Order, Created
<1>2. activity' \in Seq(Created) /\ RegisteredIsListed'
  BY <1>1, UnregisterLists, Zenon
<1>3. Marks'
  BY <1>1 DEF Order, Marks, Unregister
<1> QED BY <1>1, <1>2, <1>3 DEF Order

LEMMA ReapOnOrder ==
  ASSUME Inv, Order, NEW list \in SUBSET Pubkeys, NEW lives, ReapOn(list, lives),
         UNCHANGED <<owner, subscribed, shutdown>>
  PROVE  Order'
<1>1. CASE reaping' = None /\ UNCHANGED <<sessions, activity, expired>>
  BY <1>1 DEF Order, Marks, RegisteredIsListed, Created
<1>2. ASSUME NEW p \in list, sessions[p] # None, Unregister(p, lives), reaping' = sessions[p]
      PROVE  Order'
  <2>1. reaping' \in Objects \cup {None}
    BY <1>2 DEF Inv, Types
  <2> QED BY <1>2, <2>1, UnregisterOrder
<1> QED BY <1>1, <1>2 DEF ReapOn

LEMMA InitOrder == Init => Order
<1> SUFFICES ASSUME Init PROVE Order
  OBVIOUS
<1>1. activity \in Seq(Created)
  BY EmptySeq DEF Init
<1>2. RegisteredIsListed /\ Marks
  BY DEF Init, RegisteredIsListed, Marks
<1> QED BY <1>1, <1>2 DEF Order

LEMMA StepOrdered ==
  ASSUME Inv, Inv', Order, [Next]_vars
  PROVE  Order'
<1>1. ASSUME UNCHANGED <<sessions, owner, activity, subscribed, reaping>>,
             expired' \subseteq expired \cup Registered,
             shutdown' \in {"none", "readers", "reaper", "sessions", "stopped"}
      PROVE  Order'
  <2>1. Registered \subseteq Created
    BY DEF Inv, RegisteredIsCreated, Registered
  <2> QED BY <1>1, <2>1 DEF Order, Marks, RegisteredIsListed, Created
<1>2. ASSUME NEW o \in Registered, Touch(o), subscribed' \subseteq subscribed \cup {o},
             UNCHANGED <<sessions, owner, reaping, shutdown>>
      PROVE  Order'
  <2>1. o \in Created /\ Created' = Created
    BY <1>2 DEF Inv, RegisteredIsCreated, Registered, Created
  <2>2. Created \cup {o} \subseteq Created' /\ Created' \subseteq Created \cup {o}
    BY <2>1
  <2> QED BY <1>2, <2>2, ServeOrder
<1>3. ASSUME NEW t \in Tasks, NEW p \in Pubkeys, Hit(t, p) PROVE Order'
  <2> PICK o : o = sessions[p]
    OBVIOUS
  <2>1. o \in Registered /\ Touch(o) /\ subscribed' \subseteq subscribed \cup {o}
    BY <1>3 DEF Hit, Registered, Serve
  <2>2. UNCHANGED <<sessions, owner, reaping, shutdown>>
    BY <1>3 DEF Hit, stopVars
  <2> QED BY <1>2, <2>1, <2>2
<1>4. ASSUME NEW t \in Tasks, NEW p \in Pubkeys, Open(t, p) PROVE Order'
  BY <1>4, CreateOrder DEF Open, stopVars
<1>5. ASSUME NEW t \in Tasks, NEW p \in Pubkeys, Evict(t, p) PROVE Order'
  <2>1. PICK victim \in Idlest : Unregister(owner[victim], life)
    BY <1>5 DEF Evict
  <2>2. owner[victim] \in Pubkeys /\ sessions[owner[victim]] # None
    BY <2>1 DEF Idlest, Registered, Inv, RegisteredIsOpen
  <2>3. reaping \in Objects \cup {None} /\ UNCHANGED <<owner, subscribed, reaping, shutdown>>
    BY <1>5 DEF Order, Marks, Evict, stopVars
  <2> QED BY <2>1, <2>2, <2>3, UnregisterOrder
<1>6. ASSUME NEW t \in Tasks, Resume(t) PROVE Order'
  <2>1. task[t].pubkey \in Pubkeys
    BY <1>6 DEF Resume, Inv, AwaitedIsShut
  <2> QED BY <1>6, <2>1, CreateOrder DEF Resume, stopVars
<1>7. ASSUME NEW o \in Objects, Expire(o) PROVE Order'
  BY <1>1, <1>7 DEF Expire, stopVars, Order, Marks
<1>8. ASSUME NEW o \in Objects, LocalMessage(o) PROVE Order'
  BY <1>2, <1>8 DEF LocalMessage, stopVars
<1>9. CASE ReaperWakes
  <2>1. {p \in Pubkeys : sessions[p] \in expired \ subscribed} \in SUBSET Pubkeys
    OBVIOUS
  <2> QED BY <1>9, <2>1, ReapOnOrder DEF ReaperWakes, stopVars
<1>10. CASE ReaperResumes
  <2>1. stale \in SUBSET Pubkeys
    BY <1>10 DEF ReaperResumes, Inv, Types
  <2> QED BY <1>10, <2>1, ReapOnOrder DEF ReaperResumes, stopVars
<1>11. CASE CancelReaper
  BY <1>11 DEF CancelReaper, Order, Marks, RegisteredIsListed, Created
<1>12. CASE StopSessions
  BY <1>12 DEF StopSessions, Order, Marks, RegisteredIsListed, Created
<1>13. CASE BeginStop \/ \E t \in Tasks : ReaderEnds(t) \/ CancelledInGet(t)
  BY <1>1, <1>13 DEF BeginStop, ReaderEnds, CancelledInGet, Order, Marks
<1>14. CASE UNCHANGED vars
  BY <1>1, <1>14 DEF vars, stopVars, Order, Marks
<1> QED BY <1>3, <1>4, <1>5, <1>6, <1>7, <1>8, <1>9, <1>10, <1>11, <1>12, <1>13, <1>14 DEF Next

\* The manager's tables hold what they should.
THEOREM ManagerTypeCorrect == Spec => []TypeOK
<1>1. Init => Inv /\ Order /\ StopOrder
  BY InitInv, InitOrder DEF Init, StopOrder, Ready
<1>2. Inv /\ Order /\ StopOrder /\ [Next]_vars => (Inv /\ Order /\ StopOrder)'
  BY StepInv, StepOrdered, StepOrder
<1>3. Inv /\ Order /\ StopOrder => TypeOK
  <2> SUFFICES ASSUME Inv, Order, StopOrder PROVE TypeOK
    OBVIOUS
  <2>1. life \in [Created -> {"open", "closing", "closed"}]
    BY CreatedNumbers DEF Inv, Types, States
  <2> QED BY <2>1 DEF Inv, Types, Order, Marks, StopOrder, TypeOK
<1> QED BY <1>1, <1>2, <1>3, PTL DEF Spec

\* The least of some numbers.
LEMMA Least ==
  ASSUME NEW T \in SUBSET Nat, T # {}
  PROVE  \E x \in T : \A y \in T : x <= y
<1> DEFINE R == {ss \in Nat \X Nat : ss[1] < ss[2]}
<1>1. OpToRel(<, Nat) = R
  BY DEF OpToRel
<1> HIDE DEF R
<1>2. IsWellFoundedOn(R, Nat)
  BY <1>1, NatLessThanWellFounded, Zenon
<1>3. PICK x \in T : \A y \in T : <<y, x>> \notin R
  BY <1>2, WFMin, Zenon
<1>4. ASSUME NEW y \in T, y < x PROVE <<y, x>> \in R
  BY <1>4 DEF R
<1>5. \A y \in T : ~ (y < x)
  BY <1>3, <1>4
<1> QED BY <1>5

\* A get that finds no session can always go on: there is room for a new
\* session, or a session to evict, min() in _evict_idlest having something to
\* choose from.
GetGoesOn == Cardinality(Registered) >= MaxSessions => Idlest # {}

THEOREM GetGoesOnCorrect == Spec => []GetGoesOn
<1>1. Init => Inv /\ Order
  BY InitInv, InitOrder
<1>2. Inv /\ Order /\ [Next]_vars => (Inv /\ Order)'
  BY StepInv, StepOrdered
<1>3. Inv /\ Order => GetGoesOn
  <2> SUFFICES ASSUME Inv, Order, Cardinality(Registered) >= MaxSessions PROVE Idlest # {}
    BY DEF GetGoesOn
  <2>1. Registered # {}
    BY FS_EmptySet, ManagerAssumption
  <2>2. PICK p \in Pubkeys : sessions[p] # None
    BY <2>1 DEF Registered
  <2> DEFINE T == {i \in 1..Len(activity) : activity[i] \in Registered}
  <2>3. T # {}
    BY <2>2 DEF Order, RegisteredIsListed, Listed, Registered
  <2>4. T \in SUBSET Nat
    OBVIOUS
  <2> HIDE DEF T
  <2>5. PICK i \in T : \A j \in T : i <= j
    BY <2>3, <2>4, Least
  <2>6. i \in 1..Len(activity) /\ activity[i] \in Registered
    BY <2>5 DEF T
  <2>7. Len(activity) \in Nat
    BY DEF Order
  <2>8. ASSUME NEW j \in 1..(i - 1) PROVE activity[j] \notin Registered
    BY <2>5, <2>6, <2>7, <2>8 DEF T
  <2>9. activity[i] \in Idlest
    BY <2>6, <2>8 DEF Idlest
  <2> QED BY <2>9
<1> QED BY <1>1, <1>2, <1>3, PTL DEF Spec
============================================================================
