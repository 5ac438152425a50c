---------------------------- MODULE MockServices ----------------------------
(***************************************************************************)
(* The registry of mock factories that all tests of a binary share, and    *)
(* the services it puts into a test context.  A factory runs with the read *)
(* lock of the registry held, and may call the registry itself.            *)
(*                                                                         *)
(* The lock is Go's RWMutex: read locks are not taken while a writer waits *)
(* for the ones that are held.  RegisterService takes the mutex of the     *)
(* context for an assignment only, which is one step here.                 *)
(***************************************************************************)
EXTENDS Naturals, Sequences, FiniteSets

CONSTANTS
  Routines,  \* goroutines using the registry
  Ids,       \* service IDs
  NoId,      \* no service ID
  Creates,   \* the mock that the factory of an ID creates in its turn, or NoId
  Rewrites   \* the IDs whose factory registers a factory

ASSUME MockServicesAssumption ==
  /\ IsFiniteSet(Ids)
  /\ NoId \notin Ids
  /\ Creates \in [Ids -> Ids \cup {NoId}]
  /\ Rewrites \subseteq Ids

VARIABLES
  factories,  \* the IDs with a factory
  readers,    \* read locks each routine holds
  waiting,    \* the writer that waits for the lock
  services,   \* the services of the context
  todo        \* what is left of the call each routine is in

registryVars == <<factories, readers, waiting, services, todo>>

RegistryInit ==
  /\ factories \in {{}, Ids}
  /\ readers = [r \in Routines |-> 0]
  /\ waiting = {}
  /\ services = {}
  /\ todo = [r \in Routines |-> <<>>]

Step(do, id) == [do |-> do, id |-> id]
RLock == Step("rlock", NoId)
RUnlock == Step("runlock", NoId)
Fatalf == Step("fatal", NoId)

(* The calls, step by step.                                                *)
RegisterMockFactory(id) == <<Step("lock", id), Step("write", id)>>
CreateMock(id) == <<RLock, Step("make", id), RUnlock>>
SetupMock(id) == CreateMock(id) \o <<Step("put", id)>>
SetupUnconfigurable(id) == CreateMock(id) \o <<Fatalf>>  \* no Mock() to configure
SetupRegisteredMocks == <<RLock, Step("each", NoId), RUnlock>>
RegistryCalls ==
  {RegisterMockFactory(id) : id \in Ids} \cup {SetupMock(id) : id \in Ids}
    \cup {SetupUnconfigurable(id) : id \in Ids} \cup {SetupRegisteredMocks}

------------------------------------------------------------------------------
Now(r, do) == todo[r] # <<>> /\ Head(todo[r]).do = do
Goes(r, steps) == todo' = [todo EXCEPT ![r] = steps \o Tail(@)]

TakeReadLock(r) ==
  /\ Now(r, "rlock") /\ waiting = {}
  /\ readers' = [readers EXCEPT ![r] = @ + 1]
  /\ Goes(r, <<>>)
  /\ UNCHANGED <<factories, waiting, services>>

ReleaseReadLock(r) ==
  /\ Now(r, "runlock")
  /\ readers' = [readers EXCEPT ![r] = @ - 1]
  /\ Goes(r, <<>>)
  /\ UNCHANGED <<factories, waiting, services>>

(* The factory of an ID.  It goes on when CreateMock gives it no mock.      *)
Factory(id) ==
  (IF Creates[id] # NoId THEN <<RLock, Step("nested", Creates[id]), RUnlock>> ELSE <<>>)
    \o (IF id \in Rewrites THEN RegisterMockFactory(id) ELSE <<>>)

NotFoundLocked == <<Fatalf>>  \* a bug: an early return without the unlock

(* CreateMock says there is no factory, and SetupMock ends the goroutine:  *)
(* what was left of the call, and of those around it, is not done.         *)
NotFound == <<RUnlock, Fatalf>>

Make(r) ==
  LET id == Head(todo[r]).id IN
  /\ Now(r, "make")
  /\ IF id \in factories THEN Goes(r, Factory(id))
     ELSE todo' = [todo EXCEPT ![r] = NotFound]
  /\ UNCHANGED <<factories, readers, waiting, services>>

MakeNested(r) ==
  LET id == Head(todo[r]).id IN
  /\ Now(r, "nested")
  /\ Goes(r, IF id \in factories THEN Factory(id) ELSE <<>>)
  /\ UNCHANGED <<factories, readers, waiting, services>>

(* The iteration over the factories that there are when it starts.         *)
MakeEach(r) ==
  /\ Now(r, "each")
  /\ \E order \in {s \in [1 .. Cardinality(factories) -> factories] :
                     \A id \in factories : \E n \in DOMAIN s : s[n] = id} :
       Goes(r, [n \in 1 .. 2 * Len(order) |->
                  Step(IF n % 2 = 1 THEN "make" ELSE "put", order[(n + 1) \div 2])])
  /\ UNCHANGED <<factories, readers, waiting, services>>

RegisterService(r) ==
  /\ Now(r, "put")
  /\ services' = services \cup {Head(todo[r]).id}
  /\ Goes(r, <<>>)
  /\ UNCHANGED <<factories, readers, waiting>>

AwaitLock(r) ==
  /\ Now(r, "lock") /\ waiting = {}
  /\ waiting' = {r}
  /\ Goes(r, <<>>)
  /\ UNCHANGED <<factories, readers, services>>

Unread == \A r \in Routines : readers[r] = 0

WriteFactory(r) ==
  /\ Now(r, "write") /\ Unread
  /\ factories' = factories \cup {Head(todo[r]).id}
  /\ waiting' = {}
  /\ Goes(r, <<>>)
  /\ UNCHANGED <<readers, services>>

RegistrySteps(r) ==
  \/ TakeReadLock(r) \/ ReleaseReadLock(r) \/ Make(r) \/ MakeNested(r)
  \/ MakeEach(r) \/ RegisterService(r) \/ AwaitLock(r) \/ WriteFactory(r)

------------------------------------------------------------------------------
Blocked(r) ==
  \/ Now(r, "rlock") /\ waiting # {}
  \/ Now(r, "lock") /\ waiting # {}
  \/ Now(r, "write") /\ ~Unread

InACall == {r \in Routines : todo[r] # <<>>}

(* Calls of the registry wait for each other for ever only where a factory *)
(* calls the registry, which it does with the read lock held: without such *)
(* a factory there is always one that goes on, whatever became of earlier  *)
(* calls.                                                                  *)
OnlyNestedFactoriesBlock ==
  (InACall # {} /\ \A r \in InACall : Blocked(r)) => \E r \in InACall : readers[r] > 0
=============================================================================
