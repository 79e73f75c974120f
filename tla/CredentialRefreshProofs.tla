----------------------- MODULE CredentialRefreshProofs -----------------------
(***************************************************************************)
(* For any number of requests and processes: the budget of sends, and, as  *)
(* long as no access token is near its expiry, that recoveries take turns. *)
(***************************************************************************)
EXTENDS CredentialRefresh, TLAPS

Labels == {"resolve", "permit", "guard", "refresh", "exchange", "persist", "adopt",
           "send", "flock", "recover", "over"}
Refreshing == {"permit", "refresh", "exchange", "persist", "adopt"}

(* The types that the arguments need.                                      *)
TypeInv ==
  /\ owner \in [Requests -> Processes]
  /\ pc \in [Requests -> Labels]
  /\ token \in [Requests -> Nat]
  /\ transient \in [Requests -> Nat]
  /\ sends \in [Requests -> Nat]
  /\ step \in [Requests -> {"reload", "refresh", "done"}]
  /\ mode \in [Requests -> {"proactive", "recovery"}]
  /\ presented \in [Requests -> Nat]
  /\ result \in [Requests -> {None, "answered", "401", "5xx", "error", "auth", "dropped"}]
  /\ cached \in [Processes -> Nat]
  /\ stored \in Nat /\ live \in Nat
-----------------------------------------------------------------------------
(* What the recovery has used up, and whether its next step is paid for.   *)
Weight(s) == IF s = "reload" THEN 0 ELSE IF s = "refresh" THEN 1 ELSE 2
Recovering(r) ==
  pc[r] \in {"flock", "recover"} \/ (pc[r] \in Refreshing /\ mode[r] = "recovery")

(* Every send but the last is accounted for by an attempt of the budget or *)
(* by a step of the recovery, of which there are two.                      *)
Budget(r) ==
  /\ transient[r] < MaxPrestreamAttempts
  /\ sends[r] <= MaxPrestreamAttempts + 2
  /\ pc[r] # "over" =>
       sends[r] <= transient[r] + Weight(step[r]) + (IF Recovering(r) THEN 1 ELSE 0)
  /\ Recovering(r) => step[r] # "done"
  /\ pc[r] \in Refreshing /\ mode[r] = "recovery" => step[r] = "refresh"
  /\ pc[r] = "guard" => mode[r] = "proactive"

BudgetInv == TypeInv /\ \A r \in Requests : Budget(r)

(* Everything a request can do, or be made to do.                          *)
Act(r) == Step(r) \/ Exchange(r) \/ Drop(r)

(* A step of one request leaves the others alone.                          *)
LEMMA OthersUnchanged ==
  ASSUME TypeInv, NEW r \in Requests, Act(r)
  PROVE  \A q \in Requests \ {r} :
           /\ pc'[q] = pc[q] /\ sends'[q] = sends[q] /\ transient'[q] = transient[q]
           /\ step'[q] = step[q] /\ mode'[q] = mode[q] /\ presented'[q] = presented[q]
           /\ token'[q] = token[q] /\ result'[q] = result[q]
<1>1. CASE Step(r)
  BY <1>1 DEF TypeInv, Step, Owed, NotAuthenticated, UseCached, RefreshProactively, AcquirePermit,
     GuardedReload, GuardedReloadFails, KnownFailure, NothingToRefresh, Present, Persist,
     PersistFails, Adopt, Adopted, Answered, Retry, SendFails, Unauthorized, AcquireFlock,
     AcquireFlockFails, RecoveryOver, Reload, ReloadSkipped, RefreshNext,
     Finish, Goto, Resolved, RefreshFails, Sent, request
<1>2. CASE Exchange(r) \/ Drop(r)
  BY <1>2 DEF TypeInv, Exchange, Granted, GrantLost, Refused, ExchangeFails, Drop,
     Finish, Goto, Resolved, RefreshFails, request
<1> QED BY <1>1, <1>2 DEF Act

(* The transport starts well typed (auth, retry counters, locks).          *)
LEMMA TypeInit == Init => TypeInv
<1> SUFFICES ASSUME Init PROVE TypeInv
  OBVIOUS
<1>1. owner \in [Requests -> Processes]
  BY ConstantsAssumption DEF Init
<1> QED BY <1>1 DEF Init, TypeInv, Labels, NoToken

(* Of whose process a request is never changes.                            *)
LEMMA CachedType ==
  ASSUME TypeInv, NEW r \in Requests
  PROVE  Cached(r) \in Nat /\ owner[r] \in Processes
BY DEF TypeInv, Cached

(* Every step of requests, authority and processes keeps the types.        *)
LEMMA TypeStep ==
  ASSUME TypeInv, [Next]_vars
  PROVE  TypeInv'
<1>1. ASSUME NEW r \in Requests, Step(r) PROVE TypeInv'
  <2>1. CASE NotAuthenticated(r) \/ UseCached(r) \/ RefreshProactively(r) \/ AcquirePermit(r)
    BY <1>1, <2>1, CachedType DEF TypeInv, NotAuthenticated, UseCached, RefreshProactively,
       AcquirePermit, Finish, Goto, Resolved, Labels, request, world
  <2>2. CASE GuardedReload(r) \/ GuardedReloadFails(r) \/ KnownFailure(r) \/ NothingToRefresh(r)
    BY <1>1, <2>2, CachedType DEF TypeInv, GuardedReload, GuardedReloadFails, KnownFailure,
       NothingToRefresh, RefreshFails, SetCached, Finish, Goto, Resolved, Labels, world
  <2>3. CASE Present(r) \/ Persist(r) \/ PersistFails(r)
    BY <1>1, <2>3, CachedType DEF TypeInv, Present, Persist, PersistFails,
       RefreshFails, Finish, Goto, Resolved, Labels, request, world
  <2>4. CASE Adopt(r)
    BY <1>1, <2>4, CachedType DEF TypeInv, Adopt, Adopted, SetCached, Finish, Goto, Resolved,
       Labels, NoToken, world
  <2>5. CASE Answered(r) \/ Retry(r) \/ SendFails(r) \/ Unauthorized(r)
    BY <1>1, <2>5 DEF TypeInv, Answered, Retry, SendFails, Unauthorized, Sent, Finish, Goto,
       Labels, world
  <2>6. CASE AcquireFlock(r) \/ AcquireFlockFails(r) \/ RecoveryOver(r) \/ Reload(r)
             \/ ReloadSkipped(r) \/ RefreshNext(r)
    BY <1>1, <2>6, CachedType DEF TypeInv, AcquireFlock, AcquireFlockFails, RecoveryOver, Reload,
       ReloadSkipped, RefreshNext, SetCached, Finish, Goto, Labels, request, world
  <2> QED BY <1>1, <2>1, <2>2, <2>3, <2>4, <2>5, <2>6 DEF Step, Owed
<1>2. ASSUME NEW r \in Requests, Exchange(r) \/ Drop(r) PROVE TypeInv'
  BY <1>2 DEF TypeInv, Exchange, Granted, GrantLost, Refused, ExchangeFails, Drop, MaySpend,
     RefreshFails, Finish, Goto, Resolved, Labels, request, world
<1>3. ASSUME NEW p \in Processes, Crash(p) PROVE TypeInv'
  BY <1>3 DEF TypeInv, Crash, MaySpend, Labels, request
<1>4. CASE (\E g \in Gens : Reject(g) \/ NearExpiry(g)) \/ Stopped \/ UNCHANGED vars
  BY <1>4 DEF TypeInv, Reject, NearExpiry, Stopped, vars, request, world
<1> QED BY <1>1, <1>2, <1>3, <1>4 DEF Next

(* No step of the retry loop spends more than its budget: every send that a *)
(* recovery allows uses up a step of the recovery.                         *)
LEMMA BudgetStep ==
  ASSUME BudgetInv, [Next]_vars
  PROVE  BudgetInv'
<1>1. TypeInv'
  BY TypeStep DEF BudgetInv
<1>2. ASSUME NEW r \in Requests, Act(r), Budget(r)' PROVE BudgetInv'
  BY <1>1, <1>2, OthersUnchanged DEF BudgetInv, Budget, Recovering
<1> USE ConstantsAssumption
<1>3. ASSUME NEW r \in Requests, Step(r) PROVE Budget(r)'
  <2>1. Budget(r) /\ TypeInv
    BY <1>3 DEF BudgetInv
  <2>2. CASE NotAuthenticated(r) \/ UseCached(r) \/ RefreshProactively(r) \/ AcquirePermit(r)
    BY <1>1, <2>1, <2>2 DEF TypeInv, Budget, Recovering, Weight, Refreshing, NotAuthenticated,
       UseCached, RefreshProactively, AcquirePermit, Finish, Goto, Resolved, Labels, request
  <2>3. CASE GuardedReload(r) \/ GuardedReloadFails(r) \/ KnownFailure(r) \/ NothingToRefresh(r)
    BY <1>1, <2>1, <2>3 DEF TypeInv, Budget, Recovering, Weight, Refreshing, GuardedReload,
       GuardedReloadFails, KnownFailure, NothingToRefresh, RefreshFails, Finish, Goto, Resolved,
       Labels
  <2>4. CASE Present(r) \/ Persist(r) \/ PersistFails(r) \/ Adopt(r)
    BY <1>1, <2>1, <2>4 DEF TypeInv, Budget, Recovering, Weight, Refreshing, Present, Persist,
       PersistFails, Adopt, Adopted, RefreshFails, Finish, Goto, Resolved, Labels, request
  <2>5. CASE Answered(r) \/ Retry(r) \/ SendFails(r) \/ Unauthorized(r)
    BY <1>1, <2>1, <2>5 DEF TypeInv, Budget, Recovering, Weight, Refreshing, Answered, Retry,
       SendFails, Unauthorized, HasNext, MayRetry, Sent, Finish, Goto, Labels
  <2>6. CASE AcquireFlock(r) \/ AcquireFlockFails(r) \/ RecoveryOver(r) \/ Reload(r)
             \/ ReloadSkipped(r) \/ RefreshNext(r)
    BY <1>1, <2>1, <2>6 DEF TypeInv, Budget, Recovering, Weight, Refreshing, AcquireFlock,
       AcquireFlockFails, RecoveryOver, Reload, ReloadSkipped, RefreshNext, HasNext, Finish,
       Goto, Labels, request
  <2> QED BY <1>3, <2>2, <2>3, <2>4, <2>5, <2>6 DEF Step, Owed
<1>4. ASSUME NEW r \in Requests, Exchange(r) \/ Drop(r) PROVE Budget(r)'
  BY <1>1, <1>4 DEF BudgetInv, TypeInv, Budget, Recovering, Weight, Refreshing, Exchange,
     Granted, GrantLost, Refused, ExchangeFails, Drop, RefreshFails, Finish, Goto, Resolved,
     Labels, request
<1>5. ASSUME NEW p \in Processes, Crash(p) PROVE BudgetInv'
  <2>1. UNCHANGED request
    BY <1>5 DEF Crash
  <2>2. \A r \in Requests : pc'[r] = pc[r] \/ pc'[r] = "over"
    BY <1>5 DEF Crash
  <2> QED BY <1>1, <2>1, <2>2 DEF BudgetInv, Budget, Recovering, Refreshing, request
<1>6. CASE (\E g \in Gens : Reject(g) \/ NearExpiry(g)) \/ Stopped \/ UNCHANGED vars
  BY <1>1, <1>6 DEF BudgetInv, Budget, Recovering, Reject, NearExpiry, Stopped, vars, request
<1> QED BY <1>2, <1>3, <1>4, <1>5, <1>6 DEF Next, Act

(* However its attempts, its recovery and proactive refreshes combine, a   *)
(* request reaches the provider at most MAX_PRESTREAM_ATTEMPTS + 2 times   *)
(* (execute_with_401_recovery), for any number of requests and processes.  *)
THEOREM BudgetKept == Spec => []SendsBounded
<1>1. Init => BudgetInv
  BY TypeInit, ConstantsAssumption
  DEF Init, BudgetInv, Budget, Recovering, Refreshing, Weight
<1>2. BudgetInv => SendsBounded
  BY DEF BudgetInv, Budget, SendsBounded
<1> QED BY <1>1, <1>2, BudgetStep, PTL DEF Spec
-----------------------------------------------------------------------------
(* As long as no access token is near its expiry, refreshes come from      *)
(* recoveries alone, and these take turns under the lock file: whoever is  *)
(* past its reload holds the lock, and its process's copy is the stored    *)
(* credential; the stored credential can be refreshed, unless its          *)
(* successor was lost or is about to be stored.                            *)
Turn(r) ==
  /\ pc[r] # "guard"
  /\ pc[r] \in Refreshing => mode[r] = "recovery" /\ step[r] = "refresh"
  /\ pc[r] = "recover" => flock = r
  /\ pc[r] # "over" /\ step[r] # "reload" =>
       flock = r /\ (pc[r] # "adopt" => Cached(r) \in {stored, NoToken})
  /\ pc[r] \in {"exchange", "persist"} => presented[r] = stored
  /\ pc[r] = "persist" => live = presented[r] + 1
  /\ pc[r] = "send" /\ step[r] = "done" => token[r] = stored

Refreshable == stored # live => stored \in lost \/ \E r \in Requests : pc[r] = "persist"

TurnInv == TypeInv /\ (expiring = {} => Refreshable /\ \A r \in Requests : Turn(r))

(* Nobody changes owner.                                                   *)
LEMMA OwnersFixed ==
  ASSUME NEW r \in Requests, Act(r)
  PROVE  owner' = owner
BY DEF Act, Step, Owed, NotAuthenticated, UseCached, RefreshProactively, AcquirePermit,
   GuardedReload, GuardedReloadFails, KnownFailure, NothingToRefresh, Present, Persist,
   PersistFails, Adopt, Answered, Retry, SendFails, Unauthorized, AcquireFlock,
   AcquireFlockFails, RecoveryOver, Reload, ReloadSkipped, RefreshNext, Exchange, Granted,
   GrantLost, Refused, ExchangeFails, Drop, world

(* While another request holds the lock file, a request changes neither    *)
(* the lock, nor a cache, nor the store, nor what the authority expects.   *)
LEMMA HolderOnly ==
  ASSUME NEW r \in Requests, NEW q \in Requests \ {r}, Turn(r), Act(r), flock = q
  PROVE  UNCHANGED <<flock, cached, stored, live>>
<1>1. q # None /\ flock # r /\ flock # None
  BY ConstantsAssumption
<1>2. pc[r] \notin Refreshing \cup {"guard", "recover"}
  BY <1>1 DEF Turn, Refreshing
<1>3. CASE Step(r)
  BY <1>1, <1>2, <1>3 DEF Step, Owed, NotAuthenticated, UseCached, RefreshProactively, AcquirePermit,
     GuardedReload, GuardedReloadFails, KnownFailure, NothingToRefresh, Present, Persist,
     PersistFails, Adopt, Answered, Retry, SendFails, Unauthorized, AcquireFlock,
     AcquireFlockFails, RecoveryOver, Reload, ReloadSkipped, RefreshNext, Refreshing,
     Finish, FlockWithout, locks, world
<1>4. CASE Exchange(r) \/ Drop(r)
  BY <1>1, <1>2, <1>4 DEF Exchange, Granted, GrantLost, Refused, ExchangeFails, Drop, MaySpend,
     Refreshing, Finish, FlockWithout
<1> QED BY <1>3, <1>4 DEF Act

(* Every step keeps the turns.                                             *)
LEMMA TurnStep ==
  ASSUME TurnInv, [Next]_vars
  PROVE  TurnInv'
<1>1. TypeInv' /\ TypeInv
  BY TypeStep DEF TurnInv
<1>2. SUFFICES ASSUME expiring' = {} PROVE Refreshable' /\ \A r \in Requests : Turn(r)'
  BY <1>1 DEF TurnInv
<1>3. expiring = {}
  BY <1>2, ZenonT(40) DEF Next, Step, Owed, NotAuthenticated, UseCached, RefreshProactively, AcquirePermit,
     GuardedReload, GuardedReloadFails, KnownFailure, NothingToRefresh, Present, Persist,
     PersistFails, Adopt, Answered, Retry, SendFails, Unauthorized, AcquireFlock,
     AcquireFlockFails, RecoveryOver, Reload, ReloadSkipped, RefreshNext, Exchange, Granted,
     GrantLost, Refused, ExchangeFails, Drop, Crash, Reject, NearExpiry, Stopped, world, vars
<1>4. Refreshable /\ \A r \in Requests : Turn(r)
  BY <1>3 DEF TurnInv
<1>5. ASSUME NEW r \in Requests, Step(r) PROVE Refreshable' /\ Turn(r)'
  <2>1. Turn(r)
    BY <1>4, <1>5
  <2>2. CASE NotAuthenticated(r) \/ UseCached(r) \/ RefreshProactively(r) \/ AcquirePermit(r)
    BY <1>1, <1>3, <1>4, <2>1, <2>2 DEF TypeInv, Turn, Refreshable, Cached, Refreshing, Labels,
       NotAuthenticated, UseCached, RefreshProactively, AcquirePermit, Finish, Goto, Resolved,
       request, locks, world
  <2>3. CASE GuardedReload(r) \/ GuardedReloadFails(r) \/ KnownFailure(r) \/ NothingToRefresh(r)
    BY <1>1, <1>4, <2>1, <2>3 DEF TypeInv, Turn, Refreshable, Cached, Refreshing, Labels,
       GuardedReload, GuardedReloadFails, KnownFailure, NothingToRefresh, RefreshFails, Finish,
       Goto, Resolved, world
  <2>4. CASE Present(r) \/ Persist(r) \/ PersistFails(r)
    BY <1>1, <1>4, <2>1, <2>4 DEF TypeInv, Turn, Refreshable, Cached, Refreshing, Labels,
       Present, Persist, PersistFails, RefreshFails, Finish, Goto, Resolved, request, locks, world
  <2>5. CASE Adopt(r)
    BY <1>1, <1>4, <2>1, <2>5 DEF TypeInv, Turn, Refreshable, Cached, Refreshing, Labels,
       Adopt, Adopted, SetCached, Finish, Goto, Resolved, world
  <2>6. CASE Answered(r) \/ Retry(r) \/ SendFails(r) \/ Unauthorized(r)
    BY <1>1, <1>4, <2>1, <2>6 DEF TypeInv, Turn, Refreshable, Cached, Refreshing, Labels,
       Answered, Retry, SendFails, Unauthorized, HasNext, Finish, Goto, locks, world
  <2>7. CASE AcquireFlock(r) \/ AcquireFlockFails(r) \/ RecoveryOver(r) \/ Reload(r)
             \/ ReloadSkipped(r) \/ RefreshNext(r)
    BY <1>1, <1>4, <2>1, <2>7 DEF TypeInv, Turn, Refreshable, Cached, Refreshing, Labels,
       AcquireFlock, AcquireFlockFails, RecoveryOver, Reload, ReloadSkipped, RefreshNext,
       HasNext, SetCached, Finish, Goto, request, locks, world
  <2> QED BY <1>5, <2>2, <2>3, <2>4, <2>5, <2>6, <2>7 DEF Step, Owed
<1>6. ASSUME NEW r \in Requests, Exchange(r) \/ Drop(r) PROVE Refreshable' /\ Turn(r)'
  BY <1>1, <1>4, <1>6 DEF TypeInv, Turn, Refreshable, Cached, Refreshing, Labels, Exchange,
     Granted, GrantLost, Refused, ExchangeFails, Drop, MaySpend, RefreshFails, Finish, Goto,
     Resolved, request, locks, world
<1>7. ASSUME NEW r \in Requests, Act(r), NEW q \in Requests \ {r} PROVE Turn(q)'
  <2>1. Turn(q) /\ Turn(r)
    BY <1>4, <1>7
  <2>2. CASE flock = q
    <3>1. UNCHANGED <<flock, cached, stored, live>>
      BY <1>7, <2>1, <2>2, HolderOnly
    <3> QED BY <1>1, <1>7, <2>1, <3>1, OthersUnchanged, OwnersFixed DEF Turn, Cached, Refreshing
  <2>3. CASE flock # q
    BY <1>1, <1>7, <2>1, <2>3, OthersUnchanged DEF Turn, Refreshing, Labels, TypeInv
  <2> QED BY <2>2, <2>3
<1>8. ASSUME NEW p \in Processes, Crash(p) PROVE Refreshable' /\ \A r \in Requests : Turn(r)'
  BY <1>1, <1>4, <1>8 DEF TypeInv, Turn, Refreshable, Cached, Refreshing, Crash, MaySpend, request
<1>9. CASE (\E g \in Gens : Reject(g) \/ NearExpiry(g)) \/ Stopped \/ UNCHANGED vars
  BY <1>4, <1>9 DEF Turn, Refreshable, Cached, Reject, NearExpiry, Stopped, vars, request,
     locks, world
<1> QED BY <1>5, <1>6, <1>7, <1>8, <1>9 DEF Next, Act

(* Whoever holds the lock file past its reload is the only one to refresh, *)
(* in every reachable state.                                               *)
LEMMA TurnInvariance == Spec => []TurnInv
<1>1. Init => TurnInv
  BY TypeInit DEF Init, TurnInv, Turn, Refreshable, Refreshing
<1> QED BY <1>1, TurnStep, PTL DEF Spec

(* Recoveries never present a spent refresh token but for a successor that *)
(* was lost (UnauthorizedRecovery::next under the lock file), for any      *)
(* number of requests and processes.                                       *)
THEOREM NoDoubleSpend == Spec => []RefusedOnlyAfterLoss
<1>1. ASSUME TurnInv PROVE RefusedOnlyAfterLoss
  <2> SUFFICES ASSUME expiring = {}, NEW r \in Requests, pc[r] = "exchange", presented[r] # live
               PROVE  presented[r] \in lost
    BY DEF RefusedOnlyAfterLoss
  <2>1. Refreshable /\ \A q \in Requests : Turn(q)
    BY <1>1 DEF TurnInv
  <2>2. presented[r] = stored /\ flock = r
    BY <2>1 DEF Turn, Refreshing
  <2>3. ASSUME NEW q \in Requests, pc[q] = "persist" PROVE FALSE
    BY <2>1, <2>2, <2>3 DEF Turn, Refreshing
  <2> QED BY <2>1, <2>2, <2>3 DEF Refreshable
<1> QED BY <1>1, TurnInvariance, PTL

(* execute_with_401_recovery hands a 401 on only for the newest stored     *)
(* credential, or with no credential left, for any number of requests and  *)
(* processes.                                                              *)
THEOREM GivesUpLast == Spec => GivesUpOnNewest
<1>1. ASSUME TurnInv, [Next]_vars
      PROVE  [expiring = {} => \A r \in Requests :
                result[r] = None /\ result'[r] = "401" => token[r] = stored \/ Cached(r) = NoToken]_vars
  <2> SUFFICES ASSUME expiring = {}, NEW r \in Requests, Next,
                      result[r] = None, result'[r] = "401"
               PROVE  token[r] = stored \/ Cached(r) = NoToken
    BY <1>1 DEF None
  <2>1. TypeInv /\ Turn(r)
    BY <1>1 DEF TurnInv
  <2>2. ASSUME NEW q \in Requests, Act(q), q # r PROVE FALSE
    BY <2>1, <2>2, OthersUnchanged DEF None
  <2>3. CASE Act(r)
    <3>1. Unauthorized(r) /\ ~HasNext(r)
      BY <2>1, <2>3 DEF TypeInv, None, Act, Step, Owed, NotAuthenticated, UseCached, RefreshProactively,
         AcquirePermit, GuardedReload, GuardedReloadFails, KnownFailure, NothingToRefresh, Present,
         Persist, PersistFails, Adopt, Adopted, Answered, Retry, SendFails, Unauthorized,
         AcquireFlock, AcquireFlockFails, RecoveryOver, Reload, ReloadSkipped, RefreshNext,
         Exchange, Granted, GrantLost, Refused, ExchangeFails, Drop, RefreshFails, Finish
    <3> QED BY <2>1, <3>1 DEF Unauthorized, HasNext, Turn
  <2>4. ASSUME NEW p \in Processes, Crash(p) PROVE FALSE
    BY <2>1, <2>4 DEF TypeInv, Crash, None
  <2>5. CASE (\E g \in Gens : Reject(g) \/ NearExpiry(g)) \/ Stopped
    BY <2>5 DEF Reject, NearExpiry, Stopped, vars, None
  <2> QED BY <2>2, <2>3, <2>4, <2>5 DEF Next, Act
<1> QED BY <1>1, TurnInvariance, PTL DEF Spec, GivesUpOnNewest
=============================================================================
