-------------------------- MODULE CredentialRefresh --------------------------
(***************************************************************************)
(* A request to the provider before its body streams: the bounded retry    *)
(* and the 401 recovery of crates/codex-transport/src/transport.rs, and the *)
(* credential manager it drives (vendor/openai-codex, login/src/auth/       *)
(* manager.rs).                                                            *)
(*                                                                         *)
(* Several gateway processes, one per launched Muse, share one credential   *)
(* store and each caches what it last read there.  The authority rotates    *)
(* refresh tokens: a token is good for one refresh.  Generation g of the    *)
(* credential is an access token and the refresh token issued with it, so  *)
(* a refresh with generation g, if it is the live one, yields g + 1.        *)
(* Within a process refreshes take turns (refresh_lock); across processes   *)
(* only the 401 recovery does, under an flock it holds from its first       *)
(* recovery step until the request is over.                                *)
(***************************************************************************)
EXTENDS Integers, FiniteSets

CONSTANTS
  Processes,            \* gateway processes
  Requests,             \* requests to the provider
  Owners,               \* ways to deal the requests out to the processes
  MaxPrestreamAttempts, \* MAX_PRESTREAM_ATTEMPTS
  MaxGen,               \* bound: generations of the credential
  MaxExpiring           \* bound: access tokens that come near their expiry

None == "none"
NoToken == 0
Gens == 1..MaxGen

ASSUME ConstantsAssumption ==
  /\ Owners \subseteq [Requests -> Processes]
  /\ None \notin Requests
  /\ MaxPrestreamAttempts \in Nat \ {0}
  /\ MaxGen \in Nat \ {0} /\ MaxExpiring \in Nat

VARIABLES
  owner,      \* the process that makes each request; never changes
  pc,         \* where each request is
  checked,    \* whether its first resolve_auth, before the loop, is over
  token,      \* the generation resolve_auth gave it
  transient,  \* transient_attempts
  sends,      \* history: how often it was sent
  step,       \* UnauthorizedRecovery.step: "reload" | "refresh" | "done"
  mode,       \* why it refreshes: "proactive" | "recovery"
  presented,  \* the refresh token it presents to the authority
  result,     \* None | "answered" | "401" | "5xx" | "error" | "auth" | "dropped"
  flock,      \* who holds the lock file
  permit,     \* who holds each process's refresh_lock
  cached,     \* each process's cached credential
  failed,     \* each process's permanent_refresh_failure
  stored,     \* the credential in the store
  live,       \* authority: the generation whose refresh token is unspent
  rejected,   \* provider: generations whose access token it refuses
  expiring,   \* generations whose access token is near its expiry
  lost        \* history: generations spent with no successor stored

request == <<checked, token, transient, sends, step, mode, presented>>
locks == <<flock, permit>>
world == <<owner, live, rejected, expiring, lost>>
vars == <<pc, request, result, locks, cached, failed, stored, world>>
-----------------------------------------------------------------------------
Cached(r) == cached[owner[r]]
SetCached(r, g) ==
  LET p == owner[r] IN
  /\ cached' = [cached EXCEPT ![p] = g]
  /\ failed' = IF g = cached[p] THEN failed ELSE [failed EXCEPT ![p] = NoToken]

Goto(r, l) == pc' = [pc EXCEPT ![r] = l]
FlockWithout_Mutant(r) == flock  \* OnlyAuthorityBlocks: the lock file stays locked
FlockWithout(r) == IF flock = r THEN None ELSE flock
PermitWithout(r) == [p \in Processes |-> IF permit[p] = r THEN None ELSE permit[p]]

(* execute_with_401_recovery returns: its locks are dropped.               *)
Finish(r, outcome) ==
  /\ Goto(r, "over")
  /\ result' = [result EXCEPT ![r] = outcome]
  /\ flock' = FlockWithout(r) /\ permit' = PermitWithout(r)

Init ==
  /\ owner \in Owners
  /\ pc = [r \in Requests |-> "resolve"]
  /\ checked = [r \in Requests |-> FALSE]
  /\ token = [r \in Requests |-> NoToken]
  /\ transient = [r \in Requests |-> 0] /\ sends = [r \in Requests |-> 0]
  /\ step = [r \in Requests |-> "reload"] /\ mode = [r \in Requests |-> "recovery"]
  /\ presented = [r \in Requests |-> NoToken]
  /\ result = [r \in Requests |-> None]
  /\ flock = None /\ permit = [p \in Processes |-> None]
  /\ cached = [p \in Processes |-> 1] /\ failed = [p \in Processes |-> NoToken]
  /\ stored = 1 /\ live = 1 /\ rejected = {} /\ expiring = {} /\ lost = {}
-----------------------------------------------------------------------------
(* resolve_auth: once before the loop, then once for every send.           *)
Resolved(r, g) ==
  /\ token' = [token EXCEPT ![r] = g]
  /\ checked' = [checked EXCEPT ![r] = TRUE]
  /\ Goto(r, IF checked[r] THEN "send" ELSE "resolve")

NotAuthenticated(r) ==
  /\ pc[r] = "resolve" /\ Cached(r) = NoToken
  /\ Finish(r, "auth")
  /\ UNCHANGED <<request, cached, failed, stored, world>>

UseCached(r) ==
  /\ pc[r] = "resolve" /\ Cached(r) # NoToken /\ Cached(r) \notin expiring
  /\ Resolved(r, Cached(r))
  /\ UNCHANGED <<transient, sends, step, mode, presented, result, locks, cached, failed,
                 stored, world>>

RefreshProactively(r) ==
  /\ pc[r] = "resolve" /\ Cached(r) \in expiring
  /\ token' = [token EXCEPT ![r] = Cached(r)]
  /\ mode' = [mode EXCEPT ![r] = "proactive"]
  /\ Goto(r, "permit")
  /\ UNCHANGED <<checked, transient, sends, step, presented, result, locks, cached, failed,
                 stored, world>>

(* refresh_lock: one permit per process.                                   *)
AcquirePermit(r) ==
  /\ pc[r] = "permit" /\ permit[owner[r]] = None
  /\ permit' = [permit EXCEPT ![owner[r]] = r]
  /\ Goto(r, IF mode[r] = "proactive" THEN "guard" ELSE "refresh")
  /\ UNCHANGED <<request, result, flock, cached, failed, stored, world>>

(* refresh_token: reload first; a changed credential needs no refresh.     *)
GuardedReload(r) ==
  /\ pc[r] = "guard" /\ Cached(r) # NoToken
  /\ IF stored = Cached(r)
     THEN Goto(r, "refresh") /\ UNCHANGED <<checked, token, permit, cached, failed>>
     ELSE SetCached(r, stored) /\ Resolved(r, stored) /\ permit' = PermitWithout(r)
  /\ UNCHANGED <<transient, sends, step, mode, presented, result, flock, stored, world>>

(* What a refresh that failed means: a proactive one is logged and the old *)
(* credential used; a recovery ends the request.                           *)
RefreshFails(r) ==
  IF mode[r] = "proactive"
  THEN /\ Resolved(r, token[r])
       /\ permit' = PermitWithout(r)
       /\ UNCHANGED <<flock, result>>
  ELSE Finish(r, "auth") /\ UNCHANGED <<token, checked>>

GuardedReloadFails(r) ==
  /\ pc[r] = "guard"
  /\ RefreshFails(r)
  /\ UNCHANGED <<transient, sends, step, mode, presented, cached, failed, stored, world>>
-----------------------------------------------------------------------------
(* refresh_token_from_authority_impl                                       *)
KnownFailure(r) ==
  /\ pc[r] = "refresh" /\ Cached(r) # NoToken /\ failed[owner[r]] = Cached(r)
  /\ RefreshFails(r)
  /\ UNCHANGED <<transient, sends, step, mode, presented, cached, failed, stored, world>>

(* The cache was emptied meanwhile: nothing to refresh, and no failure.    *)
NothingToRefresh(r) ==
  /\ pc[r] = "refresh" /\ Cached(r) = NoToken
  /\ permit' = PermitWithout(r)
  /\ step' = IF mode[r] = "recovery" THEN [step EXCEPT ![r] = "done"] ELSE step
  /\ IF mode[r] = "proactive"
     THEN Finish(r, "auth")
     ELSE Goto(r, "resolve") /\ UNCHANGED <<flock, result>>
  /\ UNCHANGED <<checked, token, transient, sends, mode, presented, cached, failed, stored, world>>

Present(r) ==
  /\ pc[r] = "refresh" /\ Cached(r) # NoToken /\ failed[owner[r]] # Cached(r)
  /\ presented' = [presented EXCEPT ![r] = Cached(r)]
  /\ Goto(r, "exchange")
  /\ UNCHANGED <<checked, token, transient, sends, step, mode, result, locks, cached, failed,
                 stored, world>>

(* The authority answers: a new generation for the live one, a permanent   *)
(* failure for a spent one; or the exchange fails on the way there or back. *)
Granted(r) ==
  /\ pc[r] = "exchange" /\ presented[r] = live /\ live < MaxGen
  /\ live' = live + 1
  /\ Goto(r, "persist")
  /\ UNCHANGED <<request, result, locks, cached, failed, stored, owner, rejected, expiring, lost>>

GrantLost(r) ==
  /\ pc[r] = "exchange" /\ presented[r] = live /\ live < MaxGen
  /\ live' = live + 1 /\ lost' = lost \cup {live}
  /\ RefreshFails(r)
  /\ UNCHANGED <<transient, sends, step, mode, presented, cached, failed, stored,
                 owner, rejected, expiring>>

Refused(r) ==
  /\ pc[r] = "exchange" /\ presented[r] # live
  /\ failed' = IF Cached(r) = presented[r]
               THEN [failed EXCEPT ![owner[r]] = presented[r]] ELSE failed
  /\ RefreshFails(r)
  /\ UNCHANGED <<transient, sends, step, mode, presented, cached, stored, world>>

ExchangeFails(r) ==
  /\ pc[r] = "exchange"
  /\ RefreshFails(r)
  /\ UNCHANGED <<transient, sends, step, mode, presented, cached, failed, stored, world>>

(* refresh_and_persist_chatgpt_token: save, then reload.                   *)
Persist(r) ==
  /\ pc[r] = "persist"
  /\ stored' = presented[r] + 1
  /\ Goto(r, "adopt")
  /\ UNCHANGED <<request, result, locks, cached, failed, world>>

PersistFails(r) ==
  /\ pc[r] = "persist"
  /\ lost' = lost \cup {presented[r]}
  /\ RefreshFails(r)
  /\ UNCHANGED <<transient, sends, step, mode, presented, cached, failed, stored,
                 live, owner, rejected, expiring>>

Adopted_Mutant(r, g) ==  \* GivesUpOnNewest: the flock is held for the refresh only
  /\ SetCached(r, g)
  /\ permit' = PermitWithout(r) /\ flock' = FlockWithout(r)
  /\ step' = [step EXCEPT ![r] = "done"]
  /\ Goto(r, "resolve")
  /\ UNCHANGED <<token, checked, result>>

(* A store that cannot be read empties the cache.                          *)
Adopted(r, g) ==
  /\ SetCached(r, g)
  /\ permit' = PermitWithout(r)
  /\ IF mode[r] = "recovery"
     THEN /\ step' = [step EXCEPT ![r] = "done"]
          /\ Goto(r, "resolve")
          /\ UNCHANGED <<token, checked, result, flock>>
     ELSE /\ IF g = NoToken
             THEN Finish(r, "auth") /\ UNCHANGED <<token, checked>>
             ELSE Resolved(r, g) /\ UNCHANGED <<result, flock>>
          /\ UNCHANGED step

Adopt(r) ==
  /\ pc[r] = "adopt"
  /\ \E g \in {stored, NoToken} : Adopted(r, g)
  /\ UNCHANGED <<transient, sends, mode, presented, stored, world>>
-----------------------------------------------------------------------------
(* One turn of the loop: the outcomes of send().                           *)
Sent(r) == sends' = [sends EXCEPT ![r] = @ + 1]
MayRetry(r) == transient[r] + 1 < MaxPrestreamAttempts

Answered(r) ==
  /\ pc[r] = "send" /\ token[r] \notin rejected
  /\ Sent(r) /\ Finish(r, "answered")
  /\ UNCHANGED <<checked, token, transient, step, mode, presented, cached, failed, stored, world>>

(* A retryable send error, or a 5xx after the Retry-After delay.           *)
Retry(r) ==
  /\ pc[r] = "send" /\ MayRetry(r)
  /\ Sent(r)
  /\ transient' = [transient EXCEPT ![r] = @ + 1]
  /\ Goto(r, "resolve")
  /\ UNCHANGED <<checked, token, step, mode, presented, result, locks, cached, failed, stored, world>>

(* The budget is spent and the 5xx response, or the error, is the outcome; *)
(* an error that is not retryable is one at once.                          *)
SendFails(r) ==
  /\ pc[r] = "send"
  /\ Sent(r)
  /\ Finish(r, "error") \/ (~MayRetry(r) /\ Finish(r, "5xx"))
  /\ UNCHANGED <<checked, token, transient, step, mode, presented, cached, failed, stored, world>>

HasNext(r) == Cached(r) # NoToken /\ step[r] # "done"

Unauthorized(r) ==
  /\ pc[r] = "send" /\ token[r] \in rejected
  /\ Sent(r)
  /\ IF HasNext(r)
     THEN /\ Goto(r, IF flock = r THEN "recover" ELSE "flock")
          /\ UNCHANGED <<result, locks>>
     ELSE Finish(r, "401")
  /\ UNCHANGED <<checked, token, transient, step, mode, presented, cached, failed, stored, world>>

AcquireFlock(r) ==
  /\ pc[r] = "flock" /\ flock = None
  /\ flock' = r
  /\ Goto(r, "recover")
  /\ UNCHANGED <<request, result, permit, cached, failed, stored, world>>

(* The lock file cannot be opened or locked.  No waiter is owed an error:  *)
(* flock(LOCK_EX) blocks for as long as another request holds the lock.    *)
AcquireFlockFails(r) ==
  /\ pc[r] = "flock"
  /\ Finish(r, "auth")
  /\ UNCHANGED <<request, cached, failed, stored, world>>

(* UnauthorizedRecovery::next                                              *)
RecoveryOver(r) ==
  /\ pc[r] = "recover" /\ ~HasNext(r)
  /\ Finish(r, "auth")
  /\ UNCHANGED <<request, cached, failed, stored, world>>

Reload_Mutant(r) ==  \* RefusedOnlyAfterLoss: the store is not read again
  /\ pc[r] = "recover" /\ HasNext(r) /\ step[r] = "reload"
  /\ step' = [step EXCEPT ![r] = "refresh"]
  /\ Goto(r, "resolve")
  /\ UNCHANGED <<checked, token, transient, sends, mode, presented, result, locks, cached, failed,
                 stored, world>>

Reload_Repeated(r) ==  \* SendsBounded: the recovery does not advance
  /\ pc[r] = "recover" /\ HasNext(r) /\ step[r] = "reload"
  /\ SetCached(r, stored)
  /\ Goto(r, "resolve")
  /\ UNCHANGED <<request, result, locks, stored, world>>

Reload(r) ==
  /\ pc[r] = "recover" /\ HasNext(r) /\ step[r] = "reload"
  /\ SetCached(r, stored)
  /\ step' = [step EXCEPT ![r] = "refresh"]
  /\ Goto(r, "resolve")
  /\ UNCHANGED <<checked, token, transient, sends, mode, presented, result, locks, stored, world>>

ReloadSkipped(r) ==
  /\ pc[r] = "recover" /\ HasNext(r) /\ step[r] = "reload"
  /\ step' = [step EXCEPT ![r] = "done"]
  /\ Finish(r, "auth")
  /\ UNCHANGED <<checked, token, transient, sends, mode, presented, cached, failed, stored, world>>

RefreshNext(r) ==
  /\ pc[r] = "recover" /\ HasNext(r) /\ step[r] = "refresh"
  /\ mode' = [mode EXCEPT ![r] = "recovery"]
  /\ Goto(r, "permit")
  /\ UNCHANGED <<checked, token, transient, sends, step, presented, result, locks, cached, failed,
                 stored, world>>
-----------------------------------------------------------------------------
(* The client goes away, at any await; or the process dies, anywhere.  The  *)
(* kernel drops the flock, and an exchange may yet reach the authority.     *)
MaySpend(rs) ==
  \/ /\ \E r \in rs : pc[r] = "exchange" /\ presented[r] = live
     /\ live < MaxGen /\ live' = live + 1 /\ lost' = lost \cup {live}
  \/ /\ live' = live
     /\ lost' = lost \cup {presented[r] : r \in {x \in rs : pc[x] = "persist"}}

Drop(r) ==
  /\ pc[r] \notin {"persist", "over"}
  /\ Finish(r, "dropped")
  /\ MaySpend({r})
  /\ UNCHANGED <<request, cached, failed, stored, owner, rejected, expiring>>

Crash(p) ==
  LET mine == {r \in Requests : owner[r] = p /\ pc[r] # "over"} IN
  /\ mine # {}
  /\ pc' = [r \in Requests |-> IF r \in mine THEN "over" ELSE pc[r]]
  /\ result' = [r \in Requests |-> IF r \in mine THEN "dropped" ELSE result[r]]
  /\ flock' = IF flock \in mine THEN None ELSE flock
  /\ permit' = [permit EXCEPT ![p] = None]
  /\ MaySpend(mine)
  /\ UNCHANGED <<request, cached, failed, stored, owner, rejected, expiring>>

(* The provider stops accepting an access token; time passes.  (The last   *)
(* generation of the model is spared, so that a refresh is always possible.) *)
Reject(g) ==
  /\ g \in Gens \ rejected /\ g <= live /\ g < MaxGen
  /\ rejected' = rejected \cup {g}
  /\ UNCHANGED <<pc, request, result, locks, cached, failed, stored, owner, live, expiring, lost>>

NearExpiry(g) ==
  /\ g \in Gens \ expiring /\ g <= live /\ g < MaxGen
  /\ Cardinality(expiring) < MaxExpiring
  /\ expiring' = expiring \cup {g}
  /\ UNCHANGED <<pc, request, result, locks, cached, failed, stored, owner, live, rejected, lost>>

Stopped ==
  /\ \A r \in Requests : pc[r] = "over"
  /\ UNCHANGED vars

(* What the code does by itself, the authority's answers apart: what the   *)
(* runtime owes a request, and an error of the lock file.                  *)
Owed(r) ==
  \/ NotAuthenticated(r) \/ UseCached(r) \/ RefreshProactively(r)
  \/ AcquirePermit(r) \/ GuardedReload(r) \/ GuardedReloadFails(r)
  \/ KnownFailure(r) \/ NothingToRefresh(r) \/ Present(r)
  \/ Persist(r) \/ PersistFails(r) \/ Adopt(r)
  \/ Answered(r) \/ Retry(r) \/ SendFails(r) \/ Unauthorized(r)
  \/ AcquireFlock(r)
  \/ RecoveryOver(r) \/ Reload(r) \/ ReloadSkipped(r) \/ RefreshNext(r)

Step(r) == Owed(r) \/ AcquireFlockFails(r)

Exchange(r) == Granted(r) \/ GrantLost(r) \/ Refused(r) \/ ExchangeFails(r)

Next ==
  \/ \E r \in Requests : Step(r) \/ Exchange(r) \/ Drop(r)
  \/ \E p \in Processes : Crash(p)
  \/ \E g \in Gens : Reject(g) \/ NearExpiry(g)
  \/ Stopped

Spec == Init /\ [][Next]_vars

(* The runtime runs a task that is ready, the client has connect and read  *)
(* timeouts, and a lock that is free is given to a waiter; one that is     *)
(* held is waited for without limit.  The refresh request has no timeout:  *)
(* the authority owes nothing.                                             *)
FairSpec == Spec /\ \A r \in Requests : WF_vars(Owed(r))
-----------------------------------------------------------------------------
(* Recoveries of any number of requests in any number of processes never   *)
(* spend a refresh token twice (which logs the user out): the authority    *)
(* refuses one only if the successor it issued for it was lost, on the way *)
(* back, with a process or a client, or in a failed save.  Each recovery   *)
(* reads the store again under the lock before it refreshes.  It holds     *)
(* until an access token comes near its expiry: proactive refreshes do not *)
(* take the lock.                                                          *)
RefusedOnlyAfterLoss ==
  expiring = {} => \A r \in Requests :
    pc[r] = "exchange" /\ presented[r] # live => presented[r] \in lost

(* A request hands a 401 to the client only once the newest credential in  *)
(* the store was refused, not one another process has replaced meanwhile,  *)
(* or when its process has no credential left.  (With the same proviso.)   *)
GivesUpOnNewest ==
  [][expiring = {} => \A r \in Requests :
       result[r] = None /\ result'[r] = "401" => token[r] = stored \/ Cached(r) = NoToken]_vars

(* However transient failures, a reload, a refresh and proactive refreshes *)
(* combine, a request reaches the provider at most once for each attempt   *)
(* of the budget and each of the two recovery steps.                       *)
SendsBounded == \A r \in Requests : sends[r] <= MaxPrestreamAttempts + 2

(* The flock, the permits and the retries never leave requests waiting for *)
(* each other or for one that is gone, though neither lock has a timeout:  *)
(* all of them end, unless an exchange with the authority, which has no    *)
(* timeout either, is for ever without an answer.                          *)
OnlyAuthorityBlocks ==
  \/ <>(\A r \in Requests : pc[r] = "over")
  \/ <>[](\E r \in Requests : pc[r] = "exchange")
=============================================================================
