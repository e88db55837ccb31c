------------------------------ MODULE Sessions ------------------------------
(***************************************************************************)
(* Sign-in with an identity provider: src/backend/auth.py behind the start,*)
(* callback and logout endpoints of src/app.py and src/admin_app.py.       *)
(*                                                                         *)
(* The provider rotates its keys and changes a user's roles on its own     *)
(* schedule.  What it answers in the browser arrives late, twice or never; *)
(* what it publishes is cached, by threads that fetch it side by side.     *)
(* Time is counted in ticks; the lifetimes are constants.                  *)
(***************************************************************************)
EXTENDS Integers

CONSTANTS Browser,        \* browsers of one user, each with its cookies
          SigningKey,     \* keys the provider signs with
          RoleClaim,      \* what the provider may claim of the user's roles
          FlowLife,       \* OIDC_FLOW_SECONDS
          JwksLife,       \* JWKS_CACHE_SECONDS
          TokenLife,      \* lifetime of an id_token, with oidc_leeway_seconds
          SessionLife,    \* oidc_session_hours
          LastTick,       \* bound: ticks
          MaxFlows,       \* bound: logins begun
          MaxChanges      \* bound: rotations and changes of roles

ASSUME SessionsAssumption ==
         /\ {FlowLife, JwksLife, TokenLife, SessionLife} \subseteq Nat \ {0}
         /\ {LastTick, MaxFlows, MaxChanges} \subseteq Nat

VARIABLES now,        \* the tick
          published,  \* published[t]: keys the provider published at tick t <= now
          claimed,    \* claimed[t]: roles it claimed at tick t <= now
          changes,    \* changes of either so far
          begun,      \* logins begun so far: the state and nonce of the next
          responses,  \* the redirects the provider answered logins with
          jwks,       \* the cached key set and when it expires
          flow,       \* flow[b]: the flow cookie of b
          callback,   \* callback[b]: the locals of b's callback, if one runs
          session     \* session[b]: the session cookie of b

sessionVars == <<now, published, claimed, changes, begun, responses, jwks, flow, callback,
                 session>>

Ticks == 0..LastTick
NoFlow == [id |-> 0, expires |-> 0]
NoSessionToken == [roles |-> "none", expires |-> 0]
NoCallback == [step |-> "idle", minted |-> 0, key |-> "none", roles |-> "none",
               read |-> 0, keys |-> {}, forced |-> FALSE]

SessionsTypeOK ==
  /\ now \in Ticks
  /\ published \in [0..now -> SUBSET SigningKey]
  /\ claimed \in [0..now -> RoleClaim]
  /\ changes \in 0..MaxChanges
  /\ begun \in 0..MaxFlows
  /\ responses \subseteq [flow : 1..MaxFlows, signedIn : Ticks]
  /\ jwks.expires \in 0..(LastTick + JwksLife) /\ jwks.keys \subseteq SigningKey
  /\ \A b \in Browser :
       /\ flow[b] \in [id : 0..MaxFlows, expires : 0..(LastTick + FlowLife)]
       /\ session[b].roles \in RoleClaim \cup {"none"}
       /\ callback[b].step \in {"idle", "keys", "fetch", "store", "select"}
       /\ callback[b].keys \subseteq SigningKey

SessionsInit ==
  /\ now = 0
  /\ \E k \in SigningKey : published = [t \in {0} |-> {k}]
  /\ \E r \in RoleClaim : claimed = [t \in {0} |-> r]
  /\ changes = 0
  /\ begun = 0
  /\ responses = {}
  /\ jwks = [expires |-> 0, keys |-> {}]
  /\ flow = [b \in Browser |-> NoFlow]
  /\ callback = [b \in Browser |-> NoCallback]
  /\ session = [b \in Browser |-> NoSessionToken]

-----------------------------------------------------------------------------
(* Time and the provider.                                                  *)

providerVars == <<now, published, claimed, changes, responses>>

(* From one tick to the next the provider may publish another key, retire  *)
(* one or claim other roles.                                               *)
Tick ==
  /\ now < LastTick
  /\ now' = now + 1
  /\ \E keys \in (SUBSET SigningKey) \ {{}}, roles \in RoleClaim :
       /\ published' = [t \in 0..now' |-> IF t = now' THEN keys ELSE published[t]]
       /\ claimed' = [t \in 0..now' |-> IF t = now' THEN roles ELSE claimed[t]]
       /\ changes' = IF keys = published[now] /\ roles = claimed[now] THEN changes
                                                                     ELSE changes + 1
       /\ changes' <= MaxChanges
  /\ UNCHANGED <<begun, responses, jwks, flow, callback, session>>

(* The user signs in for a login begun at any time before; the provider's  *)
(* redirect carries an authorization code, and may be followed by any      *)
(* browser, later, and again.                                              *)
ProviderResponds(id) ==
  /\ \A r \in responses : r.flow # id
  /\ responses' = responses \cup {[flow |-> id, signedIn |-> now]}
  /\ UNCHANGED <<now, published, claimed, changes, begun, jwks, flow, callback, session>>

-----------------------------------------------------------------------------
(* The endpoints.  An operator X_Y before an operator X is X with a        *)
(* plausible mistake in it; no action uses it.                             *)

(* begin_authorization and issue_flow_token; a second start in the same    *)
(* browser replaces the cookie of the first.                               *)
StartLogin(b) ==
  /\ begun < MaxFlows
  /\ begun' = begun + 1
  /\ flow' = [flow EXCEPT ![b] = [id |-> begun', expires |-> now + FlowLife]]
  /\ UNCHANGED <<providerVars, jwks, callback, session>>

Matches_AnyFlow(b, r) == flow[b].id # 0 /\ now < flow[b].expires

(* read_flow_token and the checks of state and nonce: the provider returns *)
(* both as the login began with them.                                      *)
Matches(b, r) == flow[b].id = r.flow /\ now < flow[b].expires

(* complete_authorization up to the redeemed code.  The id_token is minted *)
(* now, with the roles the provider has known since the sign-in.           *)
ReceiveCallback(b) ==
  /\ callback[b].step = "idle"
  /\ \E r \in responses :
       /\ Matches(b, r)
       /\ \E key \in published[now], t \in r.signedIn..now :
            callback' = [callback EXCEPT ![b] = [NoCallback EXCEPT !.step = "keys",
                                                                   !.minted = now,
                                                                   !.key = key,
                                                                   !.roles = claimed[t]]]
  /\ UNCHANGED <<providerVars, begun, jwks, flow, session>>

Cached_Always(t) == jwks.expires > 0

Cached(t) == t < jwks.expires

(* jwks_document: from the cache while it lasts, unless a fetch is forced. *)
(* The clock is read before the fetch; the cached pair is read at once.    *)
ReadKeySet(b) ==
  /\ callback[b].step = "keys"
  /\ callback' = [callback EXCEPT
                    ![b] = IF Cached(now) /\ ~callback[b].forced
                           THEN [@ EXCEPT !.step = "select", !.read = now,
                                          !.keys = jwks.keys]
                           ELSE [@ EXCEPT !.step = "fetch", !.read = now]]
  /\ UNCHANGED <<providerVars, begun, jwks, flow, session>>

FetchKeySet(b) ==
  /\ callback[b].step = "fetch"
  /\ \/ callback' = [callback EXCEPT ![b].step = "store", ![b].keys = published[now]]
     \/ callback' = [callback EXCEPT ![b] = NoCallback]
  /\ UNCHANGED <<providerVars, begun, jwks, flow, session>>

StoreKeySet(b) ==
  /\ callback[b].step = "store"
  /\ jwks' = [expires |-> callback[b].read + JwksLife, keys |-> callback[b].keys]
  /\ callback' = [callback EXCEPT ![b].step = "select"]
  /\ UNCHANGED <<providerVars, begun, flow, session>>

KeyKnown(b) == callback[b].key \in callback[b].keys

TokenHolds(b) == now < callback[b].minted + TokenLife

(* The key is there: jwt.decode checks the signature and then the expiry;  *)
(* issue_oidc_session carries the roles of the id_token over.              *)
IssueSession(b) ==
  /\ callback[b].step = "select"
  /\ KeyKnown(b)
  /\ TokenHolds(b)
  /\ session' = [session EXCEPT ![b] = [roles |-> callback[b].roles,
                                        expires |-> now + SessionLife]]
  /\ flow' = [flow EXCEPT ![b] = NoFlow]
  /\ callback' = [callback EXCEPT ![b] = NoCallback]
  /\ UNCHANGED <<providerVars, begun, jwks>>

RejectToken(b) ==
  /\ callback[b].step = "select"
  /\ KeyKnown(b)
  /\ ~TokenHolds(b)
  /\ callback' = [callback EXCEPT ![b] = NoCallback]
  /\ UNCHANGED <<providerVars, begun, jwks, flow, session>>

(* It is not: a second look, past the cache.                               *)
ForceKeySet(b) ==
  /\ callback[b].step = "select"
  /\ ~KeyKnown(b)
  /\ ~callback[b].forced
  /\ callback' = [callback EXCEPT ![b].step = "keys", ![b].forced = TRUE]
  /\ UNCHANGED <<providerVars, begun, jwks, flow, session>>

RejectKey(b) ==
  /\ callback[b].step = "select"
  /\ ~KeyKnown(b)
  /\ callback[b].forced
  /\ callback' = [callback EXCEPT ![b] = NoCallback]
  /\ UNCHANGED <<providerVars, begun, jwks, flow, session>>

(* _authenticate_session_token.                                            *)
SessionHolds(b) == session[b] # NoSessionToken /\ now < session[b].expires

(* logout deletes the cookie; so does the browser when it expires.         *)
ForgetSession(b) ==
  /\ session[b] # NoSessionToken
  /\ session' = [session EXCEPT ![b] = NoSessionToken]
  /\ UNCHANGED <<providerVars, begun, jwks, flow, callback>>

-----------------------------------------------------------------------------
SignInNext(b) == \/ StartLogin(b)
                 \/ ReceiveCallback(b)
                 \/ ReadKeySet(b)
                 \/ FetchKeySet(b)
                 \/ StoreKeySet(b)
                 \/ IssueSession(b)
                 \/ RejectToken(b)
                 \/ ForceKeySet(b)
                 \/ RejectKey(b)
                 \/ ForgetSession(b)

SessionsNext == \/ Tick
                \/ \E id \in 1..begun : ProviderResponds(id)
                \/ \E b \in Browser : SignInNext(b)

SessionsSpec == SessionsInit /\ [][SessionsNext]_sessionVars

-----------------------------------------------------------------------------
(* Properties.                                                             *)

(* A key is trusted for a login only if the provider still published it    *)
(* within the cache's lifetime before the key set was read: neither slow   *)
(* fetches that finish out of order nor repeated logins extend the life of *)
(* a retired key.  And a login is turned away for its key only if the      *)
(* provider lacked the key at some moment of the callback, whatever the    *)
(* cache held: a rotation never locks users out until the cache expires    *)
(* (jwks_document and _select_jwk).                                        *)
KeyVerdictsAreSound ==
  [][\A b \in Browser :
       /\ IssueSession(b) => \E t \in 0..now : /\ t > callback[b].read - JwksLife
                                               /\ callback[b].key \in published[t]
       /\ RejectKey(b) => \E t \in callback[b].minted..now :
                            callback[b].key \notin published[t]]_sessionVars

(* Roles that a session gives were the provider's within the lifetimes of  *)
(* a session, of a login and of an id_token together: a redirect that is   *)
(* followed late, or again, or a callback that hangs on the key set never  *)
(* brings older roles back (read_flow_token, complete_authorization,       *)
(* issue_session and _authenticate_session_token).                         *)
RolesAreRecent ==
  \A b \in Browser : SessionHolds(b) =>
    \E t \in 0..now : /\ t > now - SessionLife - FlowLife - TokenLife
                      /\ session[b].roles = claimed[t]
=============================================================================
