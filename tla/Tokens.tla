------------------------------- MODULE Tokens -------------------------------
(***************************************************************************)
(* The payment provider's bearer token: one cache for all calls, filled by *)
(* whoever logs in, reused until five minutes before it expires, thrown    *)
(* away by a call that is refused, which logs in and tries once more.      *)
(* Calls interleave at every await, and answers of logins come in any      *)
(* order.  The provider (external) may revoke a token at any time.         *)
(***************************************************************************)
EXTENDS Integers

CONSTANTS
  Requests,     \* calls of the provider
  MaxIssued     \* bound on logins

ASSUME TokenAssumption == MaxIssued \in Nat

VARIABLES
  cache,     \* tokenCache: a token, 0 for none, and whether it expires in five minutes or later
  request,   \* call -> where it is, and the token it uses
  issued,    \* tokens the provider has issued, by their number
  valid,     \* those of them it still accepts
  newest,    \* ghost: call -> the newest token when it was refused
  refused    \* ghost: tokens that a call's first try was refused with

tokenVars == <<cache, request, issued, valid, newest, refused>>

NoToken == [token |-> 0, fresh |-> FALSE]
Resting == [pc |-> "new", token |-> 0, tries |-> 0]

TokensInit ==
  /\ cache = NoToken
  /\ request = [r \in Requests |-> Resting]
  /\ issued = 0 /\ valid = {}
  /\ newest = [r \in Requests |-> 0]
  /\ refused = {}

InPc(r, pc) == request[r].pc = pc
Advance(r, pc, token) ==
  request' = [request EXCEPT ![r] = [pc |-> pc, token |-> token, tries |-> request[r].tries]]

\* getToken: the cached one while it is fresh.
GetToken(r) ==
  /\ InPc(r, "new")
  /\ request' = [request EXCEPT ![r] =
                   IF cache.fresh THEN [pc |-> "call", token |-> cache.token, tries |-> 1]
                   ELSE [pc |-> "login", token |-> 0, tries |-> 1]]
  /\ UNCHANGED <<cache, issued, valid, newest, refused>>

\* The provider issues a token, or refuses, or does not answer.
Login(r) ==
  /\ InPc(r, "login")
  /\ \/ /\ issued < MaxIssued /\ issued' = issued + 1 /\ valid' = valid \cup {issued'}
        /\ Advance(r, "answer", issued')
     \/ Advance(r, "unavailable", 0) /\ UNCHANGED <<issued, valid>>
  /\ UNCHANGED <<cache, newest, refused>>

\* login: the answer is cached, whatever was cached in the meantime.
LoggedIn(r) ==
  /\ InPc(r, "answer")
  /\ cache' = [token |-> request[r].token, fresh |-> TRUE]
  /\ Advance(r, "call", request[r].token)
  /\ UNCHANGED <<issued, valid, newest, refused>>

\* Mutant: the retry takes what another call left in the cache.
RetryFromCache(r) ==
  IF cache.fresh THEN [pc |-> "call", token |-> cache.token, tries |-> 2] ELSE [pc |-> "login", token |-> 0, tries |-> 2]
\* What a refused call does next: the cache is emptied, whatever is in it now, and it
\* logs in by itself.
AfterRefusal(r) == [pc |-> "login", token |-> 0, tries |-> 2]
Refuse(r) ==
  /\ InPc(r, "call") /\ request[r].token \notin valid
  /\ IF request[r].tries = 1
     THEN request' = [request EXCEPT ![r] = AfterRefusal(r)] /\ cache' = NoToken
     ELSE Advance(r, "refused", request[r].token) /\ UNCHANGED cache
  /\ IF request[r].tries = 1
     THEN newest' = [newest EXCEPT ![r] = issued] /\ refused' = refused \cup {request[r].token}
     ELSE UNCHANGED <<newest, refused>>
  /\ UNCHANGED <<issued, valid>>

\* initiateCollection, getTransaction: an answer, or another error, which is not retried.
Succeed(r) ==
  /\ InPc(r, "call")
  /\ \/ request[r].token \in valid /\ Advance(r, "done", request[r].token)
     \/ Advance(r, "unavailable", request[r].token)
  /\ UNCHANGED <<cache, issued, valid, newest, refused>>

Revoke(t) ==
  /\ t \in valid /\ valid' = valid \ {t}
  /\ UNCHANGED <<cache, request, issued, newest, refused>>

\* TOKEN_TTL_MS less REFRESH_MARGIN_MS have passed.
GoesStale ==
  /\ cache.fresh /\ cache' = [token |-> cache.token, fresh |-> FALSE]
  /\ UNCHANGED <<request, issued, valid, newest, refused>>

TokensNext ==
  \/ \E r \in Requests : GetToken(r) \/ Login(r) \/ LoggedIn(r) \/ Refuse(r) \/ Succeed(r)
  \/ \E t \in 1..MaxIssued : Revoke(t)
  \/ GoesStale

TokensSpec == TokensInit /\ [][TokensNext]_tokenVars

-----------------------------------------------------------------------------
RequestPcs == {"new", "login", "answer", "call", "done", "refused", "unavailable"}
\* Calls make two tries, and the provider issues at most MaxIssued tokens.
TokensTypeOK ==
  /\ cache \in [token : Nat, fresh : BOOLEAN]
  /\ request \in [Requests -> [pc : RequestPcs, token : Nat, tries : 0..2]]
  /\ issued \in 0..MaxIssued /\ valid \subseteq 1..issued
  /\ newest \in [Requests -> Nat] /\ refused \subseteq Nat

\* However calls and logins interleave, a call gives up as refused only after a retry
\* with a token that was issued after its first refusal, and no token that a call's first
\* try was refused with is handed out to another call (withXenteAuth, getToken).
RefusedIsNotReused ==
  /\ \A r \in Requests : InPc(r, "refused") => request[r].token > newest[r]
  /\ cache.fresh => cache.token \notin refused

=============================================================================
