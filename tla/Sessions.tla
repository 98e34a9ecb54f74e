------------------------------ MODULE Sessions ------------------------------
(***************************************************************************)
(* One owner's account: signing up, signing in with a password and a       *)
(* second factor, refreshing, signing out, and the browsers that hold the  *)
(* cookies.  The users row keeps the hash of one refresh token; a browser  *)
(* whose call is answered 401 refreshes by itself and repeats the call,    *)
(* and several of its calls may do so at once.                             *)
(*                                                                         *)
(* Tokens are numbered in the order they are made: every refresh token     *)
(* carries a random id, so no two are equal.  Access tokens are checked by *)
(* their signature alone and are what the access cookie says.  A one-time  *)
(* code is the pair of the secret and the 30-second step it belongs to.    *)
(*                                                                         *)
(* A transaction at READ COMMITTED that reads the users row and updates it *)
(* by id afterwards is two steps: nothing locks the row in between.        *)
(***************************************************************************)
EXTENDS Integers, FiniteSets

CONSTANTS
  Browsers,     \* browsers of the owner
  NoBrowser,    \* "no browser"
  Calls,        \* concurrent requests to the API
  MaxTokens,    \* bound on refresh tokens made
  MaxSteps,     \* bound on 30-second steps
  MaxSecrets,   \* bound on second-factor secrets made
  MaxPrints,    \* bound on lists of recovery codes made
  CodesPerList  \* recovery codes of one list

ASSUME BrowserAssumption == NoBrowser \notin Browsers
ASSUME SessionBounds ==
  /\ MaxTokens \in Nat /\ MaxSteps \in Nat \ {0} /\ MaxSecrets \in Nat
  /\ MaxPrints \in Nat /\ CodesPerList \in Nat

VARIABLES
  account,    \* the rows that signing up makes
  hash,       \* the refresh token whose hash the users row has, 0 for none or expired
  made,       \* number of refresh tokens made so far
  factor,     \* the second factor's columns of the users row
  now,        \* current 30-second step
  cookie,     \* browser -> its cookies
  page,       \* browser -> the status of AuthContext
  call,       \* request -> where it is
  retired,    \* ghost: tokens that were stored and no longer are
  holder,     \* ghost: the browser that the stored token was made for
  troubled,   \* ghost: browsers whose calls overlapped or lost an answer
  closed,     \* ghost: codes used up while no other code was being used
  broken      \* ghost: a signup failed half way

serverVars == <<account, hash, made, factor>>
ghostVars == <<retired, holder, troubled, closed, broken>>
sessionVars == <<serverVars, now, cookie, page, call, ghostVars>>

RecoveryCodes == {"recovery"} \X (1..MaxPrints) \X (1..CodesPerList)
OneTimeCodes == {"totp"} \X (1..MaxSecrets) \X (1..MaxSteps)
NoCode == <<"none", 0, 0>>

Accounts == [tenant : {"none", "live", "deleted"}, owner : BOOLEAN, subscribed : BOOLEAN]
Factors == [on : BOOLEAN, secret : 0..MaxSecrets, secrets : 0..MaxSecrets, last : 0..MaxSteps,
            codes : SUBSET RecoveryCodes, prints : 0..MaxPrints]
Cookies == [access : {"none", "pending", "full"}, refresh : 0..MaxTokens, second : BOOLEAN]
Statuses == {"checking", "authenticated", "unauthenticated", "two_factor_required"}
Pcs == {"idle", "tenant", "user", "subscribe", "conflict", "refresh", "rotate",
        "mark", "spend", "enable", "issue", "answer", "challenge"}
CallStates == [pc : Pcs, from : Browsers \cup {NoBrowser}, for : {"page", "session", "sign_in"},
               token : 0..MaxTokens, code : {NoCode} \cup RecoveryCodes \cup OneTimeCodes,
               rest : SUBSET RecoveryCodes]

SessionTypeOK ==
  /\ account \in Accounts
  /\ hash \in 0..MaxTokens
  /\ made \in 0..MaxTokens
  /\ factor \in Factors
  /\ now \in 1..MaxSteps
  /\ cookie \in [Browsers -> Cookies]
  /\ page \in [Browsers -> Statuses]
  /\ call \in [Calls -> CallStates]
  /\ retired \subseteq 1..MaxTokens
  /\ holder \in Browsers \cup {NoBrowser}
  /\ troubled \subseteq Browsers
  /\ closed \subseteq RecoveryCodes \cup OneTimeCodes
  /\ broken \in BOOLEAN

Call(pc, b, for, t, code, rest) ==
  [pc |-> pc, from |-> b, for |-> for, token |-> t, code |-> code, rest |-> rest]
Rest == Call("idle", NoBrowser, "page", 0, NoCode, {})
Cookie(access, refresh, second) == [access |-> access, refresh |-> refresh, second |-> second]
Account(tenant, owner, subscribed) ==
  [tenant |-> tenant, owner |-> owner, subscribed |-> subscribed]
Factor(on, secret, secrets, last, codes, prints) ==
  [on |-> on, secret |-> secret, secrets |-> secrets, last |-> last, codes |-> codes, prints |-> prints]

NoCookies == Cookie("none", 0, FALSE)

\* The updates of the users row.
NewSecret(f) == Factor(FALSE, f.secrets + 1, f.secrets + 1, 0, {}, f.prints)
StepUsed(f, step) == Factor(f.on, f.secret, f.secrets, step, f.codes, f.prints)
CodesLeft(f, codes) == Factor(f.on, f.secret, f.secrets, f.last, codes, f.prints)
Enabled(f) == Factor(TRUE, f.secret, f.secrets, 0, {"recovery"} \X {f.prints + 1} \X (1..CodesPerList), f.prints + 1)
Disabled(f) == Factor(FALSE, 0, f.secrets, 0, {}, f.prints)

SessionsInit ==
  /\ account = Account("none", FALSE, FALSE)
  /\ hash = 0
  /\ made = 0
  /\ factor = Factor(FALSE, 0, 0, 0, {}, 0)
  /\ now = 1
  /\ cookie = [b \in Browsers |-> NoCookies]
  /\ page = [b \in Browsers |-> "checking"]
  /\ call = [c \in Calls |-> Rest]
  /\ retired = {}
  /\ holder = NoBrowser
  /\ troubled = {}
  /\ closed = {}
  /\ broken = FALSE

In(c, pc) == call[c].pc = pc
Busy(b) == \E c \in Calls : call[c].from = b

\* setTwoFactorCookie
PendingCookies(b) == Cookie("pending", cookie[b].refresh, TRUE)

\* authenticate: a token that waits for the second factor is no session.
SignedIn(b) == cookie[b].access = "full"

\* verifyPendingToken on the cookie of a password login.
HasPending(b) == cookie[b].second

\* One route verifies codes: with a session it sets the second factor up.
VerifiesSetup(b) == SignedIn(b)

\* A browser sends a request.
Send(c, b, pc, for, t, code, rest) ==
  /\ call[c] = Rest
  /\ call' = [call EXCEPT ![c] = Call(pc, b, for, t, code, rest)]
  /\ troubled' = IF Busy(b) THEN troubled \cup {b} ELSE troubled

Go(c, pc) == call' = [call EXCEPT ![c] = Call(pc, call[c].from, call[c].for, call[c].token,
                                             call[c].code, call[c].rest)]
End(c) == call' = [call EXCEPT ![c] = Rest]

-----------------------------------------------------------------------------
\* signup

\* A business of this phone that was not deleted is refused at once (409).
SignUp(c, b) ==
  /\ account.tenant # "live"
  /\ Send(c, b, "tenant", "sign_in", 0, NoCode, {})
  /\ UNCHANGED <<serverVars, now, cookie, page, retired, holder, closed, broken>>

\* createTenant: the phone is unique among all businesses, deleted ones included.
CreateTenant(c) ==
  /\ In(c, "tenant")
  /\ IF account.tenant = "none"
     THEN /\ account' = Account("live", account.owner, account.subscribed)
          /\ Go(c, "user")
     ELSE /\ Go(c, "conflict")
          /\ UNCHANGED account
  /\ UNCHANGED <<hash, made, factor, now, cookie, page, ghostVars>>

CreateUser(c) ==
  /\ In(c, "user")
  /\ account' = Account(account.tenant, TRUE, account.subscribed)
  /\ Go(c, "subscribe")
  /\ UNCHANGED <<hash, made, factor, now, cookie, page, ghostVars>>

\* Mutant: the business stays when its owner could not be created.
WithoutOwnerKept(a) == a

\* softDeleteTenant, and the answer asks to retry (500).
WithoutOwner(a) == Account("deleted", a.owner, a.subscribed)

CreateUserFails(c) ==
  /\ In(c, "user")
  /\ account' = WithoutOwner(account)
  /\ End(c)
  /\ UNCHANGED <<hash, made, factor, now, cookie, page, ghostVars>>

\* Afterwards the membership and the active context of the phone are made (module
\* Chats); a failure of these is only logged.
CreateFreeSubscription(c) ==
  /\ In(c, "subscribe")
  /\ account' = Account(account.tenant, account.owner, TRUE)
  /\ Go(c, "issue")
  /\ UNCHANGED <<hash, made, factor, now, cookie, page, ghostVars>>

-----------------------------------------------------------------------------
\* login and its second factor

\* The password is right.  An enrolled owner gets a pending token and no session.
LogIn(c, b) ==
  /\ account.tenant = "live" /\ account.owner
  /\ Send(c, b, IF factor.on THEN "challenge" ELSE "issue", "sign_in", 0, NoCode, {})
  /\ UNCHANGED <<serverVars, now, cookie, page, retired, holder, closed, broken>>

\* setTwoFactorCookie; the page asks for the code.
Challenge(c) ==
  /\ In(c, "challenge")
  /\ LET b == call[c].from IN
       /\ cookie' = [cookie EXCEPT ![b] = PendingCookies(b)]
       /\ page' = [page EXCEPT ![b] = "two_factor_required"]
  /\ End(c)
  /\ UNCHANGED <<serverVars, now, ghostVars>>

\* A code is refused when the step recorded last is not before the current one.
UnusedStep(f) == f.last < now

\* verifyTotpForLogin reads the row; the code belongs to the current step.
VerifyTotp(c, b) ==
  /\ HasPending(b) /\ ~VerifiesSetup(b)
  /\ factor.on /\ factor.secret # 0
  /\ UnusedStep(factor)
  /\ Send(c, b, "mark", "sign_in", 0, <<"totp", factor.secret, now>>, {})
  /\ UNCHANGED <<serverVars, now, cookie, page, retired, holder, closed, broken>>

OthersUseNoCode(c) == \A d \in Calls \ {c} : call[d].pc \notin {"mark", "spend", "enable"}
Close(c) == closed' = IF OthersUseNoCode(c) THEN closed \cup {call[c].code} ELSE closed

\* markTotpStepUsed writes the step that was read, whatever the row says by now.
MarkTotpStepUsed(c) ==
  /\ In(c, "mark")
  /\ factor' = StepUsed(factor, call[c].code[3])
  /\ Go(c, "issue")
  /\ Close(c)
  /\ UNCHANGED <<account, hash, made, now, cookie, page, retired, holder, troubled, broken>>

\* Mutant: the code that was used is not marked.
WithoutKept(codes, code) == codes

\* The list with one code marked as used.
Without(codes, code) == codes \ {code}

\* verifyRecoveryCodeForLogin reads the list.
VerifyRecoveryCode(c, b, code) ==
  /\ HasPending(b)
  /\ factor.on
  /\ code \in factor.codes
  /\ Send(c, b, "spend", "sign_in", 0, code, Without(factor.codes, code))
  /\ UNCHANGED <<serverVars, now, cookie, page, retired, holder, closed, broken>>

\* updateRecoveryCodes writes the whole list as it was read.
UpdateRecoveryCodes(c) ==
  /\ In(c, "spend")
  /\ factor' = CodesLeft(factor, call[c].rest)
  /\ Go(c, "issue")
  /\ Close(c)
  /\ UNCHANGED <<account, hash, made, now, cookie, page, retired, holder, troubled, broken>>

-----------------------------------------------------------------------------
\* setupTotp, verifyTotpForSetup, disableTotp: with a full session

SetupTotp(b) ==
  /\ SignedIn(b)
  /\ factor.secrets < MaxSecrets
  /\ factor' = NewSecret(factor)
  /\ UNCHANGED <<account, hash, made, now, cookie, page, call, ghostVars>>

VerifyTotpForSetup(c, b) ==
  /\ VerifiesSetup(b)
  /\ factor.secret # 0
  /\ UnusedStep(factor)
  /\ Send(c, b, "enable", "page", 0, NoCode, {})
  /\ UNCHANGED <<serverVars, now, cookie, page, retired, holder, closed, broken>>

\* enableTotp: new recovery codes, and no step is recorded as used.
EnableTotp(c) ==
  /\ In(c, "enable")
  /\ factor.prints < MaxPrints
  /\ factor' = Enabled(factor)
  /\ End(c)
  /\ UNCHANGED <<account, hash, made, now, cookie, page, ghostVars>>

\* The owner gives the password again.
DisableTotp(b) ==
  /\ SignedIn(b)
  /\ factor.secret # 0
  /\ factor' = Disabled(factor)
  /\ UNCHANGED <<account, hash, made, now, cookie, page, call, ghostVars>>

-----------------------------------------------------------------------------
\* Tokens

\* The users row takes the hash of a token made just now, for browser b.
StoreToken(c, t, b) ==
  /\ hash' = t
  /\ retired' = IF hash # 0 /\ hash # t THEN retired \cup {hash} ELSE retired
  /\ holder' = b

\* issueFullSession
IssueFullSession(c) ==
  /\ In(c, "issue")
  /\ made < MaxTokens
  /\ made' = made + 1
  /\ StoreToken(c, made + 1, call[c].from)
  /\ call' = [call EXCEPT ![c] = Call("answer", call[c].from, call[c].for, made + 1, NoCode, {})]
  /\ UNCHANGED <<account, factor, now, cookie, page, troubled, closed, broken>>

\* A call was answered 401: the client sends the refresh cookie before it repeats the call.
\* The access token has expired, or a password or a recovery code was wrong.
RefreshSession(c, b, for) ==
  /\ for = "session" => cookie[b].access = "none" /\ page[b] \in {"checking", "authenticated"}
  /\ cookie[b].refresh # 0
  /\ Send(c, b, "refresh", for, cookie[b].refresh, NoCode, {})
  /\ UNCHANGED <<serverVars, now, cookie, page, retired, holder, closed, broken>>

\* findUserByRefreshTokenHash: the row has this hash and it has not expired.
Accepts(t) == hash = t

FindByRefreshToken(c) ==
  /\ In(c, "refresh")
  /\ Accepts(call[c].token)
  /\ Go(c, "rotate")
  /\ UNCHANGED <<serverVars, now, cookie, page, ghostVars>>

\* A page shows an error and stays; the check of the session itself clears it.
PageAfterError(c) ==
  IF call[c].for = "session" THEN [page EXCEPT ![call[c].from] = "unauthenticated"] ELSE page

\* The token is unknown (401).
Refused(c) ==
  /\ In(c, "refresh")
  /\ ~Accepts(call[c].token)
  /\ page' = PageAfterError(c)
  /\ End(c)
  /\ UNCHANGED <<serverVars, now, cookie, ghostVars>>

\* Mutant: the token is extended, not rotated.
NextTokenSame(c) == call[c].token

\* Each refresh makes a token with a new id.
NextToken(c) == made + 1

\* The second half of refreshTokens: the new hash is written by the user's id.
RotateToken(c) ==
  /\ In(c, "rotate")
  /\ made < MaxTokens
  /\ made' = made + 1
  /\ StoreToken(c, NextToken(c), call[c].from)
  /\ call' = [call EXCEPT ![c] = Call("answer", call[c].from, call[c].for, NextToken(c), NoCode, {})]
  /\ UNCHANGED <<account, factor, now, cookie, page, troubled, closed, broken>>

\* Mutant: the answer of a refresh leaves the refresh cookie as it was.
SessionCookiesKept(b, t) == Cookie("full", cookie[b].refresh, FALSE)

\* setSessionCookies
SessionCookies(b, t) == Cookie("full", t, FALSE)

\* Signing up, signing in and the code page enter; so does a session that was checked.
PageAfterAnswer(c) ==
  IF call[c].for = "page" THEN page ELSE [page EXCEPT ![call[c].from] = "authenticated"]

\* The answer arrives and its cookies replace the browser's.
Answer(c) ==
  /\ In(c, "answer")
  /\ LET b == call[c].from IN
       cookie' = [cookie EXCEPT ![b] = SessionCookies(b, call[c].token)]
  /\ page' = PageAfterAnswer(c)
  /\ End(c)
  /\ UNCHANGED <<serverVars, now, ghostVars>>

\* clearRefreshToken; the cookies are cleared.
LogOut(b) ==
  /\ SignedIn(b)
  /\ hash' = 0
  /\ retired' = IF hash # 0 THEN retired \cup {hash} ELSE retired
  /\ cookie' = [cookie EXCEPT ![b] = NoCookies]
  /\ troubled' = IF Busy(b) THEN troubled \cup {b} ELSE troubled
  /\ UNCHANGED <<account, made, factor, now, page, call, holder, closed, broken>>

-----------------------------------------------------------------------------
\* The browser on its own, time and failure

\* getSession is answered from the access cookie, which the server checks by itself;
\* without any cookie the refresh is refused as well.
CheckSession(b) ==
  /\ page[b] \in {"checking", "authenticated"}
  /\ cookie[b].access = "none" => cookie[b].refresh = 0
  /\ page' = [page EXCEPT ![b] = CASE cookie[b].access = "full"    -> "authenticated"
                                   [] cookie[b].access = "pending" -> "two_factor_required"
                                   [] cookie[b].access = "none"    -> "unauthenticated"]
  /\ UNCHANGED <<serverVars, now, cookie, call, ghostVars>>

Reload(b) ==
  /\ page' = [page EXCEPT ![b] = "checking"]
  /\ UNCHANGED <<serverVars, now, cookie, call, ghostVars>>

\* The cookies of an access or a pending token go with the token (15 or 5 minutes).
AccessExpires(b) ==
  /\ cookie[b].access # "none"
  /\ cookie' = [cookie EXCEPT ![b] = Cookie("none", cookie[b].refresh, FALSE)]
  /\ UNCHANGED <<serverVars, now, page, call, ghostVars>>

\* Seven days pass without a refresh.
RefreshExpires ==
  /\ hash # 0
  /\ hash' = 0
  /\ retired' = retired \cup {hash}
  /\ UNCHANGED <<account, made, factor, now, cookie, page, call, holder, troubled, closed, broken>>

StepPasses ==
  /\ now < MaxSteps
  /\ now' = now + 1
  /\ UNCHANGED <<serverVars, cookie, page, call, ghostVars>>

\* A request fails in the database, with the process or on the network, before or
\* after a transaction; a refused signup is shown.  No row is taken back.
CallFails(c) ==
  /\ call[c] # Rest
  /\ page' = PageAfterError(c)
  /\ troubled' = IF In(c, "answer") THEN troubled \cup {call[c].from} ELSE troubled
  /\ broken' = (broken \/ call[c].pc \in {"user", "subscribe"})
  /\ End(c)
  /\ UNCHANGED <<serverVars, now, cookie, retired, holder, closed>>

SessionsNext ==
  \/ \E c \in Calls, b \in Browsers :
       \/ SignUp(c, b) \/ LogIn(c, b) \/ VerifyTotp(c, b) \/ VerifyTotpForSetup(c, b)
       \/ \E code \in RecoveryCodes : VerifyRecoveryCode(c, b, code)
       \/ \E for \in {"page", "session"} : RefreshSession(c, b, for)
  \/ \E c \in Calls :
       \/ CreateTenant(c) \/ CreateUser(c) \/ CreateUserFails(c) \/ CreateFreeSubscription(c)
       \/ Challenge(c) \/ MarkTotpStepUsed(c) \/ UpdateRecoveryCodes(c) \/ EnableTotp(c)
       \/ IssueFullSession(c) \/ FindByRefreshToken(c) \/ Refused(c) \/ RotateToken(c)
       \/ Answer(c) \/ CallFails(c)
  \/ \E b \in Browsers :
       SetupTotp(b) \/ DisableTotp(b) \/ LogOut(b) \/ CheckSession(b) \/ Reload(b) \/ AccessExpires(b)
  \/ RefreshExpires
  \/ StepPasses

SessionsSpec == SessionsInit /\ [][SessionsNext]_sessionVars

-----------------------------------------------------------------------------
\* A refresh token that was replaced, cleared or overwritten is never accepted again,
\* in whatever order refreshes, logins and logouts of the account are committed.
Accepted(c) == ~In(c, "rotate") /\ call'[c].pc = "rotate"
NoneRetired == \A c \in Calls : Accepted(c) => call[c].token \notin retired
RotatedIsRejected == [][NoneRetired]_sessionVars

\* A browser that sends one request at a time and gets its answers stays signed in: the
\* token that was stored for it last is in its cookie or on its way to it.
SessionKept ==
  hash # 0 /\ holder \notin troubled =>
    \/ cookie[holder].refresh = hash
    \/ \E c \in Calls : In(c, "answer") /\ call[c].from = holder /\ call[c].token = hash

\* A code that completed a login while no other code was being used is used up: no list
\* has it, no request is about to write a list with it or to complete a login with it.
UsedCodeStaysUsed ==
  /\ closed \cap factor.codes = {}
  /\ \A c \in Calls : In(c, "spend") \/ In(c, "mark") =>
       call[c].code \notin closed /\ call[c].rest \cap closed = {}

\* A live business has its owner and its subscription, unless the signup that makes
\* them still runs or was cut short.
AccountIsWhole ==
  account.tenant = "live" /\ ~broken =>
    \/ account.owner /\ account.subscribed
    \/ \E c \in Calls : call[c].pc \in {"user", "subscribe"}

-----------------------------------------------------------------------------
(* The inductive invariants behind them                                    *)

\* A request on its way has a browser; one that uses a code up has read it.
CallsCarry ==
  \A c \in Calls :
    /\ call[c].pc # "idle" => call[c].from \in Browsers
    /\ In(c, "mark") => call[c].code \in OneTimeCodes /\ call[c].rest = {}
    /\ In(c, "spend") => call[c].code \in RecoveryCodes \ call[c].rest

WellFormed == SessionTypeOK /\ CallsCarry

\* Every token stored so far was made before, and the stored one is not a retired one.
TokensAreFresh == hash \in 0..made /\ retired \subseteq (1..made) \ {hash}

\* A browser without trouble has one request at a time, and if that one is about to
\* be answered, its token is the stored one unless another browser's came after it.
OneAtATime ==
  \A c, d \in Calls :
    call[c].from = call[d].from /\ call[c].from \in Browsers \ troubled => c = d

AnswersAreStored ==
  \A c \in Calls :
    In(c, "answer") /\ hash # 0 /\ holder = call[c].from /\ holder \notin troubled =>
      call[c].token = hash

TokenIInv ==
  /\ TokensAreFresh /\ OneAtATime /\ AnswersAreStored /\ SessionKept
  /\ hash # 0 => holder \in Browsers

\* The subscription is made for the owner that was made before.
AccountIInv ==
  AccountIsWhole /\ \A c \in Calls : In(c, "subscribe") => account.owner

\* Codes that were used up or are being used are of a list or a secret made so far.
Known(code) ==
  /\ code \in RecoveryCodes => code[2] <= factor.prints
  /\ code \in OneTimeCodes => code[2] <= factor.secrets

CodesAreKnown ==
  /\ factor.secret <= factor.secrets
  /\ \A code \in closed \cup factor.codes : Known(code)
  /\ \A c \in Calls : In(c, "spend") \/ In(c, "mark") =>
       Known(call[c].code) /\ \A code \in call[c].rest : Known(code)

\* The closed steps of the current secret are over or recorded; they are over for a
\* request that is about to turn the factor on, which forgets the recorded step, and
\* before the step that a request is about to record.
ClosedSteps == {code[3] : code \in {x \in closed \cap OneTimeCodes : x[2] = factor.secret}}

StepsAreOver ==
  \A step \in ClosedSteps :
    /\ step < now \/ step <= factor.last
    /\ \A c \in Calls : In(c, "enable") => step < now
    /\ \A c \in Calls : In(c, "mark") => step <= call[c].code[3]

CodeIInv == UsedCodeStaysUsed /\ CodesAreKnown /\ StepsAreOver

SessionsIInv == WellFormed /\ TokenIInv /\ AccountIInv /\ CodeIInv

=============================================================================
