--------------------------- MODULE SessionsProofs ---------------------------
(***************************************************************************)
(* Proofs about module Sessions: for any number of browsers, concurrent    *)
(* requests, tokens, secrets and recovery codes, a retired refresh token   *)
(* is never accepted, a browser that sends one request at a time stays     *)
(* signed in, a used code stays used, and no signup leaves half a business *)
(* unless it was cut short.                                                *)
(*                                                                         *)
(* Three invariants that know nothing of each other are carried together,  *)
(* one lemma per action: tokens (fresh ones replace the stored one, and an *)
(* answer of an untroubled browser brings the stored one), the account     *)
(* (who subscribes has an owner), and codes (what was closed is of an old  *)
(* list or an old step for every request that is about to write one).      *)
(***************************************************************************)
EXTENDS Sessions, TLAPS

USE BrowserAssumption, SessionBounds

-----------------------------------------------------------------------------
(* Well-formed rows and requests                                           *)

Codes == {NoCode} \cup RecoveryCodes \cup OneTimeCodes
Purposes == {"page", "session", "sign_in"}

\* What the invariant says of the calls alone.
CallType == call \in [Calls -> CallStates] /\ CallsCarry

Well(pc, b, for, t, code, rest) ==
  /\ pc \in Pcs /\ b \in Browsers \cup {NoBrowser} /\ for \in Purposes
  /\ t \in 0..MaxTokens /\ code \in Codes /\ rest \in SUBSET RecoveryCodes
  /\ pc # "idle" => b \in Browsers
  /\ pc = "mark" => code \in OneTimeCodes /\ rest = {}
  /\ pc = "spend" => code \in RecoveryCodes \ rest

\* One request changes and the others stay.
Only(c, pc, b, for, t, code, rest) ==
  /\ call'[c].pc = pc /\ call'[c].from = b /\ call'[c].for = for /\ call'[c].token = t
  /\ call'[c].code = code /\ call'[c].rest = rest
  /\ \A d \in Calls \ {c} : call'[d] = call[d]

LEMMA Moved ==
  ASSUME CallType, NEW c \in Calls, NEW pc, NEW b, NEW for, NEW t, NEW code, NEW rest,
         Well(pc, b, for, t, code, rest),
         call' = [call EXCEPT ![c] = Call(pc, b, for, t, code, rest)]
  PROVE  CallType' /\ Only(c, pc, b, for, t, code, rest)
<1> DEFINE q == Call(pc, b, for, t, code, rest)
<1>1. q \in CallStates
  BY DEF Well, Call, CallStates, Codes, Purposes
<1>2. /\ q.pc = pc /\ q.from = b /\ q.for = for /\ q.token = t /\ q.code = code /\ q.rest = rest
  BY DEF Call
<1>3. call' = [call EXCEPT ![c] = q] /\ call \in [Calls -> CallStates]
  BY DEF CallType
<1> HIDE DEF q
<1>4. call' \in [Calls -> CallStates] /\ call'[c] = q /\ \A d \in Calls \ {c} : call'[d] = call[d]
  BY <1>1, <1>3
<1>5. CallsCarry'
  <2> SUFFICES ASSUME NEW d \in Calls
               PROVE  /\ call'[d].pc # "idle" => call'[d].from \in Browsers
                      /\ call'[d].pc = "mark" => call'[d].code \in OneTimeCodes /\ call'[d].rest = {}
                      /\ call'[d].pc = "spend" => call'[d].code \in RecoveryCodes \ call'[d].rest
    BY DEF CallsCarry, In
  <2>1. CASE d = c
    BY <1>2, <1>4, <2>1 DEF Well
  <2>2. CASE d # c
    BY <1>4, <2>2 DEF CallType, CallsCarry, In
  <2> QED BY <2>1, <2>2
<1> QED BY <1>2, <1>4, <1>5 DEF CallType, Only

LEMMA OneCall ==
  ASSUME CallType, NEW c \in Calls
  PROVE  /\ call[c].pc \in Pcs /\ call[c].from \in Browsers \cup {NoBrowser}
         /\ call[c].for \in Purposes /\ call[c].token \in 0..MaxTokens
         /\ call[c].code \in Codes /\ call[c].rest \in SUBSET RecoveryCodes
         /\ call[c].pc # "idle" => call[c].from \in Browsers
         /\ call[c].pc = "mark" => call[c].code \in OneTimeCodes /\ call[c].rest = {}
         /\ call[c].pc = "spend" => call[c].code \in RecoveryCodes \ call[c].rest
BY DEF CallType, CallStates, CallsCarry, In, Codes, Purposes

\* The three ways a request moves.
LEMMA Sent ==
  ASSUME CallType, NEW c \in Calls, NEW b \in Browsers, NEW pc \in Pcs, NEW for \in Purposes,
         NEW t \in 0..MaxTokens, NEW code \in Codes, NEW rest \in SUBSET RecoveryCodes,
         pc = "mark" => code \in OneTimeCodes /\ rest = {},
         pc = "spend" => code \in RecoveryCodes \ rest,
         Send(c, b, pc, for, t, code, rest)
  PROVE  /\ CallType' /\ Only(c, pc, b, for, t, code, rest)
         /\ call[c].pc = "idle" /\ call[c].from = NoBrowser
         /\ troubled' = IF Busy(b) THEN troubled \cup {b} ELSE troubled
<1>1. Well(pc, b, for, t, code, rest)
  BY DEF Well
<1>2. call' = [call EXCEPT ![c] = Call(pc, b, for, t, code, rest)]
  BY DEF Send
<1>3. call[c].pc = "idle" /\ call[c].from = NoBrowser
  BY DEF Send, Rest, Call
<1> QED BY <1>1, <1>2, <1>3, Moved DEF Send

LEMMA Gone ==
  ASSUME CallType, NEW c \in Calls, NEW pc \in Pcs \ {"mark", "spend"}, Go(c, pc),
         call[c].pc # "idle"
  PROVE  /\ CallType'
         /\ Only(c, pc, call[c].from, call[c].for, call[c].token, call[c].code, call[c].rest)
<1>1. Well(pc, call[c].from, call[c].for, call[c].token, call[c].code, call[c].rest)
  BY OneCall DEF Well
<1>2. call' = [call EXCEPT ![c] = Call(pc, call[c].from, call[c].for, call[c].token,
                                       call[c].code, call[c].rest)]
  BY DEF Go
<1> QED BY <1>1, <1>2, Moved

LEMMA Ended ==
  ASSUME CallType, NEW c \in Calls, End(c)
  PROVE  CallType' /\ Only(c, "idle", NoBrowser, "page", 0, NoCode, {})
<1>1. Well("idle", NoBrowser, "page", 0, NoCode, {})
  BY DEF Well, Pcs, Purposes, Codes
<1>2. call' = [call EXCEPT ![c] = Call("idle", NoBrowser, "page", 0, NoCode, {})]
  BY DEF End, Rest
<1> QED BY <1>1, <1>2, Moved

\* The updates of the users row keep it well formed.
LEMMA FactorsTyped ==
  ASSUME NEW f \in Factors
  PROVE  /\ f.secrets < MaxSecrets => NewSecret(f) \in Factors
         /\ \A step \in 0..MaxSteps : StepUsed(f, step) \in Factors
         /\ \A codes \in SUBSET RecoveryCodes : CodesLeft(f, codes) \in Factors
         /\ f.prints < MaxPrints => Enabled(f) \in Factors
         /\ Disabled(f) \in Factors
<1>1. /\ f.on \in BOOLEAN /\ f.secret \in 0..MaxSecrets /\ f.secrets \in 0..MaxSecrets
      /\ f.last \in 0..MaxSteps /\ f.codes \in SUBSET RecoveryCodes /\ f.prints \in 0..MaxPrints
  BY DEF Factors
<1>2. ASSUME f.secrets < MaxSecrets PROVE NewSecret(f) \in Factors
  <2>1. f.secrets + 1 \in 0..MaxSecrets /\ 0 \in 0..MaxSteps /\ {} \in SUBSET RecoveryCodes
    BY <1>1, <1>2
  <2> QED BY <1>1, <2>1 DEF NewSecret, Factor, Factors
<1>3. ASSUME NEW step \in 0..MaxSteps PROVE StepUsed(f, step) \in Factors
  BY <1>1 DEF StepUsed, Factor, Factors
<1>4. ASSUME NEW codes \in SUBSET RecoveryCodes PROVE CodesLeft(f, codes) \in Factors
  BY <1>1 DEF CodesLeft, Factor, Factors
<1>5. ASSUME f.prints < MaxPrints PROVE Enabled(f) \in Factors
  <2>1. f.prints + 1 \in 1..MaxPrints /\ f.prints + 1 \in 0..MaxPrints /\ 0 \in 0..MaxSteps
    BY <1>1, <1>5
  <2>2. {"recovery"} \X {f.prints + 1} \X (1..CodesPerList) \in SUBSET RecoveryCodes
    BY <2>1 DEF RecoveryCodes
  <2> QED BY <1>1, <2>1, <2>2 DEF Enabled, Factor, Factors
<1>6. Disabled(f) \in Factors
  <2>1. 0 \in 0..MaxSteps /\ 0 \in 0..MaxSecrets /\ {} \in SUBSET RecoveryCodes
    OBVIOUS
  <2> QED BY <1>1, <2>1 DEF Disabled, Factor, Factors
<1> QED BY <1>2, <1>3, <1>4, <1>5, <1>6

-----------------------------------------------------------------------------
(* What each invariant needs of a step                                     *)

RowsType ==
  /\ account \in Accounts
  /\ hash \in 0..MaxTokens
  /\ made \in 0..MaxTokens
  /\ factor \in Factors
  /\ now \in 1..MaxSteps
  /\ cookie \in [Browsers -> Cookies]
  /\ page \in [Browsers -> Statuses]
  /\ retired \subseteq 1..MaxTokens
  /\ holder \in Browsers \cup {NoBrowser}
  /\ troubled \subseteq Browsers
  /\ closed \subseteq RecoveryCodes \cup OneTimeCodes
  /\ broken \in BOOLEAN

LEMMA TypeParts == WellFormed <=> RowsType /\ CallType
BY DEF WellFormed, SessionTypeOK, RowsType, CallType

LEMMA TypePartsNext == WellFormed' <=> RowsType' /\ CallType'
BY DEF WellFormed, SessionTypeOK, RowsType, CallType

LEMMA NothingAccepted ==
  ASSUME \A d \in Calls : call'[d].pc = "rotate" => call[d].pc = "rotate"
  PROVE  NoneRetired
BY DEF NoneRetired, Accepted, In

LEMMA OneSent ==
  ASSUME OneAtATime, NEW c \in Calls, NEW b \in Browsers,
         call[c].from = NoBrowser, call'[c].from = b,
         \A d \in Calls \ {c} : call'[d] = call[d],
         troubled' = IF Busy(b) THEN troubled \cup {b} ELSE troubled
  PROVE  OneAtATime'
BY DEF OneAtATime, Busy

LEMMA OneLeft ==
  ASSUME OneAtATime, NEW c \in Calls, call'[c].from \in {call[c].from, NoBrowser},
         \A d \in Calls \ {c} : call'[d] = call[d],
         troubled \subseteq troubled'
  PROVE  OneAtATime'
BY DEF OneAtATime

LEMMA OneStays ==
  ASSUME OneAtATime, call' = call, troubled \subseteq troubled'
  PROVE  OneAtATime'
BY DEF OneAtATime

\* Tokens: nothing is stored, no cookie of a refresh token changes and no answer is made.
LEMMA TokensStay ==
  ASSUME TokenIInv, OneAtATime', hash' = hash, made' = made, retired' = retired, holder' = holder,
         \A b \in Browsers : cookie'[b].refresh = cookie[b].refresh, troubled \subseteq troubled',
         \A d \in Calls :
           call'[d] = call[d] \/ (call[d].pc # "answer" /\ call'[d].pc # "answer")
  PROVE  TokenIInv'
<1>1. TokensAreFresh'
  BY DEF TokenIInv, TokensAreFresh
<1>2. AnswersAreStored'
  BY DEF TokenIInv, AnswersAreStored, In
<1>3. SessionKept'
  BY DEF TokenIInv, SessionKept, In
<1> QED BY <1>1, <1>2, <1>3 DEF TokenIInv

LEMMA AccountStays ==
  ASSUME AccountIInv, account' = account, broken => broken',
         \A d \in Calls : \/ call'[d].pc = call[d].pc
                          \/ /\ call[d].pc \notin {"user", "subscribe"}
                             /\ call'[d].pc \notin {"user", "subscribe"}
  PROVE  AccountIInv'
BY DEF AccountIInv, AccountIsWhole, In

LEMMA CodesStay ==
  ASSUME RowsType, RowsType', CodeIInv, factor' = factor, closed' = closed, now' >= now,
         \A d \in Calls :
           call'[d] = call[d] \/ call'[d].pc \notin {"mark", "spend", "enable"}
  PROVE  CodeIInv'
<1>1. UsedCodeStaysUsed'
  BY DEF CodeIInv, UsedCodeStaysUsed, In
<1>2. CodesAreKnown'
  BY DEF CodeIInv, CodesAreKnown, Known, In
<1>3. StepsAreOver'
  <2>1. ClosedSteps' = ClosedSteps
    BY DEF ClosedSteps
  <2>2. ClosedSteps \subseteq Int /\ now \in Int /\ now' \in Int
    <3>1. ClosedSteps \subseteq 1..MaxSteps
      BY DEF ClosedSteps, OneTimeCodes
    <3> QED BY <3>1 DEF RowsType
  <2>3. SUFFICES ASSUME NEW step \in ClosedSteps
                 PROVE  /\ step < now' \/ step <= factor.last
                        /\ \A c \in Calls : call'[c].pc = "enable" => step < now'
                        /\ \A c \in Calls : call'[c].pc = "mark" => step <= call'[c].code[3]
    BY <2>1 DEF StepsAreOver, In
  <2>4. /\ step < now \/ step <= factor.last
        /\ \A c \in Calls : call[c].pc = "enable" => step < now
        /\ \A c \in Calls : call[c].pc = "mark" => step <= call[c].code[3]
    BY DEF CodeIInv, StepsAreOver, In
  <2>5. step < now => step < now'
    BY <2>2
  <2> QED BY <2>4, <2>5
<1> QED BY <1>1, <1>2, <1>3 DEF CodeIInv

-----------------------------------------------------------------------------
(* Requests that are sent                                                  *)

LEMMA SendSound ==
  ASSUME SessionsIInv, NEW c \in Calls, NEW b \in Browsers,
         NEW pc \in Pcs \ {"idle", "user", "subscribe", "rotate", "answer"},
         NEW for, NEW t, NEW code, NEW rest,
         CallType', Only(c, pc, b, for, t, code, rest),
         call[c].pc = "idle", call[c].from = NoBrowser,
         troubled' = IF Busy(b) THEN troubled \cup {b} ELSE troubled,
         UNCHANGED <<serverVars, now, cookie, page, retired, holder, closed, broken>>,
         pc \in {"mark", "spend", "enable"} => CodeIInv'
  PROVE  SessionsIInv' /\ NoneRetired
<1>1. /\ RowsType /\ CallType /\ TokenIInv /\ AccountIInv /\ CodeIInv
  BY TypeParts DEF SessionsIInv
<1>2. /\ account' = account /\ hash' = hash /\ made' = made /\ factor' = factor /\ now' = now
      /\ cookie' = cookie /\ page' = page /\ retired' = retired /\ holder' = holder
      /\ closed' = closed /\ broken' = broken
  BY DEF serverVars
<1>3. call'[c].pc = pc /\ call'[c].from = b /\ \A d \in Calls \ {c} : call'[d] = call[d]
  BY DEF Only
<1>4. RowsType'
  BY <1>1, <1>2 DEF RowsType
<1>5. OneAtATime'
  BY <1>1, <1>3, OneSent DEF TokenIInv
<1>6. TokenIInv'
  BY <1>1, <1>2, <1>3, <1>5, TokensStay
<1>7. AccountIInv'
  BY <1>1, <1>2, <1>3, AccountStays
<1>8. CodeIInv'
  <2>1. CASE pc \notin {"mark", "spend", "enable"}
    <3>1. now' >= now
      BY <1>1, <1>2 DEF RowsType
    <3> QED BY <1>1, <1>2, <1>3, <1>4, <2>1, <3>1, CodesStay
  <2> QED BY <2>1
<1>9. NoneRetired
  BY <1>3, NothingAccepted
<1> QED BY <1>4, <1>6, <1>7, <1>8, <1>9, TypePartsNext DEF SessionsIInv

\* Requests that carry no code.
LEMMA RequestSound ==
  ASSUME SessionsIInv, NEW c \in Calls, NEW b \in Browsers,
         NEW pc \in {"tenant", "challenge", "issue", "refresh"}, NEW for \in Purposes,
         NEW t \in 0..MaxTokens, Send(c, b, pc, for, t, NoCode, {}),
         UNCHANGED <<serverVars, now, cookie, page, retired, holder, closed, broken>>
  PROVE  SessionsIInv' /\ NoneRetired
<1>1. CallType
  BY TypeParts DEF SessionsIInv
<1>2. pc \in Pcs /\ NoCode \in Codes /\ {} \in SUBSET RecoveryCodes
  BY DEF Pcs, Codes
<1>3. /\ CallType' /\ Only(c, pc, b, for, t, NoCode, {})
      /\ call[c].pc = "idle" /\ call[c].from = NoBrowser
      /\ troubled' = IF Busy(b) THEN troubled \cup {b} ELSE troubled
  BY <1>1, <1>2, Sent
<1> QED BY <1>2, <1>3, SendSound

LEMMA SignUpSound ==
  ASSUME SessionsIInv, NEW c \in Calls, NEW b \in Browsers, SignUp(c, b)
  PROVE  SessionsIInv' /\ NoneRetired
<1>1. "sign_in" \in Purposes /\ 0 \in 0..MaxTokens
  BY DEF Purposes
<1> QED BY <1>1, RequestSound DEF SignUp

LEMMA LogInSound ==
  ASSUME SessionsIInv, NEW c \in Calls, NEW b \in Browsers, LogIn(c, b)
  PROVE  SessionsIInv' /\ NoneRetired
<1>1. "sign_in" \in Purposes /\ 0 \in 0..MaxTokens
  BY DEF Purposes
<1> DEFINE pc == IF factor.on THEN "challenge" ELSE "issue"
<1>2. pc \in {"tenant", "challenge", "issue", "refresh"}
  OBVIOUS
<1>3. /\ Send(c, b, pc, "sign_in", 0, NoCode, {})
      /\ UNCHANGED <<serverVars, now, cookie, page, retired, holder, closed, broken>>
  BY DEF LogIn
<1> HIDE DEF pc
<1> QED BY <1>1, <1>2, <1>3, RequestSound

LEMMA RefreshSound ==
  ASSUME SessionsIInv, NEW c \in Calls, NEW b \in Browsers, NEW for \in {"page", "session"},
         RefreshSession(c, b, for)
  PROVE  SessionsIInv' /\ NoneRetired
<1>1. for \in Purposes /\ cookie[b].refresh \in 0..MaxTokens
  BY TypeParts DEF Purposes, SessionsIInv, RowsType, Cookies
<1> QED BY <1>1, RequestSound DEF RefreshSession

\* A code is read when no closed step is the current one.
LEMMA VerifyTotpSound ==
  ASSUME SessionsIInv, NEW c \in Calls, NEW b \in Browsers, VerifyTotp(c, b)
  PROVE  SessionsIInv' /\ NoneRetired
<1> DEFINE code == <<"totp", factor.secret, now>>
<1>1. RowsType /\ CallType /\ CodeIInv
  BY TypeParts DEF SessionsIInv
<1>2. factor.secret \in 1..MaxSecrets /\ now \in 1..MaxSteps /\ factor.last < now
      /\ factor.last \in Int
  BY <1>1 DEF VerifyTotp, RowsType, Factors, UnusedStep
<1>3. code \in OneTimeCodes /\ code \notin RecoveryCodes /\ code \in Codes
  BY <1>2 DEF OneTimeCodes, RecoveryCodes, Codes
<1>4. /\ CallType' /\ Only(c, "mark", b, "sign_in", 0, code, {})
      /\ call[c].pc = "idle" /\ call[c].from = NoBrowser
      /\ troubled' = IF Busy(b) THEN troubled \cup {b} ELSE troubled
  <2>1. Send(c, b, "mark", "sign_in", 0, code, {})
    BY DEF VerifyTotp
  <2>2. "mark" \in Pcs /\ "sign_in" \in Purposes /\ 0 \in 0..MaxTokens
        /\ {} \in SUBSET RecoveryCodes
    BY DEF Pcs, Purposes
  <2> HIDE DEF code
  <2> QED BY <1>1, <1>3, <2>1, <2>2, Sent
<1>5. /\ factor' = factor /\ closed' = closed /\ now' = now
  BY DEF VerifyTotp, serverVars
<1>6. \A step \in ClosedSteps : step < now /\ step \in Int
  <2> TAKE step \in ClosedSteps
  <2>1. step \in Int
    BY DEF ClosedSteps, OneTimeCodes
  <2>2. step < now \/ step <= factor.last
    BY <1>1 DEF CodeIInv, StepsAreOver
  <2> QED BY <1>2, <2>1, <2>2
<1>7. code \notin closed
  <2> SUFFICES ASSUME code \in closed PROVE FALSE
    OBVIOUS
  <2>1. code[3] \in ClosedSteps
    BY <1>3 DEF ClosedSteps
  <2> QED BY <1>2, <1>6, <2>1
<1>8. Known(code)
  BY <1>1, <1>3 DEF Known, CodeIInv, CodesAreKnown
<1>9. code[3] = now
  OBVIOUS
<1> HIDE DEF code
<1>10. /\ call'[c].pc = "mark" /\ call'[c].code = code /\ call'[c].rest = {}
       /\ \A d \in Calls \ {c} : call'[d] = call[d]
  BY <1>4 DEF Only
<1>11. UsedCodeStaysUsed'
  BY <1>1, <1>5, <1>7, <1>10 DEF CodeIInv, UsedCodeStaysUsed, In
<1>12. CodesAreKnown'
  BY <1>1, <1>5, <1>8, <1>10 DEF CodeIInv, CodesAreKnown, In, Known
<1>13. StepsAreOver'
  <2>1. ClosedSteps' = ClosedSteps
    BY <1>5 DEF ClosedSteps
  <2> QED BY <1>1, <1>2, <1>5, <1>6, <1>9, <1>10, <2>1 DEF CodeIInv, StepsAreOver, In
<1>14. CodeIInv'
  BY <1>11, <1>12, <1>13 DEF CodeIInv
<1>15. "mark" \in Pcs
  BY DEF Pcs
<1>16. UNCHANGED <<serverVars, now, cookie, page, retired, holder, closed, broken>>
  BY DEF VerifyTotp
<1> QED BY <1>4, <1>14, <1>15, <1>16, SendSound

LEMMA VerifyRecoverySound ==
  ASSUME SessionsIInv, NEW c \in Calls, NEW b \in Browsers, NEW code \in RecoveryCodes,
         VerifyRecoveryCode(c, b, code)
  PROVE  SessionsIInv' /\ NoneRetired
<1>1. RowsType /\ CallType /\ CodeIInv
  BY TypeParts DEF SessionsIInv
<1> DEFINE rest == factor.codes \ {code}
<1>2. code \in factor.codes /\ rest \in SUBSET RecoveryCodes /\ rest \subseteq factor.codes
      /\ code \in RecoveryCodes \ rest
  BY <1>1 DEF VerifyRecoveryCode, RowsType, Factors
<1>3. Send(c, b, "spend", "sign_in", 0, code, rest)
  BY DEF VerifyRecoveryCode, Without
<1>4. PICK r : r = rest
  OBVIOUS
<1>5. "spend" \in Pcs /\ "sign_in" \in Purposes /\ 0 \in 0..MaxTokens /\ code \in Codes
  BY DEF Pcs, Purposes, Codes
<1> HIDE DEF rest
<1>6. /\ CallType' /\ Only(c, "spend", b, "sign_in", 0, code, r)
      /\ call[c].pc = "idle" /\ call[c].from = NoBrowser
      /\ troubled' = IF Busy(b) THEN troubled \cup {b} ELSE troubled
  BY <1>1, <1>2, <1>3, <1>4, <1>5, Sent
<1>7. /\ factor' = factor /\ closed' = closed /\ now' = now
  BY DEF VerifyRecoveryCode, serverVars
<1>8. /\ call'[c].pc = "spend" /\ call'[c].code = code /\ call'[c].rest = r
      /\ \A d \in Calls \ {c} : call'[d] = call[d]
  BY <1>6 DEF Only
<1>9. code \notin closed /\ r \cap closed = {}
  BY <1>1, <1>2, <1>4 DEF CodeIInv, UsedCodeStaysUsed
<1>10. UsedCodeStaysUsed'
  BY <1>1, <1>7, <1>8, <1>9 DEF CodeIInv, UsedCodeStaysUsed, In
<1>11. Known(code) /\ \A x \in r : Known(x)
  BY <1>1, <1>2, <1>4 DEF CodeIInv, CodesAreKnown
<1>12. CodesAreKnown'
  BY <1>1, <1>7, <1>8, <1>11 DEF CodeIInv, CodesAreKnown, In, Known
<1>13. StepsAreOver'
  <2>1. ClosedSteps' = ClosedSteps
    BY <1>7 DEF ClosedSteps
  <2> QED BY <1>1, <1>7, <1>8, <2>1 DEF CodeIInv, StepsAreOver, In
<1>14. CodeIInv'
  BY <1>10, <1>12, <1>13 DEF CodeIInv
<1>15. UNCHANGED <<serverVars, now, cookie, page, retired, holder, closed, broken>>
  BY DEF VerifyRecoveryCode
<1> QED BY <1>5, <1>6, <1>14, <1>15, SendSound

\* The factor is set up again only after the step that was recorded.
LEMMA VerifySetupSound ==
  ASSUME SessionsIInv, NEW c \in Calls, NEW b \in Browsers, VerifyTotpForSetup(c, b)
  PROVE  SessionsIInv' /\ NoneRetired
<1>1. RowsType /\ CallType /\ CodeIInv
  BY TypeParts DEF SessionsIInv
<1>2. Send(c, b, "enable", "page", 0, NoCode, {}) /\ factor.last < now
  BY DEF VerifyTotpForSetup, UnusedStep
<1>3. "enable" \in Pcs /\ "page" \in Purposes /\ 0 \in 0..MaxTokens /\ NoCode \in Codes
      /\ {} \in SUBSET RecoveryCodes
  BY DEF Pcs, Purposes, Codes
<1>4. /\ CallType' /\ Only(c, "enable", b, "page", 0, NoCode, {})
      /\ call[c].pc = "idle" /\ call[c].from = NoBrowser
      /\ troubled' = IF Busy(b) THEN troubled \cup {b} ELSE troubled
  BY <1>1, <1>2, <1>3, Sent
<1>5. /\ factor' = factor /\ closed' = closed /\ now' = now
  BY DEF VerifyTotpForSetup, serverVars
<1>6. call'[c].pc = "enable" /\ \A d \in Calls \ {c} : call'[d] = call[d]
  BY <1>4 DEF Only
<1>7. UsedCodeStaysUsed'
  BY <1>1, <1>5, <1>6 DEF CodeIInv, UsedCodeStaysUsed, In
<1>8. CodesAreKnown'
  BY <1>1, <1>5, <1>6 DEF CodeIInv, CodesAreKnown, In, Known
<1>9. \A step \in ClosedSteps : step < now
  <2> TAKE step \in ClosedSteps
  <2>1. step \in Int /\ now \in Int /\ factor.last \in Int
    BY <1>1 DEF ClosedSteps, OneTimeCodes, RowsType, Factors
  <2>2. step < now \/ step <= factor.last
    BY <1>1 DEF CodeIInv, StepsAreOver
  <2> QED BY <1>2, <2>1, <2>2
<1>10. StepsAreOver'
  <2>1. ClosedSteps' = ClosedSteps
    BY <1>5 DEF ClosedSteps
  <2> QED BY <1>1, <1>5, <1>6, <1>9, <2>1 DEF CodeIInv, StepsAreOver, In
<1>11. CodeIInv'
  BY <1>7, <1>8, <1>10 DEF CodeIInv
<1>12. UNCHANGED <<serverVars, now, cookie, page, retired, holder, closed, broken>>
  BY DEF VerifyTotpForSetup
<1> QED BY <1>3, <1>4, <1>11, <1>12, SendSound

-----------------------------------------------------------------------------
(* Requests that move on without tokens and codes                          *)

LEMMA PlainSound ==
  ASSUME SessionsIInv, RowsType', CallType', AccountIInv', NEW c \in Calls,
         call[c].pc # "answer", call'[c].pc \notin {"answer", "mark", "spend", "enable"},
         call'[c].from \in {call[c].from, NoBrowser},
         \A d \in Calls \ {c} : call'[d] = call[d],
         hash' = hash, made' = made, retired' = retired, holder' = holder,
         factor' = factor, closed' = closed, now' = now, troubled' = troubled,
         \A b \in Browsers : cookie'[b].refresh = cookie[b].refresh
  PROVE  SessionsIInv'
<1>1. RowsType /\ TokenIInv /\ CodeIInv
  BY TypeParts DEF SessionsIInv
<1>2. OneAtATime'
  BY <1>1, OneLeft DEF TokenIInv
<1>3. TokenIInv'
  BY <1>1, <1>2, TokensStay
<1>4. now' >= now
  BY <1>1 DEF RowsType
<1>5. CodeIInv'
  BY <1>1, <1>4, CodesStay
<1> QED BY <1>3, <1>5, TypePartsNext DEF SessionsIInv

\* The steps of signing up.
LEMMA SignUpStep ==
  ASSUME SessionsIInv, NEW c \in Calls, account' \in Accounts, AccountIInv', CallType',
         call[c].pc \in {"tenant", "user", "subscribe"},
         call'[c].pc \in {"user", "conflict", "subscribe", "issue", "idle"},
         call'[c].from \in {call[c].from, NoBrowser},
         \A d \in Calls \ {c} : call'[d] = call[d],
         UNCHANGED <<hash, made, factor, now, cookie, page, ghostVars>>
  PROVE  SessionsIInv' /\ NoneRetired
<1>1. /\ hash' = hash /\ made' = made /\ retired' = retired /\ holder' = holder
      /\ factor' = factor /\ closed' = closed /\ now' = now /\ troubled' = troubled
      /\ cookie' = cookie /\ page' = page /\ broken' = broken
  BY DEF ghostVars
<1>2. RowsType
  BY TypeParts DEF SessionsIInv
<1>3. RowsType'
  BY <1>1, <1>2 DEF RowsType
<1>4. SessionsIInv'
  BY <1>1, <1>3, PlainSound
<1>5. NoneRetired
  BY NothingAccepted
<1> QED BY <1>4, <1>5

LEMMA AccountParts ==
  ASSUME RowsType
  PROVE  /\ account.tenant \in {"none", "live", "deleted"} /\ account.owner \in BOOLEAN
         /\ account.subscribed \in BOOLEAN
         /\ \A t \in {"none", "live", "deleted"}, o, s \in BOOLEAN :
              /\ Account(t, o, s) \in Accounts
              /\ Account(t, o, s).tenant = t /\ Account(t, o, s).owner = o
              /\ Account(t, o, s).subscribed = s
BY DEF RowsType, Accounts, Account

LEMMA CreateTenantSound ==
  ASSUME SessionsIInv, NEW c \in Calls, CreateTenant(c)
  PROVE  SessionsIInv' /\ NoneRetired
<1>1. RowsType /\ CallType /\ AccountIInv /\ call[c].pc = "tenant"
  BY TypeParts DEF SessionsIInv, CreateTenant, In
<1>2. UNCHANGED <<hash, made, factor, now, cookie, page, ghostVars>> /\ broken' = broken
  BY DEF CreateTenant, ghostVars
<1>3. "user" \in Pcs \ {"mark", "spend"} /\ "conflict" \in Pcs \ {"mark", "spend"}
  BY DEF Pcs
<1>4. CASE account.tenant = "none"
  <2>1. account' = Account("live", account.owner, account.subscribed) /\ Go(c, "user")
    BY <1>4 DEF CreateTenant
  <2>2. /\ CallType' /\ call'[c].pc = "user" /\ call'[c].from = call[c].from
        /\ \A d \in Calls \ {c} : call'[d] = call[d]
    BY <1>1, <1>3, <2>1, Gone DEF Only
  <2>3. account' \in Accounts /\ account'.owner = account.owner
    BY <1>1, <2>1, AccountParts
  <2>4. AccountIInv'
    BY <1>1, <2>2, <2>3 DEF AccountIInv, AccountIsWhole, In
  <2> QED BY <1>1, <1>2, <2>2, <2>3, <2>4, SignUpStep
<1>5. CASE account.tenant # "none"
  <2>1. account' = account /\ Go(c, "conflict")
    BY <1>5 DEF CreateTenant
  <2>2. /\ CallType' /\ call'[c].pc = "conflict" /\ call'[c].from = call[c].from
        /\ \A d \in Calls \ {c} : call'[d] = call[d]
    BY <1>1, <1>3, <2>1, Gone DEF Only
  <2>3. account' \in Accounts
    BY <1>1, <2>1 DEF RowsType
  <2>4. AccountIInv'
    BY <1>1, <1>2, <2>1, <2>2, AccountStays
  <2> QED BY <1>1, <1>2, <2>2, <2>3, <2>4, SignUpStep
<1> QED BY <1>4, <1>5

LEMMA CreateUserSound ==
  ASSUME SessionsIInv, NEW c \in Calls, CreateUser(c)
  PROVE  SessionsIInv' /\ NoneRetired
<1>1. RowsType /\ CallType /\ AccountIInv /\ call[c].pc = "user"
  BY TypeParts DEF SessionsIInv, CreateUser, In
<1>2. UNCHANGED <<hash, made, factor, now, cookie, page, ghostVars>>
  BY DEF CreateUser
<1>3. "subscribe" \in Pcs \ {"mark", "spend"}
  BY DEF Pcs
<1>4. account' = Account(account.tenant, TRUE, account.subscribed) /\ Go(c, "subscribe")
  BY DEF CreateUser
<1>5. /\ CallType' /\ call'[c].pc = "subscribe" /\ call'[c].from = call[c].from
      /\ \A d \in Calls \ {c} : call'[d] = call[d]
  BY <1>1, <1>3, <1>4, Gone DEF Only
<1>6. account' \in Accounts /\ account'.owner = TRUE
  BY <1>1, <1>4, AccountParts
<1>7. AccountIInv'
  BY <1>5, <1>6 DEF AccountIInv, AccountIsWhole, In
<1> QED BY <1>1, <1>2, <1>5, <1>6, <1>7, SignUpStep

LEMMA CreateUserFailsSound ==
  ASSUME SessionsIInv, NEW c \in Calls, CreateUserFails(c)
  PROVE  SessionsIInv' /\ NoneRetired
<1>1. RowsType /\ CallType /\ AccountIInv /\ call[c].pc = "user"
  BY TypeParts DEF SessionsIInv, CreateUserFails, In
<1>2. UNCHANGED <<hash, made, factor, now, cookie, page, ghostVars>>
  BY DEF CreateUserFails
<1>3. account' = Account("deleted", account.owner, account.subscribed) /\ End(c)
  BY DEF CreateUserFails, WithoutOwner
<1>4. /\ CallType' /\ call'[c].pc = "idle" /\ call'[c].from = NoBrowser
      /\ \A d \in Calls \ {c} : call'[d] = call[d]
  BY <1>1, <1>3, Ended DEF Only
<1>5. account' \in Accounts /\ account'.tenant = "deleted" /\ account'.owner = account.owner
  BY <1>1, <1>3, AccountParts
<1>6. AccountIInv'
  BY <1>1, <1>4, <1>5 DEF AccountIInv, AccountIsWhole, In
<1> QED BY <1>1, <1>2, <1>4, <1>5, <1>6, SignUpStep

LEMMA CreateSubscriptionSound ==
  ASSUME SessionsIInv, NEW c \in Calls, CreateFreeSubscription(c)
  PROVE  SessionsIInv' /\ NoneRetired
<1>1. RowsType /\ CallType /\ AccountIInv /\ call[c].pc = "subscribe"
  BY TypeParts DEF SessionsIInv, CreateFreeSubscription, In
<1>2. UNCHANGED <<hash, made, factor, now, cookie, page, ghostVars>>
  BY DEF CreateFreeSubscription
<1>3. "issue" \in Pcs \ {"mark", "spend"}
  BY DEF Pcs
<1>4. account' = Account(account.tenant, account.owner, TRUE) /\ Go(c, "issue")
  BY DEF CreateFreeSubscription
<1>5. /\ CallType' /\ call'[c].pc = "issue" /\ call'[c].from = call[c].from
      /\ \A d \in Calls \ {c} : call'[d] = call[d]
  BY <1>1, <1>3, <1>4, Gone DEF Only
<1>6. account' \in Accounts /\ account'.owner = account.owner /\ account'.subscribed = TRUE
  BY <1>1, <1>4, AccountParts
<1>7. account.owner
  BY <1>1 DEF AccountIInv, In
<1>8. AccountIInv'
  BY <1>1, <1>5, <1>6, <1>7 DEF AccountIInv, AccountIsWhole, In
<1> QED BY <1>1, <1>2, <1>5, <1>6, <1>8, SignUpStep

LEMMA ChallengeSound ==
  ASSUME SessionsIInv, NEW c \in Calls, Challenge(c)
  PROVE  SessionsIInv' /\ NoneRetired
<1>1. RowsType /\ CallType /\ AccountIInv /\ call[c].pc = "challenge"
  BY TypeParts DEF SessionsIInv, Challenge, In
<1>2. /\ call'[c].pc = "idle" /\ call'[c].from = NoBrowser /\ CallType'
      /\ \A d \in Calls \ {c} : call'[d] = call[d]
  BY <1>1, Ended DEF Challenge, Only
<1>3. /\ hash' = hash /\ made' = made /\ retired' = retired /\ holder' = holder
      /\ factor' = factor /\ closed' = closed /\ now' = now /\ troubled' = troubled
      /\ account' = account /\ broken' = broken
  BY DEF Challenge, serverVars, ghostVars
<1>4. PICK b \in Browsers : b = call[c].from
  BY <1>1, OneCall
<1>5. /\ cookie' = [cookie EXCEPT ![b] = Cookie("pending", cookie[b].refresh, TRUE)]
      /\ page' = [page EXCEPT ![b] = "two_factor_required"]
  BY <1>4 DEF Challenge, PendingCookies
<1>6. cookie[b].refresh \in 0..MaxTokens
  BY <1>1 DEF RowsType, Cookies
<1>7. /\ Cookie("pending", cookie[b].refresh, TRUE) \in Cookies
      /\ Cookie("pending", cookie[b].refresh, TRUE).refresh = cookie[b].refresh
  BY <1>6 DEF Cookie, Cookies
<1>8. cookie' \in [Browsers -> Cookies] /\ \A x \in Browsers : cookie'[x].refresh = cookie[x].refresh
  BY <1>1, <1>5, <1>7 DEF RowsType
<1>9. page' \in [Browsers -> Statuses]
  BY <1>1, <1>5 DEF RowsType, Statuses
<1>10. RowsType'
  BY <1>1, <1>3, <1>8, <1>9 DEF RowsType
<1>11. AccountIInv'
  BY <1>1, <1>2, <1>3, AccountStays
<1>12. SessionsIInv'
  BY <1>1, <1>2, <1>3, <1>8, <1>10, <1>11, PlainSound
<1> QED BY <1>2, <1>12, NothingAccepted

LEMMA PagesTyped ==
  ASSUME RowsType, CallType, NEW c \in Calls, call[c].pc # "idle"
  PROVE  /\ PageAfterError(c) \in [Browsers -> Statuses]
         /\ PageAfterAnswer(c) \in [Browsers -> Statuses]
BY OneCall DEF RowsType, PageAfterError, PageAfterAnswer, Statuses

LEMMA RefusedSound ==
  ASSUME SessionsIInv, NEW c \in Calls, Refused(c)
  PROVE  SessionsIInv' /\ NoneRetired
<1>1. RowsType /\ CallType /\ AccountIInv /\ call[c].pc = "refresh"
  BY TypeParts DEF SessionsIInv, Refused, In
<1>2. /\ call'[c].pc = "idle" /\ call'[c].from = NoBrowser /\ CallType'
      /\ \A d \in Calls \ {c} : call'[d] = call[d]
  BY <1>1, Ended DEF Refused, Only
<1>3. /\ hash' = hash /\ made' = made /\ retired' = retired /\ holder' = holder
      /\ factor' = factor /\ closed' = closed /\ now' = now /\ troubled' = troubled
      /\ account' = account /\ broken' = broken /\ cookie' = cookie
  BY DEF Refused, serverVars, ghostVars
<1>4. page' \in [Browsers -> Statuses]
  BY <1>1, PagesTyped DEF Refused
<1>5. RowsType'
  BY <1>1, <1>3, <1>4 DEF RowsType
<1>6. AccountIInv'
  BY <1>1, <1>2, <1>3, AccountStays
<1>7. SessionsIInv'
  BY <1>1, <1>2, <1>3, <1>5, <1>6, PlainSound
<1> QED BY <1>2, <1>7, NothingAccepted

\* The one step that accepts a token: it is the stored one, and no stored one is retired.
LEMMA FindSound ==
  ASSUME SessionsIInv, NEW c \in Calls, FindByRefreshToken(c)
  PROVE  SessionsIInv' /\ NoneRetired
<1>1. RowsType /\ CallType /\ AccountIInv /\ TokenIInv /\ call[c].pc = "refresh"
  BY TypeParts DEF SessionsIInv, FindByRefreshToken, In
<1>2. /\ call'[c].pc = "rotate" /\ call'[c].from = call[c].from /\ CallType'
      /\ \A d \in Calls \ {c} : call'[d] = call[d]
  <2>1. "rotate" \in Pcs \ {"mark", "spend"}
    BY DEF Pcs
  <2> QED BY <1>1, <2>1, Gone DEF FindByRefreshToken, Only
<1>3. /\ hash' = hash /\ made' = made /\ retired' = retired /\ holder' = holder
      /\ factor' = factor /\ closed' = closed /\ now' = now /\ troubled' = troubled
      /\ account' = account /\ broken' = broken /\ cookie' = cookie /\ page' = page
  BY DEF FindByRefreshToken, serverVars, ghostVars
<1>4. RowsType'
  BY <1>1, <1>3 DEF RowsType
<1>5. AccountIInv'
  BY <1>1, <1>2, <1>3, AccountStays
<1>6. SessionsIInv'
  BY <1>1, <1>2, <1>3, <1>4, <1>5, PlainSound
<1>7. call[c].token = hash /\ hash \notin retired
  BY <1>1 DEF FindByRefreshToken, Accepts, TokenIInv, TokensAreFresh
<1>8. NoneRetired
  BY <1>2, <1>7 DEF NoneRetired, Accepted, In
<1> QED BY <1>6, <1>8

LEMMA CallFailsSound ==
  ASSUME SessionsIInv, NEW c \in Calls, CallFails(c)
  PROVE  SessionsIInv' /\ NoneRetired
<1>1. RowsType /\ CallType /\ AccountIInv /\ TokenIInv /\ CodeIInv
  BY TypeParts DEF SessionsIInv
<1>2. /\ call'[c].pc = "idle" /\ call'[c].from = NoBrowser /\ CallType'
      /\ \A d \in Calls \ {c} : call'[d] = call[d]
  BY <1>1, Ended DEF CallFails, Only
<1>3. /\ hash' = hash /\ made' = made /\ retired' = retired /\ holder' = holder
      /\ factor' = factor /\ closed' = closed /\ now' = now
      /\ account' = account /\ cookie' = cookie
      /\ page' = PageAfterError(c)
      /\ troubled' = IF call[c].pc = "answer" THEN troubled \cup {call[c].from} ELSE troubled
      /\ broken' = (broken \/ call[c].pc \in {"user", "subscribe"})
  BY DEF CallFails, serverVars, In
<1>4. call[c].pc = "idle" \/ page' \in [Browsers -> Statuses]
  BY <1>1, <1>3, PagesTyped
<1>5. call[c].pc = "answer" => call[c].from \in Browsers
  BY <1>1, OneCall
<1>6. page' \in [Browsers -> Statuses]
  BY <1>1, <1>3, <1>4, OneCall DEF PageAfterError, Statuses, RowsType
<1>7. broken' \in BOOLEAN /\ troubled' \subseteq Browsers
  BY <1>1, <1>3, <1>5 DEF RowsType
<1>8. RowsType'
  BY <1>1, <1>3, <1>6, <1>7 DEF RowsType
<1>9. AccountIInv'
  BY <1>1, <1>2, <1>3 DEF AccountIInv, AccountIsWhole, In
<1>10. now' >= now
  BY <1>1, <1>3 DEF RowsType
<1>11. CodeIInv'
  BY <1>1, <1>2, <1>3, <1>8, <1>10, CodesStay
<1>12. OneAtATime'
  BY <1>1, <1>2, <1>3, OneLeft DEF TokenIInv
<1>13. TokenIInv'
  <2>1. CASE call[c].pc # "answer"
    BY <1>1, <1>2, <1>3, <1>12, <2>1, TokensStay
  <2>2. CASE call[c].pc = "answer"
    <3>1. TokensAreFresh' /\ (hash' # 0 => holder' \in Browsers)
      BY <1>1, <1>3 DEF TokenIInv, TokensAreFresh
    <3>2. AnswersAreStored'
      BY <1>1, <1>2, <1>3 DEF TokenIInv, AnswersAreStored, In
    <3>3. SessionKept'
      BY <1>1, <1>2, <1>3, <2>2 DEF TokenIInv, SessionKept, In
    <3> QED BY <1>12, <3>1, <3>2, <3>3 DEF TokenIInv
  <2> QED BY <2>1, <2>2
<1>14. NoneRetired
  BY <1>2, NothingAccepted
<1> QED BY <1>8, <1>2, <1>9, <1>11, <1>13, <1>14, TypePartsNext DEF SessionsIInv

-----------------------------------------------------------------------------
(* Steps without a request                                                 *)

LEMMA StaysSound ==
  ASSUME SessionsIInv, RowsType', call' = call, CodeIInv',
         account' = account, broken' = broken,
         hash' = hash, made' = made, retired' = retired, holder' = holder,
         troubled' = troubled, \A b \in Browsers : cookie'[b].refresh = cookie[b].refresh
  PROVE  SessionsIInv' /\ NoneRetired
<1>1. CallType /\ TokenIInv /\ AccountIInv
  BY TypeParts DEF SessionsIInv
<1>2. CallType'
  BY <1>1 DEF CallType, CallsCarry, In
<1>3. OneAtATime'
  BY <1>1, OneStays DEF TokenIInv
<1>4. TokenIInv'
  BY <1>1, <1>3, TokensStay
<1>5. AccountIInv'
  BY <1>1, AccountStays
<1>6. NoneRetired
  BY NothingAccepted
<1> QED BY <1>2, <1>4, <1>5, <1>6, TypePartsNext DEF SessionsIInv

LEMMA TimePasses ==
  ASSUME SessionsIInv, RowsType', call' = call, factor' = factor, closed' = closed, now' >= now,
         account' = account, broken' = broken,
         hash' = hash, made' = made, retired' = retired, holder' = holder,
         troubled' = troubled, \A b \in Browsers : cookie'[b].refresh = cookie[b].refresh
  PROVE  SessionsIInv' /\ NoneRetired
<1>1. RowsType /\ CodeIInv
  BY TypeParts DEF SessionsIInv
<1>2. CodeIInv'
  BY <1>1, CodesStay
<1> QED BY <1>2, StaysSound

LEMMA PageSound ==
  ASSUME SessionsIInv, page' \in [Browsers -> Statuses],
         UNCHANGED <<serverVars, now, cookie, call, ghostVars>>
  PROVE  SessionsIInv' /\ NoneRetired
<1>1. /\ account' = account /\ hash' = hash /\ made' = made /\ factor' = factor /\ now' = now
      /\ cookie' = cookie /\ call' = call /\ retired' = retired /\ holder' = holder
      /\ troubled' = troubled /\ closed' = closed /\ broken' = broken
  BY DEF serverVars, ghostVars
<1>2. RowsType
  BY TypeParts DEF SessionsIInv
<1>3. RowsType' /\ now' >= now
  BY <1>1, <1>2 DEF RowsType
<1> QED BY <1>1, <1>3, TimePasses

LEMMA CheckSessionSound ==
  ASSUME SessionsIInv, NEW b \in Browsers, CheckSession(b)
  PROVE  SessionsIInv' /\ NoneRetired
<1>1. RowsType
  BY TypeParts DEF SessionsIInv
<1>2. cookie[b].access \in {"none", "pending", "full"}
  BY <1>1 DEF RowsType, Cookies
<1>3. page' \in [Browsers -> Statuses]
  BY <1>1, <1>2 DEF CheckSession, RowsType, Statuses
<1> QED BY <1>3, PageSound DEF CheckSession

LEMMA ReloadSound ==
  ASSUME SessionsIInv, NEW b \in Browsers, Reload(b)
  PROVE  SessionsIInv' /\ NoneRetired
<1>1. page' \in [Browsers -> Statuses]
  BY TypeParts DEF Reload, SessionsIInv, RowsType, Statuses
<1> QED BY <1>1, PageSound DEF Reload

LEMMA AccessExpiresSound ==
  ASSUME SessionsIInv, NEW b \in Browsers, AccessExpires(b)
  PROVE  SessionsIInv' /\ NoneRetired
<1>1. RowsType
  BY TypeParts DEF SessionsIInv
<1>2. /\ account' = account /\ hash' = hash /\ made' = made /\ factor' = factor /\ now' = now
      /\ page' = page /\ call' = call /\ retired' = retired /\ holder' = holder
      /\ troubled' = troubled /\ closed' = closed /\ broken' = broken
      /\ cookie' = [cookie EXCEPT ![b] = Cookie("none", cookie[b].refresh, FALSE)]
  BY DEF AccessExpires, serverVars, ghostVars
<1>3. /\ Cookie("none", cookie[b].refresh, FALSE) \in Cookies
      /\ Cookie("none", cookie[b].refresh, FALSE).refresh = cookie[b].refresh
  BY <1>1 DEF RowsType, Cookie, Cookies
<1>4. cookie' \in [Browsers -> Cookies] /\ \A x \in Browsers : cookie'[x].refresh = cookie[x].refresh
  BY <1>1, <1>2, <1>3 DEF RowsType
<1>5. now' \in 1..MaxSteps /\ now' >= now
  BY <1>1, <1>2 DEF RowsType
<1>6. RowsType'
  BY <1>1, <1>2, <1>4, <1>5, Zenon DEF RowsType
<1> QED BY <1>2, <1>4, <1>5, <1>6, TimePasses

LEMMA StepPassesSound ==
  ASSUME SessionsIInv, StepPasses
  PROVE  SessionsIInv' /\ NoneRetired
<1>1. RowsType
  BY TypeParts DEF SessionsIInv
<1>2. /\ account' = account /\ hash' = hash /\ made' = made /\ factor' = factor
      /\ page' = page /\ call' = call /\ retired' = retired /\ holder' = holder
      /\ troubled' = troubled /\ closed' = closed /\ broken' = broken /\ cookie' = cookie
      /\ now < MaxSteps /\ now' = now + 1
  BY DEF StepPasses, serverVars, ghostVars
<1>3. RowsType' /\ now' >= now
  BY <1>1, <1>2 DEF RowsType
<1> QED BY <1>2, <1>3, TimePasses

-----------------------------------------------------------------------------
(* Codes and the second factor                                             *)

\* A request that used a code up goes on to its session.
LEMMA CodeUsed ==
  ASSUME SessionsIInv, NEW c \in Calls, call[c].pc \in {"mark", "spend"}, Go(c, "issue"), Close(c),
         factor' \in Factors, CodeIInv',
         UNCHANGED <<account, hash, made, now, cookie, page, retired, holder, troubled, broken>>
  PROVE  SessionsIInv' /\ NoneRetired
<1>1. RowsType /\ CallType /\ TokenIInv /\ AccountIInv
  BY TypeParts DEF SessionsIInv
<1>2. /\ call'[c].pc = "issue" /\ call'[c].from = call[c].from /\ CallType'
      /\ \A d \in Calls \ {c} : call'[d] = call[d]
  <2>1. "issue" \in Pcs \ {"mark", "spend"}
    BY DEF Pcs
  <2> QED BY <1>1, <2>1, Gone DEF Only
<1>3. closed' \subseteq RecoveryCodes \cup OneTimeCodes
  <2>1. call[c].code \in RecoveryCodes \cup OneTimeCodes
    BY <1>1, OneCall
  <2> QED BY <1>1, <2>1 DEF Close, RowsType
<1>4. RowsType'
  BY <1>1, <1>3 DEF RowsType
<1>5. OneAtATime'
  BY <1>1, <1>2, OneLeft DEF TokenIInv
<1>6. TokenIInv'
  BY <1>1, <1>2, <1>5, TokensStay
<1>7. AccountIInv'
  BY <1>1, <1>2, AccountStays
<1>8. NoneRetired
  BY <1>2, NothingAccepted
<1> QED BY <1>2, <1>4, <1>6, <1>7, <1>8, TypePartsNext DEF SessionsIInv

LEMMA CodeMoves ==
  ASSUME CallType, NEW c \in Calls, call[c].pc \in {"mark", "spend"}, Go(c, "issue"), Close(c)
  PROVE  /\ call'[c].pc = "issue" /\ \A d \in Calls \ {c} : call'[d] = call[d]
         /\ \/ closed' = closed
            \/ /\ closed' = closed \cup {call[c].code}
               /\ \A d \in Calls \ {c} : call[d].pc \notin {"mark", "spend", "enable"}
<1>1. "issue" \in Pcs \ {"mark", "spend"}
  BY DEF Pcs
<1> QED BY <1>1, Gone DEF Only, Close, OthersUseNoCode

LEMMA MarkSound ==
  ASSUME SessionsIInv, NEW c \in Calls, MarkTotpStepUsed(c)
  PROVE  SessionsIInv' /\ NoneRetired
<1>1. RowsType /\ CallType /\ CodeIInv /\ call[c].pc = "mark"
  BY TypeParts DEF SessionsIInv, MarkTotpStepUsed, In
<1>2. PICK code \in OneTimeCodes : code = call[c].code
  BY <1>1, OneCall
<1>3. /\ factor' = StepUsed(factor, code[3]) /\ Go(c, "issue") /\ Close(c) /\ now' = now
  BY <1>2 DEF MarkTotpStepUsed
<1>4. /\ call'[c].pc = "issue" /\ \A d \in Calls \ {c} : call'[d] = call[d]
      /\ \/ closed' = closed
         \/ /\ closed' = closed \cup {code}
            /\ \A d \in Calls \ {c} : call[d].pc \notin {"mark", "spend", "enable"}
  BY <1>1, <1>2, <1>3, CodeMoves
<1>5. /\ factor'.codes = factor.codes /\ factor'.secret = factor.secret
      /\ factor'.secrets = factor.secrets /\ factor'.prints = factor.prints
      /\ factor'.last = code[3]
  BY <1>3 DEF StepUsed, Factor
<1>6. code[3] \in 1..MaxSteps /\ code \notin RecoveryCodes
  BY DEF OneTimeCodes, RecoveryCodes
<1>7. factor' \in Factors
  BY <1>1, <1>3, <1>6, FactorsTyped DEF RowsType
<1>8. factor.codes \subseteq RecoveryCodes
  BY <1>1 DEF RowsType, Factors
<1>9. UsedCodeStaysUsed'
  BY <1>1, <1>4, <1>5, <1>6, <1>8 DEF CodeIInv, UsedCodeStaysUsed, In
<1>10. CodesAreKnown'
  <2>1. Known(code) /\ \A x : Known(x) => Known(x)'
    BY <1>1, <1>2, <1>5 DEF CodeIInv, CodesAreKnown, In, Known
  <2>2. \A d \in Calls \ {c} : call[d].pc \in {"spend", "mark"} =>
          Known(call[d].code) /\ \A x \in call[d].rest : Known(x)
    BY <1>1 DEF CodeIInv, CodesAreKnown, In
  <2>3. \A x \in closed' \cup factor'.codes : Known(x)
    BY <1>1, <1>4, <1>5, <2>1 DEF CodeIInv, CodesAreKnown
  <2>4. \A d \in Calls : call'[d].pc \in {"spend", "mark"} =>
          call'[d] = call[d] /\ d # c
    BY <1>4
  <2> QED BY <1>1, <1>5, <2>1, <2>2, <2>3, <2>4 DEF CodeIInv, CodesAreKnown, In, Known
<1>11. StepsAreOver'
  <2> SUFFICES ASSUME NEW step \in ClosedSteps'
               PROVE  /\ step < now' \/ step <= factor'.last
                      /\ \A d \in Calls : call'[d].pc = "enable" => step < now'
                      /\ \A d \in Calls : call'[d].pc = "mark" => step <= call'[d].code[3]
    BY DEF StepsAreOver, In
  <2>1. CASE step \in ClosedSteps
    <3>1. /\ step <= code[3]
          /\ \A d \in Calls : call[d].pc = "enable" => step < now
          /\ \A d \in Calls : call[d].pc = "mark" => step <= call[d].code[3]
      BY <1>1, <1>2, <2>1 DEF CodeIInv, StepsAreOver, In
    <3> QED BY <1>3, <1>4, <1>5, <3>1
  <2>2. CASE step \notin ClosedSteps
    <3>1. PICK x \in closed' \cap OneTimeCodes : x[2] = factor.secret /\ step = x[3]
      BY <1>5 DEF ClosedSteps
    <3>2. x = code /\ closed' # closed
      BY <1>4, <2>2, <3>1 DEF ClosedSteps
    <3>3. step = code[3] /\ step <= factor'.last
      BY <1>5, <1>6, <3>1, <3>2
    <3> QED BY <1>4, <3>2, <3>3
  <2> QED BY <2>1, <2>2
<1>12. CodeIInv'
  BY <1>9, <1>10, <1>11 DEF CodeIInv
<1> QED BY <1>1, <1>7, <1>12, CodeUsed DEF MarkTotpStepUsed

LEMMA SpendSound ==
  ASSUME SessionsIInv, NEW c \in Calls, UpdateRecoveryCodes(c)
  PROVE  SessionsIInv' /\ NoneRetired
<1>1. RowsType /\ CallType /\ CodeIInv /\ call[c].pc = "spend"
  BY TypeParts DEF SessionsIInv, UpdateRecoveryCodes, In
<1>2. PICK code \in RecoveryCodes : code = call[c].code
  BY <1>1, OneCall
<1>3. PICK rest \in SUBSET RecoveryCodes : rest = call[c].rest
  BY <1>1, OneCall
<1>4. /\ factor' = CodesLeft(factor, rest) /\ Go(c, "issue") /\ Close(c) /\ now' = now
  BY <1>3 DEF UpdateRecoveryCodes
<1>5. /\ call'[c].pc = "issue" /\ \A d \in Calls \ {c} : call'[d] = call[d]
      /\ \/ closed' = closed
         \/ /\ closed' = closed \cup {code}
            /\ \A d \in Calls \ {c} : call[d].pc \notin {"mark", "spend", "enable"}
  BY <1>1, <1>2, <1>4, CodeMoves
<1>6. /\ factor'.codes = rest /\ factor'.secret = factor.secret
      /\ factor'.secrets = factor.secrets /\ factor'.prints = factor.prints
      /\ factor'.last = factor.last
  BY <1>4 DEF CodesLeft, Factor
<1>7. code \notin OneTimeCodes /\ code \notin rest
  <2>1. code \notin OneTimeCodes
    BY DEF OneTimeCodes, RecoveryCodes
  <2> QED BY <1>1, <1>2, <1>3, <2>1, OneCall
<1>8. factor' \in Factors
  BY <1>1, <1>4, FactorsTyped DEF RowsType
<1>9. rest \cap closed = {} /\ \A x \in rest : Known(x)
  BY <1>1, <1>3 DEF CodeIInv, UsedCodeStaysUsed, CodesAreKnown, In
<1>10. UsedCodeStaysUsed'
  BY <1>1, <1>5, <1>6, <1>7, <1>9 DEF CodeIInv, UsedCodeStaysUsed, In
<1>11. CodesAreKnown'
  <2>1. Known(code) /\ \A x : Known(x) => Known(x)'
    BY <1>1, <1>2, <1>6 DEF CodeIInv, CodesAreKnown, In, Known
  <2>2. \A d \in Calls \ {c} : call[d].pc \in {"spend", "mark"} =>
          Known(call[d].code) /\ \A x \in call[d].rest : Known(x)
    BY <1>1 DEF CodeIInv, CodesAreKnown, In
  <2>3. \A x \in closed' \cup factor'.codes : Known(x)
    BY <1>1, <1>5, <1>6, <1>9, <2>1 DEF CodeIInv, CodesAreKnown
  <2>4. \A d \in Calls : call'[d].pc \in {"spend", "mark"} =>
          call'[d] = call[d] /\ d # c
    BY <1>5
  <2> QED BY <1>1, <1>6, <2>1, <2>2, <2>3, <2>4 DEF CodeIInv, CodesAreKnown, In, Known
<1>12. StepsAreOver'
  <2>1. ClosedSteps' = ClosedSteps
    BY <1>5, <1>6, <1>7 DEF ClosedSteps
  <2> QED BY <1>1, <1>4, <1>5, <1>6, <2>1 DEF CodeIInv, StepsAreOver, In
<1>13. CodeIInv'
  BY <1>10, <1>11, <1>12 DEF CodeIInv
<1> QED BY <1>1, <1>8, <1>13, CodeUsed DEF UpdateRecoveryCodes

\* New recovery codes are of a list that no used code is of, and forgetting the
\* recorded step does no harm, because every closed step is over.
LEMMA EnableSound ==
  ASSUME SessionsIInv, NEW c \in Calls, EnableTotp(c)
  PROVE  SessionsIInv' /\ NoneRetired
<1>1. RowsType /\ CallType /\ CodeIInv /\ TokenIInv /\ AccountIInv /\ call[c].pc = "enable"
  BY TypeParts DEF SessionsIInv, EnableTotp, In
<1>2. /\ call'[c].pc = "idle" /\ call'[c].from = NoBrowser /\ CallType'
      /\ \A d \in Calls \ {c} : call'[d] = call[d]
  BY <1>1, Ended DEF EnableTotp, Only
<1>3. /\ hash' = hash /\ made' = made /\ retired' = retired /\ holder' = holder
      /\ closed' = closed /\ now' = now /\ troubled' = troubled
      /\ account' = account /\ broken' = broken /\ cookie' = cookie /\ page' = page
      /\ factor' = Enabled(factor) /\ factor.prints < MaxPrints
  BY DEF EnableTotp, ghostVars
<1>4. /\ factor'.secret = factor.secret /\ factor'.secrets = factor.secrets
      /\ factor'.codes = {"recovery"} \X {factor.prints + 1} \X (1..CodesPerList)
      /\ factor'.prints = factor.prints + 1
  BY <1>3 DEF Enabled, Factor
<1>5. factor' \in Factors
  BY <1>1, <1>3, FactorsTyped DEF RowsType
<1>6. RowsType'
  BY <1>1, <1>3, <1>5 DEF RowsType
<1>7. factor.prints \in Nat
  BY <1>1 DEF RowsType, Factors
<1>8. \A x : Known(x) => Known(x)'
  <2>1. \A x \in RecoveryCodes : x[2] \in Int
    BY DEF RecoveryCodes
  <2> QED BY <1>4, <1>7, <2>1 DEF Known
<1>9. \A x \in factor'.codes : x \in RecoveryCodes /\ x[2] = factor.prints + 1 /\ x \notin OneTimeCodes
  <2>1. factor.prints + 1 \in 1..MaxPrints
    BY <1>3, <1>7
  <2> QED BY <1>4, <2>1 DEF RecoveryCodes, OneTimeCodes
<1>10. closed \cap factor'.codes = {}
  <2>1. \A x \in closed \cap RecoveryCodes : x[2] <= factor.prints
    BY <1>1 DEF CodeIInv, CodesAreKnown, Known
  <2>2. ~(factor.prints + 1 <= factor.prints)
    BY <1>7
  <2> QED BY <1>9, <2>1, <2>2
<1>11. UsedCodeStaysUsed'
  BY <1>1, <1>2, <1>3, <1>10 DEF CodeIInv, UsedCodeStaysUsed, In
<1>12. CodesAreKnown'
  <2>1. \A x \in factor'.codes : Known(x)'
    <3>1. factor.prints + 1 <= factor'.prints
      BY <1>4, <1>7
    <3> QED BY <1>9, <3>1 DEF Known
  <2>2. \A x \in closed' : Known(x)'
    BY <1>1, <1>3, <1>8 DEF CodeIInv, CodesAreKnown
  <2>3. \A d \in Calls : call'[d].pc \in {"spend", "mark"} =>
          \A x \in {call'[d].code} \cup call'[d].rest : Known(x)'
    BY <1>1, <1>2, <1>8 DEF CodeIInv, CodesAreKnown, In
  <2>4. factor'.secret <= factor'.secrets
    BY <1>1, <1>4 DEF CodeIInv, CodesAreKnown
  <2> QED BY <2>1, <2>2, <2>3, <2>4 DEF CodesAreKnown, In, Known
<1>13. StepsAreOver'
  <2>1. ClosedSteps' = ClosedSteps
    BY <1>3, <1>4 DEF ClosedSteps
  <2>2. \A step \in ClosedSteps : step < now
    BY <1>1 DEF CodeIInv, StepsAreOver, In
  <2> QED BY <1>1, <1>2, <1>3, <2>1, <2>2 DEF CodeIInv, StepsAreOver, In
<1>14. CodeIInv'
  BY <1>11, <1>12, <1>13 DEF CodeIInv
<1>15. OneAtATime'
  BY <1>1, <1>2, <1>3, OneLeft DEF TokenIInv
<1>16. TokenIInv'
  BY <1>1, <1>2, <1>3, <1>15, TokensStay
<1>17. AccountIInv'
  BY <1>1, <1>2, <1>3, AccountStays
<1>18. NoneRetired
  BY <1>2, NothingAccepted
<1> QED BY <1>2, <1>6, <1>14, <1>16, <1>17, <1>18, TypePartsNext DEF SessionsIInv

\* A new secret has no used codes, and without one nothing is closed.
LEMMA SecretSound ==
  ASSUME SessionsIInv, factor' \in Factors, factor'.codes = {}, factor'.prints = factor.prints,
         \/ factor'.secret = factor.secrets + 1 /\ factor'.secrets = factor.secrets + 1
         \/ factor'.secret = 0 /\ factor'.secrets = factor.secrets,
         UNCHANGED <<account, hash, made, now, cookie, page, call, ghostVars>>
  PROVE  SessionsIInv' /\ NoneRetired
<1>1. RowsType /\ CodeIInv
  BY TypeParts DEF SessionsIInv
<1>2. /\ hash' = hash /\ made' = made /\ retired' = retired /\ holder' = holder
      /\ closed' = closed /\ now' = now /\ troubled' = troubled /\ call' = call
      /\ account' = account /\ broken' = broken /\ cookie' = cookie /\ page' = page
  BY DEF ghostVars
<1>3. RowsType'
  BY <1>1, <1>2 DEF RowsType
<1>4. factor.secrets \in Nat /\ factor.prints \in Nat
  BY <1>1 DEF RowsType, Factors
<1>5. UsedCodeStaysUsed'
  BY <1>1, <1>2 DEF CodeIInv, UsedCodeStaysUsed, In
<1>6. \A x : Known(x) => Known(x)'
  <2>1. \A x \in OneTimeCodes : x[2] \in Int
    BY DEF OneTimeCodes
  <2> QED BY <1>4, <2>1 DEF Known
<1>7. CodesAreKnown'
  <2>1. factor'.secret <= factor'.secrets
    BY <1>4
  <2>2. \A x \in closed' \cup factor'.codes : Known(x)'
    BY <1>1, <1>2, <1>6 DEF CodeIInv, CodesAreKnown
  <2>3. \A d \in Calls : call'[d].pc \in {"spend", "mark"} =>
          \A x \in {call'[d].code} \cup call'[d].rest : Known(x)'
    BY <1>1, <1>2, <1>6 DEF CodeIInv, CodesAreKnown, In
  <2> QED BY <2>1, <2>2, <2>3 DEF CodesAreKnown, In, Known
<1>8. ClosedSteps' = {}
  <2>1. \A x \in closed \cap OneTimeCodes : x[2] \in Int /\ x[2] >= 1 /\ x[2] <= factor.secrets
    BY <1>1 DEF CodeIInv, CodesAreKnown, Known, OneTimeCodes
  <2>2. \A x \in closed \cap OneTimeCodes : x[2] # factor'.secret
    BY <1>4, <2>1
  <2> QED BY <1>2, <2>2 DEF ClosedSteps
<1>9. StepsAreOver'
  BY <1>8 DEF StepsAreOver
<1>10. CodeIInv'
  BY <1>5, <1>7, <1>9 DEF CodeIInv
<1> QED BY <1>2, <1>3, <1>10, StaysSound

LEMMA SetupSound ==
  ASSUME SessionsIInv, NEW b \in Browsers, SetupTotp(b)
  PROVE  SessionsIInv' /\ NoneRetired
<1>1. factor \in Factors
  BY TypeParts DEF SessionsIInv, RowsType
<1>2. factor' = NewSecret(factor) /\ factor' \in Factors
  BY <1>1, FactorsTyped DEF SetupTotp
<1>3. /\ factor'.codes = {} /\ factor'.prints = factor.prints
      /\ factor'.secret = factor.secrets + 1 /\ factor'.secrets = factor.secrets + 1
  BY <1>2 DEF NewSecret, Factor
<1> QED BY <1>2, <1>3, SecretSound DEF SetupTotp

LEMMA DisableSound ==
  ASSUME SessionsIInv, NEW b \in Browsers, DisableTotp(b)
  PROVE  SessionsIInv' /\ NoneRetired
<1>1. factor \in Factors
  BY TypeParts DEF SessionsIInv, RowsType
<1>2. factor' = Disabled(factor) /\ factor' \in Factors
  BY <1>1, FactorsTyped DEF DisableTotp
<1>3. /\ factor'.codes = {} /\ factor'.prints = factor.prints
      /\ factor'.secret = 0 /\ factor'.secrets = factor.secrets
  BY <1>2 DEF Disabled, Factor
<1> QED BY <1>2, <1>3, SecretSound DEF DisableTotp

-----------------------------------------------------------------------------
(* Tokens                                                                  *)

\* A token is stored: it is new, and the request that stored it brings it.
LEMMA StoreSound ==
  ASSUME SessionsIInv, NEW c \in Calls, call[c].pc \in {"issue", "rotate"}, made < MaxTokens,
         made' = made + 1, StoreToken(c, made + 1, call[c].from),
         call' = [call EXCEPT ![c] =
                    Call("answer", call[c].from, call[c].for, made + 1, NoCode, {})],
         UNCHANGED <<account, factor, now, cookie, page, troubled, closed, broken>>
  PROVE  SessionsIInv' /\ NoneRetired
<1>1. RowsType /\ CallType /\ CodeIInv /\ TokenIInv /\ AccountIInv
  BY TypeParts DEF SessionsIInv
<1>2. PICK b \in Browsers : b = call[c].from
  BY <1>1, OneCall
<1>3. made \in 0..MaxTokens /\ made + 1 \in 1..MaxTokens
  BY <1>1 DEF RowsType
<1>4. PICK t \in 1..MaxTokens : t = made + 1
  BY <1>3
<1>5. /\ call'[c].pc = "answer" /\ call'[c].from = b /\ call'[c].token = t /\ CallType'
      /\ \A d \in Calls \ {c} : call'[d] = call[d]
  <2>1. PICK for \in Purposes : for = call[c].for
    BY <1>1, OneCall
  <2>2. Well("answer", b, for, t, NoCode, {})
    BY <1>1, <1>4, <2>1, OneCall DEF Well, Pcs, Codes
  <2>3. call' = [call EXCEPT ![c] = Call("answer", b, for, t, NoCode, {})]
    BY <1>2, <1>4, <2>1
  <2>4. CallType' /\ Only(c, "answer", b, for, t, NoCode, {})
    BY <1>1, <2>2, <2>3, Moved
  <2> QED BY <2>4 DEF Only
<1>6. /\ hash' = t /\ holder' = b /\ made' = t
      /\ retired' = IF hash # 0 /\ hash # t THEN retired \cup {hash} ELSE retired
      /\ account' = account /\ factor' = factor /\ now' = now /\ cookie' = cookie /\ page' = page
      /\ troubled' = troubled /\ closed' = closed /\ broken' = broken
  BY <1>2, <1>4 DEF StoreToken
<1>7. TokensAreFresh
  BY <1>1 DEF TokenIInv
<1>8. hash \in 0..made /\ retired \subseteq (1..made) \ {hash}
  BY <1>7 DEF TokensAreFresh
<1>9. retired' \subseteq 1..made
  BY <1>3, <1>6, <1>8
<1>10. TokensAreFresh'
  <2>1. 1..made \subseteq (1..t) \ {t} /\ t \in 0..t
    BY <1>3, <1>4
  <2> QED BY <1>6, <1>9, <2>1 DEF TokensAreFresh
<1>11. retired' \subseteq 1..MaxTokens
  BY <1>3, <1>9
<1>12. RowsType'
  BY <1>1, <1>6, <1>11 DEF RowsType
<1>13. OneAtATime'
  BY <1>1, <1>2, <1>5, <1>6, OneLeft DEF TokenIInv
<1>14. AnswersAreStored'
  <2> SUFFICES ASSUME NEW d \in Calls, call'[d].pc = "answer", call'[d].from = b, b \notin troubled'
               PROVE  call'[d].token = t
    BY <1>6 DEF AnswersAreStored, In
  <2>1. d = c
    BY <1>5, <1>13 DEF OneAtATime
  <2> QED BY <1>5, <2>1
<1>15. SessionKept'
  BY <1>5, <1>6 DEF SessionKept, In
<1>16. TokenIInv'
  BY <1>6, <1>10, <1>13, <1>14, <1>15 DEF TokenIInv
<1>17. AccountIInv'
  BY <1>1, <1>5, <1>6, AccountStays
<1>18. now' >= now
  BY <1>1, <1>6 DEF RowsType
<1>19. CodeIInv'
  BY <1>1, <1>5, <1>6, <1>12, <1>18, CodesStay
<1>20. NoneRetired
  BY <1>5, NothingAccepted
<1> QED BY <1>5, <1>12, <1>16, <1>17, <1>19, <1>20, TypePartsNext DEF SessionsIInv

\* An answer of a browser that has one request at a time brings the stored token.
LEMMA AnswerSound ==
  ASSUME SessionsIInv, NEW c \in Calls, Answer(c)
  PROVE  SessionsIInv' /\ NoneRetired
<1>1. RowsType /\ CallType /\ CodeIInv /\ TokenIInv /\ AccountIInv /\ call[c].pc = "answer"
  BY TypeParts DEF SessionsIInv, Answer, In
<1>2. PICK b \in Browsers : b = call[c].from
  BY <1>1, OneCall
<1>3. PICK t \in 0..MaxTokens : t = call[c].token
  BY <1>1, OneCall
<1>4. /\ call'[c].pc = "idle" /\ call'[c].from = NoBrowser /\ CallType'
      /\ \A d \in Calls \ {c} : call'[d] = call[d]
  BY <1>1, Ended DEF Answer, Only
<1>5. /\ hash' = hash /\ made' = made /\ retired' = retired /\ holder' = holder
      /\ factor' = factor /\ closed' = closed /\ now' = now /\ troubled' = troubled
      /\ account' = account /\ broken' = broken
      /\ cookie' = [cookie EXCEPT ![b] = Cookie("full", t, FALSE)]
      /\ page' = PageAfterAnswer(c)
  BY <1>2, <1>3 DEF Answer, SessionCookies, serverVars, ghostVars
<1>6. Cookie("full", t, FALSE) \in Cookies /\ Cookie("full", t, FALSE).refresh = t
  BY DEF Cookie, Cookies
<1>7. /\ cookie' \in [Browsers -> Cookies] /\ cookie'[b].refresh = t
      /\ \A x \in Browsers \ {b} : cookie'[x] = cookie[x]
  BY <1>1, <1>5, <1>6 DEF RowsType
<1>8. page' \in [Browsers -> Statuses]
  BY <1>1, <1>5, PagesTyped
<1>9. RowsType'
  BY <1>1, <1>5, <1>7, <1>8 DEF RowsType
<1>10. OneAtATime'
  BY <1>1, <1>4, <1>5, OneLeft DEF TokenIInv
<1>11. TokensAreFresh' /\ AnswersAreStored' /\ (hash' # 0 => holder' \in Browsers)
  BY <1>1, <1>4, <1>5 DEF TokenIInv, TokensAreFresh, AnswersAreStored, In
<1>12. SessionKept'
  <2> SUFFICES ASSUME hash # 0, holder \notin troubled
               PROVE  \/ cookie'[holder].refresh = hash
                      \/ \E d \in Calls : /\ call'[d].pc = "answer" /\ call'[d].from = holder
                                          /\ call'[d].token = hash
    BY <1>5 DEF SessionKept, In
  <2>1. CASE holder = b
    <3>1. t = hash
      BY <1>1, <1>2, <1>3, <2>1 DEF TokenIInv, AnswersAreStored, In
    <3> QED BY <1>7, <2>1, <3>1
  <2>2. CASE holder # b
    <3>1. holder \in Browsers \ {b}
      BY <1>1, <2>2 DEF TokenIInv
    <3>2. \/ cookie[holder].refresh = hash
          \/ \E d \in Calls : /\ call[d].pc = "answer" /\ call[d].from = holder
                              /\ call[d].token = hash
      BY <1>1 DEF TokenIInv, SessionKept, In
    <3> QED BY <1>2, <1>4, <1>7, <2>2, <3>1, <3>2
  <2> QED BY <2>1, <2>2
<1>13. TokenIInv'
  BY <1>10, <1>11, <1>12 DEF TokenIInv
<1>14. AccountIInv'
  BY <1>1, <1>4, <1>5, AccountStays
<1>15. now' >= now
  BY <1>1, <1>5 DEF RowsType
<1>16. CodeIInv'
  BY <1>1, <1>4, <1>5, <1>9, <1>15, CodesStay
<1>17. NoneRetired
  BY <1>4, NothingAccepted
<1> QED BY <1>4, <1>9, <1>13, <1>14, <1>16, <1>17, TypePartsNext DEF SessionsIInv

\* The stored token is cleared or has expired.
LEMMA ClearedSound ==
  ASSUME SessionsIInv, hash' = 0,
         retired' = IF hash # 0 THEN retired \cup {hash} ELSE retired,
         troubled \subseteq troubled', troubled' \subseteq Browsers, cookie' \in [Browsers -> Cookies],
         UNCHANGED <<account, made, factor, now, page, call, holder, closed, broken>>
  PROVE  SessionsIInv' /\ NoneRetired
<1>1. RowsType /\ CallType /\ CodeIInv /\ TokenIInv /\ AccountIInv
  BY TypeParts DEF SessionsIInv
<1>2. /\ account' = account /\ made' = made /\ factor' = factor /\ now' = now /\ page' = page
      /\ call' = call /\ holder' = holder /\ closed' = closed /\ broken' = broken
  OBVIOUS
<1>3. made \in 0..MaxTokens /\ hash \in 0..made /\ retired \subseteq (1..made) \ {hash}
  BY <1>1 DEF RowsType, TokenIInv, TokensAreFresh
<1>4. retired' \subseteq 1..made /\ 0 \notin 1..made /\ 0 \in 0..made
  BY <1>3
<1>5. TokensAreFresh'
  BY <1>2, <1>4 DEF TokensAreFresh
<1>6. retired' \subseteq 1..MaxTokens /\ 0 \in 0..MaxTokens
  BY <1>3, <1>4
<1>7. RowsType'
  BY <1>1, <1>2, <1>6 DEF RowsType
<1>8. CallType'
  BY <1>1, <1>2 DEF CallType, CallsCarry, In
<1>9. OneAtATime'
  BY <1>1, <1>2, OneStays DEF TokenIInv
<1>10. TokenIInv'
  BY <1>5, <1>9 DEF TokenIInv, AnswersAreStored, SessionKept
<1>11. AccountIInv'
  BY <1>1, <1>2, AccountStays
<1>12. now' >= now
  BY <1>1, <1>2 DEF RowsType
<1>13. CodeIInv'
  BY <1>1, <1>2, <1>7, <1>12, CodesStay
<1>14. NoneRetired
  BY <1>2, NothingAccepted
<1> QED BY <1>7, <1>8, <1>10, <1>11, <1>13, <1>14, TypePartsNext DEF SessionsIInv

LEMMA LogOutSound ==
  ASSUME SessionsIInv, NEW b \in Browsers, LogOut(b)
  PROVE  SessionsIInv' /\ NoneRetired
<1>1. RowsType
  BY TypeParts DEF SessionsIInv
<1>2. NoCookies \in Cookies
  BY DEF NoCookies, Cookie, Cookies
<1>3. /\ cookie' \in [Browsers -> Cookies]
      /\ troubled \subseteq troubled' /\ troubled' \subseteq Browsers
  BY <1>1, <1>2 DEF LogOut, RowsType
<1> QED BY <1>3, ClearedSound DEF LogOut

LEMMA RefreshExpiresSound ==
  ASSUME SessionsIInv, RefreshExpires
  PROVE  SessionsIInv' /\ NoneRetired
<1>1. cookie \in [Browsers -> Cookies] /\ troubled \subseteq Browsers
  BY TypeParts DEF SessionsIInv, RowsType
<1>2. /\ hash' = 0 /\ retired' = IF hash # 0 THEN retired \cup {hash} ELSE retired
      /\ cookie' = cookie /\ troubled' = troubled
      /\ UNCHANGED <<account, made, factor, now, page, call, holder, closed, broken>>
  BY DEF RefreshExpires
<1> QED BY <1>1, <1>2, ClearedSound

-----------------------------------------------------------------------------
(* The behaviours                                                          *)

LEMMA SessionsStart == SessionsInit => SessionsIInv
<1> SUFFICES ASSUME SessionsInit PROVE SessionsIInv
  OBVIOUS
<1>1. \A c \in Calls : /\ call[c] = Rest /\ call[c].pc = "idle" /\ call[c].from = NoBrowser
  BY DEF SessionsInit, Rest, Call
<1>2. Rest \in CallStates
  BY DEF Rest, Call, CallStates, Pcs
<1>3. CallType
  BY <1>1, <1>2 DEF CallType, CallsCarry, In, SessionsInit
<1>4. account \in Accounts /\ factor \in Factors /\ factor.codes = {} /\ factor.secret = 0
      /\ factor.secrets = 0 /\ account.tenant = "none"
  BY DEF SessionsInit, Account, Accounts, Factor, Factors
<1>5. cookie \in [Browsers -> Cookies] /\ page \in [Browsers -> Statuses]
  BY DEF SessionsInit, NoCookies, Cookie, Cookies, Statuses
<1>6. RowsType
  <2>1. hash \in 0..MaxTokens /\ made \in 0..MaxTokens /\ now \in 1..MaxSteps
    BY DEF SessionsInit
  <2>2. /\ retired \subseteq 1..MaxTokens /\ holder \in Browsers \cup {NoBrowser}
        /\ troubled \subseteq Browsers /\ closed \subseteq RecoveryCodes \cup OneTimeCodes
        /\ broken \in BOOLEAN
    BY DEF SessionsInit
  <2> QED BY <1>4, <1>5, <2>1, <2>2 DEF RowsType
<1>7. TokenIInv
  BY <1>1 DEF TokenIInv, TokensAreFresh, OneAtATime, AnswersAreStored, SessionKept, In, SessionsInit
<1>8. AccountIInv
  BY <1>1, <1>4 DEF AccountIInv, AccountIsWhole, In
<1>9. CodeIInv
  <2>0. factor.secret <= factor.secrets
    BY <1>4
  <2>1. closed = {} /\ factor.codes = {} /\ factor.secret <= factor.secrets
    BY <1>4, <2>0 DEF SessionsInit
  <2>2. ClosedSteps = {}
    BY <2>1 DEF ClosedSteps
  <2>3. \A c \in Calls : ~In(c, "spend") /\ ~In(c, "mark")
    BY <1>1 DEF In
  <2> QED BY <2>1, <2>2, <2>3 DEF CodeIInv, UsedCodeStaysUsed, CodesAreKnown, StepsAreOver
<1> QED BY <1>3, <1>6, <1>7, <1>8, <1>9, TypeParts DEF SessionsIInv

LEMMA SessionsStep == SessionsIInv /\ [SessionsNext]_sessionVars => SessionsIInv' /\ NoneRetired
<1> SUFFICES ASSUME SessionsIInv, [SessionsNext]_sessionVars PROVE SessionsIInv' /\ NoneRetired
  OBVIOUS
<1> DEFINE Good == SessionsIInv' /\ NoneRetired
<1>1. ASSUME NEW c \in Calls, NEW b \in Browsers,
             SignUp(c, b) \/ LogIn(c, b) \/ VerifyTotp(c, b) \/ VerifyTotpForSetup(c, b)
      PROVE  Good
  BY <1>1, SignUpSound, LogInSound, VerifyTotpSound, VerifySetupSound
<1>2. ASSUME NEW c \in Calls, NEW b \in Browsers, NEW code \in RecoveryCodes,
             VerifyRecoveryCode(c, b, code)
      PROVE  Good
  BY <1>2, VerifyRecoverySound
<1>3. ASSUME NEW c \in Calls, NEW b \in Browsers, NEW for \in {"page", "session"},
             RefreshSession(c, b, for)
      PROVE  Good
  BY <1>3, RefreshSound
<1>4. ASSUME NEW c \in Calls,
             \/ CreateTenant(c) \/ CreateUser(c) \/ CreateUserFails(c) \/ CreateFreeSubscription(c)
      PROVE  Good
  BY <1>4, CreateTenantSound, CreateUserSound, CreateUserFailsSound, CreateSubscriptionSound
<1>5. ASSUME NEW c \in Calls,
             \/ Challenge(c) \/ MarkTotpStepUsed(c) \/ UpdateRecoveryCodes(c) \/ EnableTotp(c)
      PROVE  Good
  BY <1>5, ChallengeSound, MarkSound, SpendSound, EnableSound
<1>6. ASSUME NEW c \in Calls, IssueFullSession(c) \/ RotateToken(c)
      PROVE  Good
  BY <1>6, StoreSound DEF IssueFullSession, RotateToken, NextToken, In
<1>7. ASSUME NEW c \in Calls, FindByRefreshToken(c) \/ Refused(c) \/ Answer(c) \/ CallFails(c)
      PROVE  Good
  BY <1>7, FindSound, RefusedSound, AnswerSound, CallFailsSound
<1>8. ASSUME NEW b \in Browsers,
             SetupTotp(b) \/ DisableTotp(b) \/ LogOut(b) \/ CheckSession(b) \/ Reload(b) \/ AccessExpires(b)
      PROVE  Good
  BY <1>8, SetupSound, DisableSound, LogOutSound, CheckSessionSound, ReloadSound, AccessExpiresSound
<1>9. ASSUME RefreshExpires \/ StepPasses PROVE Good
  BY <1>9, RefreshExpiresSound, StepPassesSound
<1>10. ASSUME UNCHANGED sessionVars PROVE Good
  <2>1. /\ page' = page /\ UNCHANGED <<serverVars, now, cookie, call, ghostVars>>
    BY <1>10 DEF sessionVars
  <2>2. page \in [Browsers -> Statuses]
    BY TypeParts DEF SessionsIInv, RowsType
  <2> QED BY <2>1, <2>2, PageSound
<1> QED BY <1>1, <1>2, <1>3, <1>4, <1>5, <1>6, <1>7, <1>8, <1>9, <1>10 DEF SessionsNext

THEOREM SessionsInvariance == SessionsSpec => []SessionsIInv
<1>1. SessionsIInv /\ [SessionsNext]_sessionVars => SessionsIInv'
  BY SessionsStep
<1> QED BY <1>1, SessionsStart, PTL DEF SessionsSpec

\* The rows of the account, the cookies and the requests stay well formed.
THEOREM SessionsTypeCorrect == SessionsSpec => []SessionTypeOK
<1>1. SessionsIInv => SessionTypeOK
  BY DEF SessionsIInv, WellFormed
<1> QED BY <1>1, SessionsInvariance, PTL

\* A refresh token that was replaced, cleared or has expired is never accepted again, for
\* any number of browsers and requests, in whatever order they store and clear tokens.
THEOREM RotatedRejected == SessionsSpec => RotatedIsRejected
<1>1. SessionsIInv /\ [SessionsNext]_sessionVars => [NoneRetired]_sessionVars
  BY SessionsStep
<1> QED BY <1>1, SessionsInvariance, PTL DEF SessionsSpec, RotatedIsRejected

\* A browser that sends one request at a time and gets its answers stays signed in,
\* whatever the other browsers of the account do.
THEOREM SessionIsKept == SessionsSpec => []SessionKept
<1>1. SessionsIInv => SessionKept
  BY DEF SessionsIInv, TokenIInv
<1> QED BY <1>1, SessionsInvariance, PTL

\* A code that completed a login while no other code was being used is used up for good.
THEOREM UsedCodesStayUsed == SessionsSpec => []UsedCodeStaysUsed
<1>1. SessionsIInv => UsedCodeStaysUsed
  BY DEF SessionsIInv, CodeIInv
<1> QED BY <1>1, SessionsInvariance, PTL

\* A live business has its owner and its subscription, or its signup runs or was cut short.
THEOREM SignupIsWhole == SessionsSpec => []AccountIsWhole
<1>1. SessionsIInv => AccountIsWhole
  BY DEF SessionsIInv, AccountIInv
<1> QED BY <1>1, SessionsInvariance, PTL
=============================================================================
