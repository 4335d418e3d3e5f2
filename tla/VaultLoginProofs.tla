------------------------- MODULE VaultLoginProofs --------------------------
(***************************************************************************)
(* Proofs about VaultLogin, for any set of calls, any number of them       *)
(* denied.  The argument: the client's token is the generation's, except   *)
(* for the holder of the mutex that has just set the next one; so a token  *)
(* taken since a call began is not older than the generation it saw, and a *)
(* call that is sent again takes a newer one.  Every token but the first   *)
(* was got for a call that was refused with the one before it, which had   *)
(* expired unless the call is denied.                                      *)
(***************************************************************************)
EXTENDS VaultLogin, TLAPS

\* The mutex is held from the login to its count, and by nobody else.
MutexHeld == \A c \in Calls : pc[c] \in {"login", "installed"} <=> loginMu = c

\* The token is the generation's, or the next one until it is counted.
TokenCounted ==
    /\ \A c \in Calls : pc[c] = "installed" => token = loginGen + 1
    /\ (\A c \in Calls : pc[c] # "installed") => token = loginGen

\* How a call's tokens stand to the generation it saw.
CallTokens(c) ==
    /\ seenGen[c] <= loginGen /\ sent[c] <= token
    /\ pc[c] \in {"sent", "refused", "login"} => seenGen[c] <= sent[c]
    /\ pc[c] = "login" => seenGen[c] = loginGen
    /\ pc[c] \in {"refused", "login"} => Refuses(c)
    /\ pc[c] = "resend" => seenGen[c] < loginGen
    /\ pc[c] = "resent" => seenGen[c] < sent[c]
    /\ pc[c] = "forbidden" /\ reauth /\ c \notin Denied =>
          sent[c] \in dead /\ seenGen[c] < sent[c]

\* Why each token after the first was got.
TokensAccounted == \A t \in 1..token : t - 1 \in dead \/ t \in wasted

IInv == TypeOK /\ MutexHeld /\ TokenCounted /\ TokensAccounted /\ \A c \in Calls : CallTokens(c)

LEMMA InitIInv == Init => IInv
BY VaultLoginAssumption
DEF Init, IInv, TypeOK, MutexHeld, TokenCounted, TokensAccounted, CallTokens, Ended

\* The token is never behind the generation, and ahead only under the mutex.
LEMMA TokenNotBehind ==
    ASSUME IInv PROVE /\ loginGen <= token
                      /\ loginMu = Free => token = loginGen
                      /\ \A c \in Calls : pc[c] = "login" => token = loginGen
<1>1. CASE \E c \in Calls : pc[c] = "installed"
  BY <1>1, VaultLoginAssumption DEF IInv, TypeOK, MutexHeld, TokenCounted
<1>2. CASE \A c \in Calls : pc[c] # "installed"
  BY <1>2 DEF IInv, TypeOK, TokenCounted
<1>3. QED
  BY <1>1, <1>2

LEMMA StepTypeOK == IInv /\ [Next]_vars => TypeOK'
<1> SUFFICES ASSUME IInv, [Next]_vars PROVE TypeOK'
  OBVIOUS
<1> USE DEF TypeOK, Ended, Goto
<1>1. CASE UNCHANGED vars
  BY <1>1 DEF IInv, vars
<1>2. CASE Expire
  BY <1>2 DEF IInv, Expire
<1>3. ASSUME NEW c \in Calls, Step(c) PROVE TypeOK'
  <2>1. CASE currentLoginGen(c)
    BY <2>1 DEF IInv, currentLoginGen
  <2>2. CASE Send(c)
    BY <2>2 DEF IInv, Send
  <2>3. CASE Resend(c)
    BY <2>3 DEF IInv, Resend
  <2>4. CASE Answered(c)
    BY <2>4 DEF IInv, Answered
  <2>5. CASE Refused(c)
    BY <2>5 DEF IInv, Refused
  <2>6. CASE Lock(c)
    BY <2>6 DEF IInv, Lock
  <2>7. CASE LoginFails(c)
    BY <2>7 DEF IInv, LoginFails
  <2>8. CASE SetToken(c)
    BY <2>8 DEF IInv, SetToken
  <2>9. CASE CountLogin(c)
    BY <2>9 DEF IInv, CountLogin
  <2>10. QED
    BY <1>3, <2>1, <2>2, <2>3, <2>4, <2>5, <2>6, <2>7, <2>8, <2>9 DEF Step
<1>4. QED
  BY <1>1, <1>2, <1>3 DEF Next

\* The mutex protocol, and the token that goes with it.
LEMMA StepMutex == IInv /\ [Next]_vars => MutexHeld' /\ TokenCounted'
<1> SUFFICES ASSUME IInv, [Next]_vars PROVE MutexHeld' /\ TokenCounted'
  OBVIOUS
<1>0. /\ TypeOK /\ MutexHeld /\ TokenCounted
      /\ loginMu = Free => token = loginGen
      /\ \A c \in Calls : pc[c] = "login" => token = loginGen
  BY TokenNotBehind DEF IInv
<1> USE VaultLoginAssumption DEF TypeOK, MutexHeld, TokenCounted, Goto
<1>1. CASE UNCHANGED vars
  BY <1>0, <1>1 DEF vars
<1>2. CASE Expire
  BY <1>0, <1>2 DEF Expire
<1>3. ASSUME NEW c \in Calls, Step(c) PROVE MutexHeld' /\ TokenCounted'
  <2>1. CASE currentLoginGen(c)
    BY <1>0, <2>1 DEF currentLoginGen
  <2>2. CASE Send(c)
    BY <1>0, <2>2 DEF Send
  <2>3. CASE Resend(c)
    BY <1>0, <2>3 DEF Resend
  <2>4. CASE Answered(c)
    BY <1>0, <2>4 DEF Answered
  <2>5. CASE Refused(c)
    BY <1>0, <2>5 DEF Refused
  <2>6. CASE Lock(c)
    BY <1>0, <2>6 DEF Lock
  <2>7. CASE LoginFails(c)
    BY <1>0, <2>7 DEF LoginFails
  <2>8. CASE SetToken(c)
    BY <1>0, <2>8 DEF SetToken
  <2>9. CASE CountLogin(c)
    BY <1>0, <2>9 DEF CountLogin
  <2>10. QED
    BY <1>3, <2>1, <2>2, <2>3, <2>4, <2>5, <2>6, <2>7, <2>8, <2>9 DEF Step
<1>4. QED
  BY <1>1, <1>2, <1>3 DEF Next

\* A step keeps every call's tokens in order: its own, which it changes, and the
\* others', whose generation and token only grow.
LEMMA StepTokens == IInv /\ [Next]_vars => \A d \in Calls : CallTokens(d)'
<1> SUFFICES ASSUME IInv, [Next]_vars, NEW d \in Calls PROVE CallTokens(d)'
  OBVIOUS
<1>0. /\ TypeOK /\ MutexHeld /\ CallTokens(d)
      /\ loginGen <= token
      /\ loginMu = Free => token = loginGen
      /\ \A c \in Calls : pc[c] = "login" => token = loginGen
  BY TokenNotBehind DEF IInv
<1> USE VaultLoginAssumption DEF TypeOK, CallTokens, Goto, Refuses
<1>1. CASE UNCHANGED vars
  BY <1>0, <1>1 DEF vars
<1>2. CASE Expire
  BY <1>0, <1>2 DEF Expire
<1>3. ASSUME NEW c \in Calls, Step(c) PROVE CallTokens(d)'
  <2>1. CASE currentLoginGen(c)
    BY <1>0, <2>1 DEF currentLoginGen
  <2>2. CASE Send(c)
    BY <1>0, <2>2 DEF Send
  <2>3. CASE Resend(c)
    BY <1>0, <2>3 DEF Resend
  <2>4. CASE Answered(c)
    BY <1>0, <2>4 DEF Answered
  <2>5. CASE Refused(c)
    BY <1>0, <2>5 DEF Refused
  <2>6. CASE Lock(c)
    BY <1>0, <2>6 DEF Lock
  <2>7. CASE LoginFails(c)
    BY <1>0, <2>7 DEF LoginFails
  <2>8. CASE SetToken(c)
    BY <1>0, <2>8 DEF SetToken
  <2>9. CASE CountLogin(c)
    BY <1>0, <2>9 DEF CountLogin, MutexHeld
  <2>10. QED
    BY <1>3, <2>1, <2>2, <2>3, <2>4, <2>5, <2>6, <2>7, <2>8, <2>9 DEF Step
<1>4. QED
  BY <1>1, <1>2, <1>3 DEF Next

\* A new token follows an expired one, or it is got for a denied call.
LEMMA StepAccounts == IInv /\ [Next]_vars => TokensAccounted'
<1> SUFFICES ASSUME IInv, [Next]_vars PROVE TokensAccounted'
  OBVIOUS
<1>0. TypeOK /\ TokensAccounted
  BY DEF IInv
<1>1. CASE dead \subseteq dead' /\ UNCHANGED <<token, wasted>>
  BY <1>0, <1>1 DEF TokensAccounted
<1>2. ASSUME NEW c \in Calls, SetToken(c) PROVE TokensAccounted'
  <2>1. /\ token' = token + 1 /\ dead' = dead /\ wasted \subseteq wasted'
        /\ c \in Denied => token + 1 \in wasted'
    BY <1>2 DEF SetToken
  <2>2. token \in dead \/ c \in Denied
    <3>1. pc[c] = "login" /\ CallTokens(c) /\ token = loginGen
      BY <1>2, TokenNotBehind DEF SetToken, IInv
    <3>2. sent[c] = token
      BY <1>0, <3>1 DEF TypeOK, CallTokens
    <3>3. QED
      BY <3>1, <3>2 DEF CallTokens, Refuses
  <2>3. \A t \in 1..token' : t \in 1..token \/ t = token + 1
    BY <1>0, <2>1 DEF TypeOK
  <2>4. (token + 1) - 1 = token
    BY <1>0 DEF TypeOK
  <2>5. QED
    BY <1>0, <2>1, <2>2, <2>3, <2>4 DEF TokensAccounted
<1>3. QED
  BY <1>1, <1>2 DEF Next, Step, vars, Expire, currentLoginGen, Send, Resend, Answered, Refused,
                    Lock, LoginFails, CountLogin

LEMMA AlwaysIInv == Spec => []IInv
<1>1. IInv /\ [Next]_vars => IInv'
  BY StepTypeOK, StepMutex, StepTokens, StepAccounts DEF IInv
<1>2. QED
  BY InitIInv, <1>1, PTL DEF Spec

\* Among any number of calls refused at once, a login is made only for the token
\* the call was refused with, while it is still the client's.
THEOREM LoginsReplaceTheRefused == Spec => []LoginReplacesTheRefused
<1>1. IInv => LoginReplacesTheRefused
  <2> SUFFICES ASSUME IInv, NEW c \in Calls, pc[c] = "login" PROVE sent[c] = token
    BY DEF LoginReplacesTheRefused
  <2>1. token = loginGen
    BY TokenNotBehind
  <2>2. QED
    BY <2>1 DEF IInv, TypeOK, CallTokens
<1>2. QED
  BY AlwaysIInv, <1>1, PTL

\* A call that the policy allows is refused for good only when a token got since it began
\* and the one before have expired, or that token alone if a denied call's login got it.
THEOREM OneExpiryIsAlwaysSurvived == Spec => []OneExpiryIsSurvived
<1>1. IInv => OneExpiryIsSurvived
  <2> SUFFICES ASSUME IInv, NEW c \in Calls \ Denied, pc[c] = "forbidden", reauth
               PROVE  /\ sent[c] \in dead /\ sent[c] > seenGen[c]
                      /\ sent[c] - 1 \in dead \/ sent[c] \in wasted
    BY DEF OneExpiryIsSurvived
  <2>1. sent[c] \in dead /\ seenGen[c] < sent[c] /\ sent[c] \in 1..token
    BY DEF IInv, TypeOK, CallTokens
  <2>2. QED
    BY <2>1 DEF IInv, TypeOK, TokensAccounted
<1>2. QED
  BY AlwaysIInv, <1>1, PTL
=============================================================================
