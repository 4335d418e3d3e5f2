---------------------------- MODULE VaultLogin -----------------------------
(***************************************************************************)
(* The vault client's logins (pkg/vault/openbao): calls share one client   *)
(* and its token.  A call refused with 403 logs the client in again, unless *)
(* another call has since it began, and is sent once more.                 *)
(*                                                                         *)
(* A token is known by the number of the login that got it; 0 is the one   *)
(* installed at startup.  Each call is one withReauth: a Read, a Write or a *)
(* Delete, whose own effect does not matter here.  Answers are the vault   *)
(* server's: it refuses an expired token, and a call its policy denies.    *)
(***************************************************************************)
EXTENDS Integers

CONSTANTS
    Calls,    \* the calls made of the store
    Denied,   \* those the vault's policy denies whatever the token
    Free      \* not a call: loginMu when nobody holds it

ASSUME VaultLoginAssumption == Denied \subseteq Calls /\ Free \notin Calls

VARIABLES
    reauth,     \* whether a login is configured; it is not with a static token
    token,      \* the client's token
    dead,       \* tokens that have expired
    wasted,     \* history: tokens got for a call the policy denies
    loginMu,    \* who holds the login mutex
    loginGen,   \* logins counted
    pc,         \* where each call is
    seenGen,    \* the generation a call saw when it began
    sent        \* the token it was last sent with

vars == <<reauth, token, dead, wasted, loginMu, loginGen, pc, seenGen, sent>>

Ended == {"ok", "error", "forbidden", "loginFailed"}

TypeOK ==
    /\ reauth \in BOOLEAN
    /\ token \in Nat /\ loginGen \in Nat /\ dead \subseteq Nat /\ wasted \subseteq Nat
    /\ loginMu \in Calls \cup {Free}
    /\ pc \in [Calls -> {"begin", "send", "sent", "refused", "login", "installed",
                         "resend", "resent"} \cup Ended]
    /\ seenGen \in [Calls -> Nat] /\ sent \in [Calls -> Nat]

Init ==
    /\ reauth \in BOOLEAN
    /\ token = 0 /\ dead = {} /\ wasted = {} /\ loginMu = Free /\ loginGen = 0
    /\ pc = [c \in Calls |-> "begin"]
    /\ seenGen = [c \in Calls |-> 0] /\ sent = [c \in Calls |-> 0]

Goto(c, at) == pc' = [pc EXCEPT ![c] = at]

-----------------------------------------------------------------------------
\* A token's time is over, or it is revoked.
Expire ==
    /\ \E t \in 0..token : t \notin dead /\ dead' = dead \cup {t}
    /\ UNCHANGED <<reauth, token, wasted, loginMu, loginGen, pc, seenGen, sent>>

\* currentLoginGen: it waits for a login under way.
currentLoginGen(c) ==
    /\ pc[c] = "begin" /\ loginMu = Free
    /\ seenGen' = [seenGen EXCEPT ![c] = loginGen]
    /\ Goto(c, "send")
    /\ UNCHANGED <<reauth, token, dead, wasted, loginMu, loginGen, sent>>

\* op: the request takes the client's token as it is now, without the mutex.
Send(c) ==
    /\ pc[c] = "send" /\ Goto(c, "sent")
    /\ sent' = [sent EXCEPT ![c] = token]
    /\ UNCHANGED <<reauth, token, dead, wasted, loginMu, loginGen, seenGen>>

Resend(c) ==
    /\ pc[c] = "resend" /\ Goto(c, "resent")
    /\ sent' = [sent EXCEPT ![c] = token]
    /\ UNCHANGED <<reauth, token, dead, wasted, loginMu, loginGen, seenGen>>

\* The vault refuses the token or the call.
Refuses(c) == c \in Denied \/ sent[c] \in dead

\* The operation is answered, or fails for another reason than a 403.
Answered(c) ==
    /\ pc[c] \in {"sent", "resent"}
    /\ \/ ~Refuses(c) /\ Goto(c, "ok")
       \/ Goto(c, "error")
    /\ UNCHANGED <<reauth, token, dead, wasted, loginMu, loginGen, seenGen, sent>>

\* A 403: the first one leads to a login if there is one, the second is returned.
Refused(c) ==
    /\ pc[c] \in {"sent", "resent"} /\ Refuses(c)
    /\ Goto(c, IF pc[c] = "sent" /\ reauth THEN "refused" ELSE "forbidden")
    /\ UNCHANGED <<reauth, token, dead, wasted, loginMu, loginGen, seenGen, sent>>

-----------------------------------------------------------------------------
(***************************************************************************)
(* reauthOnce, holding loginMu throughout.                                 *)
(***************************************************************************)
\* Mutant of Lock: the generation is not looked at.
LockAlways(c) ==
    /\ pc[c] = "refused" /\ loginMu = Free
    /\ loginMu' = c /\ Goto(c, "login")
    /\ UNCHANGED <<reauth, token, dead, wasted, loginGen, seenGen, sent>>

\* Another call has logged in since this one began, or this one does.
Lock(c) ==
    /\ pc[c] = "refused" /\ loginMu = Free
    /\ IF loginGen # seenGen[c]
       THEN Goto(c, "resend") /\ UNCHANGED loginMu
       ELSE Goto(c, "login") /\ loginMu' = c
    /\ UNCHANGED <<reauth, token, dead, wasted, loginGen, seenGen, sent>>

\* Mutant of LoginFails: the login is counted all the same.
LoginFailsCounted(c) ==
    /\ pc[c] = "login" /\ Goto(c, "loginFailed")
    /\ loginMu' = Free /\ loginGen' = loginGen + 1
    /\ UNCHANGED <<reauth, token, dead, wasted, seenGen, sent>>

\* Mutant of LoginFails: the mutex is not given back.
LoginFailsLocked(c) ==
    /\ pc[c] = "login" /\ Goto(c, "loginFailed")
    /\ UNCHANGED <<reauth, token, dead, wasted, loginMu, loginGen, seenGen, sent>>

\* AppRoleLogin fails: the call ends, the generation stays.
LoginFails(c) ==
    /\ pc[c] = "login" /\ Goto(c, "loginFailed")
    /\ loginMu' = Free
    /\ UNCHANGED <<reauth, token, dead, wasted, loginGen, seenGen, sent>>

\* AppRoleLogin sets the new token on the client, where others read it at once.
SetToken(c) ==
    /\ pc[c] = "login" /\ Goto(c, "installed")
    /\ token' = token + 1
    /\ wasted' = wasted \cup (IF c \in Denied THEN {token'} ELSE {})
    /\ UNCHANGED <<reauth, dead, loginMu, loginGen, seenGen, sent>>

\* The login is counted and the mutex given back.
CountLogin(c) ==
    /\ pc[c] = "installed" /\ Goto(c, "resend")
    /\ loginGen' = loginGen + 1 /\ loginMu' = Free
    /\ UNCHANGED <<reauth, token, dead, wasted, seenGen, sent>>

Step(c) ==
    \/ currentLoginGen(c) \/ Send(c) \/ Resend(c) \/ Answered(c) \/ Refused(c)
    \/ Lock(c) \/ LoginFails(c) \/ SetToken(c) \/ CountLogin(c)

Next == Expire \/ \E c \in Calls : Step(c)

\* Every call's goroutine runs on, and the server answers or the context ends.
Spec == Init /\ [][Next]_vars /\ \A c \in Calls : WF_vars(Step(c))

-----------------------------------------------------------------------------
(***************************************************************************)
(* Properties.                                                             *)
(***************************************************************************)

\* However many calls are refused at once, a login is made only for a token that
\* the call making it was refused with, and that is still the client's: no login
\* replaces a token another call has just got.
LoginReplacesTheRefused ==
    \A c \in Calls : pc[c] = "login" => sent[c] = token

\* A call the policy allows ends with a 403 only when two tokens in a row have expired,
\* neither older than the client's when the call began; or the second alone, if the login
\* that got it was for a call the policy denies.  Among calls the policy allows, one
\* expiry with a login that works is never a caller's failure, whoever makes the login.
OneExpiryIsSurvived ==
    \A c \in Calls \ Denied : pc[c] = "forbidden" /\ reauth =>
        /\ sent[c] \in dead /\ sent[c] > seenGen[c]
        /\ sent[c] - 1 \in dead \/ sent[c] \in wasted

\* Every call ends, though logins fail while others wait for the mutex.
CallsEnd == \A c \in Calls : <>(pc[c] \in Ended)
=============================================================================
