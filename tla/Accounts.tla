------------------------------- MODULE Accounts -------------------------------
(***************************************************************************)
(* Accounts, login factors and browser sessions                            *)
(* (internal/portal/auth.go, security.go, passkeys.go, saveMember and the  *)
(* factor reset of the administrators).                                    *)
(*                                                                         *)
(* Nothing is locked between the database calls of a handler.  A handler   *)
(* loads its session row when it begins, works on that private copy while  *)
(* other handlers run, and writes the whole copy back when it answers.     *)
(* What keeps this sound is the account's generation: every change that    *)
(* ends sessions increments it, and a session counts only while it names   *)
(* the current one.  A call of a handler is a member of Call; its field    *)
(* "at" is the database call it makes next.                                *)
(*                                                                         *)
(* A refusal that depends on what this module leaves out (a wrong password *)
(* or code, a rate limit, an elapsed time) is the action Fail, possible at *)
(* every stage.                                                            *)
(***************************************************************************)
EXTENDS Naturals, FiniteSets

CONSTANTS User, Key, Token, Challenge, Link, Call,  \* identities
          NoUser, NoKey, NoToken, NoChallenge,      \* their absence
          NewToken,      \* a session token drawn, and not yet stored
          Step,          \* time steps whose authenticator codes are typed
          MaxGen         \* bound on an account's generation

Purpose == {"totp", "register", "passkey-login"}
AdminOps == {"save-member", "issue-reset", "issue-invite", "revoke-link", "factor-reset"}
FactorOps == {"totp-start", "totp-confirm", "register-begin", "register-finish"}
FullOps == {"totp-remove", "key-remove", "codes", "reauth", "password"}
OpenOps == {"login", "recovery", "passkey-begin", "passkey-finish", "browse"}
LocalOps == {"local"}   \* the command line of the host
AllOps == LocalOps \cup AdminOps \cup FactorOps \cup FullOps \cup OpenOps \cup {"verify"}

ASSUME AbsenceAssumption ==
    /\ NoUser \notin User /\ NoKey \notin Key /\ NoChallenge \notin Challenge
    /\ NoToken \notin Token /\ NewToken \notin Token /\ NoToken # NewToken
ASSUME BoundAssumption == Step \subseteq Nat \ {0} /\ MaxGen \in Nat \ {0}

VARIABLES
    account,    \* users with account_security, passkeys and recovery_codes
    link,       \* open rows of tokens: invitations and recovery links
    challenge,  \* auth_challenges
    session,    \* the sessions table
    call,       \* handlers in progress
    accepted    \* history: acceptances of a step's code, per authenticator secret

vars == <<account, link, challenge, session, call, accepted>>
tables == <<account, link, challenge>>

NoAccount == [role |-> "none", enabled |-> TRUE, gen |-> 1, password |-> 1, locked |-> FALSE,
              totp |-> 0, last |-> 0, keys |-> {}, codes |-> FALSE]
NoRow == [user |-> NoUser, kind |-> "none", gen |-> 0]
Anonymous == [mode |-> "anonymous", who |-> NoUser, gen |-> 0, password |-> 0,
              key |-> NoKey, challenge |-> [p \in Purpose |-> NoChallenge]]
NoSession == [Anonymous EXCEPT !.mode = "none"]
Idle == [op |-> "idle", at |-> "idle", token |-> NoToken, copy |-> Anonymous, user |-> NoUser,
         gen |-> 0, subject |-> NoUser, next |-> 0, password |-> 0, key |-> NoKey,
         taken |-> NoChallenge]

-----------------------------------------------------------------------------
(* Reading the tables.  A password and an authenticator secret are named by *)
(* the generation that the change writing them produced: 0 is none.         *)
Exists(u) == account[u].role # "none"
Valid(u, gen) == u \in User /\ Exists(u) /\ account[u].enabled /\ account[u].gen = gen
HasFactor(u) == account[u].totp # 0 \/ account[u].keys # {}
FactorCount(u) == Cardinality(account[u].keys) + (IF account[u].totp # 0 THEN 1 ELSE 0)
Administrators == {u \in User : account[u].role = "admin" /\ account[u].enabled}
Stale(copy) == copy.mode = "full" /\ ~Valid(copy.who, copy.gen)   \* current
Live(t) == session[t].mode = "full" /\ Valid(session[t].who, session[t].gen)
LinksTo(u, kind) == {l \in Link : link[l].user = u /\ link[l].kind = kind}
LinksOf(u) == LinksTo(u, "reset") \cup LinksTo(u, "factor")   \* an invitation names no account

UnusedToken == {t \in Token : session[t].mode = "none" /\ \A c \in Call : call[c].token # t}
UnusedKey ==
    {k \in Key : /\ \A u \in User : k \notin account[u].keys
                 /\ \A t \in Token : session[t].key # k
                 /\ \A c \in Call : call[c].key # k /\ call[c].copy.key # k}
UnusedChallenge ==   \* named by no session; a row it may still have is an expired one
    {h \in Challenge : /\ \A t \in Token, p \in Purpose : session[t].challenge[p] # h
                       /\ \A c \in Call : /\ call[c].taken # h
                                          /\ \A p \in Purpose : call[c].copy.challenge[p] # h}

-----------------------------------------------------------------------------
(* Changes of an account, each one inside a transaction *)
CanChange(u) == Exists(u) /\ account[u].gen < MaxGen
Bumped(a) == [a EXCEPT !.gen = @ + 1]
WithPassword(a) == [Bumped(a) EXCEPT !.password = a.gen + 1]
WithoutFactors_SameGeneration(a) ==
    [a EXCEPT !.totp = 0, !.last = 0, !.keys = {}, !.codes = FALSE]
WithoutFactors(a) ==
    [Bumped(a) EXCEPT !.totp = 0, !.last = 0, !.keys = {}, !.codes = FALSE]

Consume(links) == [l \in Link |-> IF l \in links THEN NoRow ELSE link[l]]
WithoutChallengesOf(u) ==
    [h \in Challenge |-> IF challenge[h].user = u THEN NoRow ELSE challenge[h]]
Accept(u, s) == [accepted EXCEPT ![u][s] = IF @ < 2 THEN @ + 1 ELSE @]
NewSecret(u) == [accepted EXCEPT ![u] = [s \in Step |-> 0]]

ClearFactors(u) ==
    /\ account' = [account EXCEPT ![u] = WithoutFactors(@)]
    /\ challenge' = WithoutChallengesOf(u)
    /\ accepted' = NewSecret(u)

-----------------------------------------------------------------------------
(* The private copy of the session *)
Forget(t) == [s \in Token |-> IF s = t THEN NoSession ELSE session[s]]

(* A handler that has its result keeps nothing but its copy, and is over if  *)
(* that copy holds nothing and has no row.  Pages that show the account      *)
(* resolve the session once more before they are rendered.                   *)
Answered(stage, token, copy) ==
    IF token = NoToken /\ copy = Anonymous THEN Idle
    ELSE [Idle EXCEPT !.op = "browse", !.at = stage, !.token = token, !.copy = copy]
Answer(op) ==
    IF op \in AdminOps \cup {"totp-start", "totp-confirm", "totp-remove", "key-remove", "codes", "reauth"}
    THEN "page" ELSE "save"

(* RenewToken deletes the row at once; the new one is written by Save. *)
Pending(c, mode) ==
    LET copy == [call[c].copy EXCEPT !.mode = mode, !.who = call[c].subject,
                     !.gen = call[c].next, !.password = call[c].password, !.key = NoKey]
    IN  /\ session' = Forget(call[c].token)
        /\ call' = [call EXCEPT ![c] = Answered("save", NewToken, copy)]
        /\ UNCHANGED <<tables, accepted>>

At(c, op, stage) == call[c].op \in op /\ call[c].at = stage
Goto(c, stage) == call' = [call EXCEPT ![c].at = stage]
Identity(c) == Valid(call[c].user, call[c].gen)   \* securityIdentity

PurposeOf(op) == CASE op \in {"totp-start", "totp-confirm"} -> "totp"
                   [] op \in {"register-begin", "register-finish"} -> "register"
                   [] OTHER -> "passkey-login"

-----------------------------------------------------------------------------
Init ==
    /\ account = [u \in User |-> NoAccount]
    /\ link = [l \in Link |-> NoRow]
    /\ challenge = [h \in Challenge |-> NoRow]
    /\ session = [t \in Token |-> NoSession]
    /\ call = [c \in Call |-> Idle]
    /\ accepted = [u \in User |-> [s \in Step |-> 0]]

(* What the session lets its holder begin; everything else is refused at    *)
(* once, which leaves what "browse" leaves.                                 *)
Admits(op, copy) ==
    \/ op \in OpenOps
    \/ op = "verify" /\ copy.mode = "verify"
    \/ op \in FactorOps /\ copy.mode \in {"enroll", "full"}
    \/ op \in FullOps /\ copy.mode = "full"
    \/ op \in AdminOps /\ copy.mode = "full" /\ account[copy.who].role = "admin"

Entry(op) ==
    CASE op \in {"login", "password"} -> "compare"
      [] op = "recovery" -> "code"
      [] op \in {"verify", "reauth"} -> "totp"
      [] op \in {"totp-start", "passkey-begin"} -> "issue"
      [] op \in {"totp-confirm", "passkey-finish"} -> "take"
      [] op \in {"register-begin", "register-finish"} -> "identity"
      [] OTHER -> "change"

(* A request arrives: its session is loaded and resolved to an account.  A  *)
(* full session that no longer names the account's generation is destroyed. *)
(* A login asks nothing of the account that the session names.              *)
Begin(c, op, t) ==
    LET loaded == IF t = NoToken THEN Anonymous ELSE session[t]
        stale == Stale(loaded)
        known == op \notin {"login", "recovery"} /\ ~stale /\ Valid(loaded.who, loaded.gen)
        copy == IF stale THEN Anonymous ELSE loaded
        token == IF stale THEN NoToken ELSE t
    IN  /\ call[c].op = "idle"
        /\ loaded.mode # "none"
        /\ op \in OpenOps \/ known
        /\ Admits(op, copy)
        /\ session' = IF stale THEN Forget(t) ELSE session
        /\ call' = [call EXCEPT ![c] = IF op = "browse" THEN Answered("save", token, copy) ELSE
               [Idle EXCEPT !.op = op, !.at = Entry(op), !.copy = copy, !.token = token,
                            !.user = IF known THEN loaded.who ELSE NoUser,
                            !.gen = IF known THEN loaded.gen ELSE 0,
                            !.subject = IF known THEN loaded.who ELSE NoUser,
                            !.next = IF known THEN loaded.gen ELSE 0]]
        /\ UNCHANGED <<tables, accepted>>

-----------------------------------------------------------------------------
(* Password and recovery-code login *)

(* The right password of an enabled account; its generation is remembered. *)
LoginCompare(c) ==
    /\ At(c, {"login"}, "compare")
    /\ \E u \in User :
        /\ Exists(u) /\ account[u].enabled
        /\ call' = [call EXCEPT ![c].at = "again", ![c].subject = u,
                                ![c].next = account[u].gen, ![c].password = account[u].password]
    /\ UNCHANGED <<tables, session, accepted>>

RecoveryCode(c) ==
    /\ At(c, {"recovery"}, "code")
    /\ \E u \in User :
        /\ account[u].enabled /\ account[u].codes /\ CanChange(u)
        /\ ClearFactors(u)
        /\ link' = Consume(LinksOf(u))
        /\ call' = [call EXCEPT ![c].at = "again", ![c].subject = u,
                                ![c].next = account[u].gen + 1, ![c].password = 0]
    /\ UNCHANGED session

(* Both read the account a second time and go on only in the generation the *)
(* first step belongs to.                                                   *)
Again_CurrentGeneration(c) ==
    LET u == call[c].subject
    IN  /\ At(c, {"login", "recovery"}, "again")
        /\ Exists(u) /\ account[u].enabled
        /\ call' = [call EXCEPT ![c].at = "mode", ![c].next = account[u].gen]
        /\ UNCHANGED <<tables, session, accepted>>
Again(c) ==
    /\ At(c, {"login", "recovery"}, "again")
    /\ Valid(call[c].subject, call[c].next)
    /\ Goto(c, "mode")
    /\ UNCHANGED <<tables, session, accepted>>

LoginMode_Unknown(c) ==
    /\ At(c, {"login"}, "mode")
    /\ ~account[call[c].subject].locked
    /\ Pending(c, IF HasFactor(call[c].subject) THEN "pending" ELSE "enroll")
(* The lock and the factors are read by three queries, here at once: what a *)
(* change between them could mix ends with the generation that Again read.  *)
LoginMode(c) ==
    /\ At(c, {"login"}, "mode")
    /\ ~account[call[c].subject].locked
    /\ Pending(c, IF HasFactor(call[c].subject) THEN "verify" ELSE "enroll")

RecoveryMode(c) == At(c, {"recovery"}, "mode") /\ Pending(c, "enroll")

-----------------------------------------------------------------------------
(* Authenticator codes and the end of a login *)
Later_OrSame(u, s) == s >= account[u].last
Later(u, s) == s > account[u].last   \* validStep

CheckTOTP(c) ==
    LET u == call[c].user
    IN  /\ At(c, {"verify", "reauth"}, "totp")
        /\ Identity(c) /\ account[u].totp # 0
        /\ \E s \in Step :
            /\ Later(u, s)
            /\ account' = [account EXCEPT ![u].last = s]
            /\ accepted' = Accept(u, s)
        /\ IF call[c].op = "verify" THEN Goto(c, "sign")
           ELSE call' = [call EXCEPT ![c] = Answered("page", call[c].token, call[c].copy)]
        /\ UNCHANGED <<link, challenge, session>>

SignedIn(c) ==
    LET viaKey == call[c].op = "passkey-finish"
        copy == [call[c].copy EXCEPT !.mode = "full", !.who = call[c].subject,
                     !.gen = call[c].next,
                     !.password = IF viaKey THEN 0 ELSE @,
                     !.key = IF viaKey THEN call[c].key ELSE @]
    IN  /\ call[c].at = "sign"
        /\ Valid(call[c].subject, call[c].next)
        /\ session' = Forget(call[c].token)
        /\ call' = [call EXCEPT ![c] = Answered(Answer(call[c].op), NewToken, copy)]
        /\ UNCHANGED <<tables, accepted>>

-----------------------------------------------------------------------------
(* Challenges: one row per ceremony, named by the session that began it *)
Resolve(c) ==   \* passkeyUser
    /\ At(c, {"register-begin", "register-finish"}, "identity")
    /\ Identity(c)
    /\ Goto(c, IF call[c].op = "register-begin" THEN "issue" ELSE "take")
    /\ UNCHANGED <<tables, session, accepted>>

Issue(c) ==
    LET p == PurposeOf(call[c].op)
        old == call[c].copy.challenge[p]
    IN  /\ call[c].at = "issue"
        /\ \E h \in UnusedChallenge, expired \in SUBSET Challenge :
            /\ challenge' = [g \in Challenge |->
                   IF g = h THEN [user |-> call[c].user, kind |-> p, gen |-> call[c].gen]
                   ELSE IF g \in expired \cup {old} THEN NoRow ELSE challenge[g]]
            /\ call' = [call EXCEPT ![c] = Answered(Answer(call[c].op), call[c].token,
                                             [call[c].copy EXCEPT !.challenge[p] = h])]
        /\ UNCHANGED <<account, link, session, accepted>>

Popped(c) ==
    LET p == PurposeOf(call[c].op)
    IN  [call[c] EXCEPT !.copy.challenge[p] = NoChallenge]

Take_KeepsRow(c) ==
    LET p == PurposeOf(call[c].op)
        h == call[c].copy.challenge[p]
        u == call[c].user
    IN  /\ call[c].at = "take"
        /\ h \in Challenge /\ challenge[h].kind = p
        /\ u # NoUser => challenge[h].user = u /\ challenge[h].gen = call[c].gen
        /\ call' = [call EXCEPT ![c] = [Popped(c) EXCEPT !.taken = h,
                        !.at = IF call[c].op = "passkey-finish" THEN "find" ELSE "enroll"]]
        /\ UNCHANGED <<tables, session, accepted>>
Take(c) ==
    LET p == PurposeOf(call[c].op)
        h == call[c].copy.challenge[p]
        u == call[c].user
    IN  /\ call[c].at = "take"
        /\ h \in Challenge /\ challenge[h].kind = p
        /\ u # NoUser => challenge[h].user = u /\ challenge[h].gen = call[c].gen
        /\ challenge' = [challenge EXCEPT ![h] = NoRow]
        /\ call' = [call EXCEPT ![c] = [Popped(c) EXCEPT !.taken = h,
                        !.at = IF call[c].op = "passkey-finish" THEN "find" ELSE "enroll"]]
        /\ UNCHANGED <<account, link, session, accepted>>

-----------------------------------------------------------------------------
(* Passkey login *)
FindKey(c) ==
    /\ At(c, {"passkey-finish"}, "find")
    /\ \E u \in User, k \in Key :
        /\ k \in account[u].keys /\ call[c].user \in {NoUser, u}
        /\ call' = [call EXCEPT ![c].at = "owner", ![c].subject = u, ![c].key = k]
    /\ UNCHANGED <<tables, session, accepted>>

KeyOwner(c) ==
    LET u == call[c].subject
    IN  /\ At(c, {"passkey-finish"}, "owner")
        /\ account[u].enabled
        /\ call' = [call EXCEPT ![c].at = "use", ![c].next = account[u].gen]
        /\ UNCHANGED <<tables, session, accepted>>

UseKey_NotLookedUp(c) ==
    /\ At(c, {"passkey-finish"}, "use")
    /\ Valid(call[c].subject, call[c].next)
    /\ Goto(c, "sign")
    /\ UNCHANGED <<tables, session, accepted>>
(* The credential's row must still be there to record its use. *)
UseKey(c) ==
    /\ At(c, {"passkey-finish"}, "use")
    /\ Valid(call[c].subject, call[c].next)
    /\ call[c].key \in account[call[c].subject].keys
    /\ Goto(c, "sign")
    /\ UNCHANGED <<tables, session, accepted>>

-----------------------------------------------------------------------------
(* Changes of the holder's own factors and password *)
Own(c, a) ==   \* the account becomes a, and the call goes on in its generation
    /\ account' = [account EXCEPT ![call[c].user] = a]
    /\ call' = [call EXCEPT ![c].next = a.gen, ![c].at = "sign"]

EnrollTOTP_NotAsked(c) ==
    LET u == call[c].user
    IN  /\ At(c, {"totp-confirm"}, "enroll")
        /\ CanChange(u)
        /\ \E s \in Step :
            /\ Own(c, [Bumped(account[u]) EXCEPT !.totp = account[u].gen + 1, !.last = s,
                                                 !.codes = TRUE])
            /\ accepted' = [NewSecret(u) EXCEPT ![u][s] = 1]
        /\ UNCHANGED <<link, challenge, session>>
EnrollTOTP(c) ==
    LET u == call[c].user
    IN  /\ At(c, {"totp-confirm"}, "enroll")
        /\ Identity(c) /\ CanChange(u)
        /\ \E s \in Step :
            /\ Own(c, [Bumped(account[u]) EXCEPT !.totp = account[u].gen + 1, !.last = s,
                                                 !.codes = TRUE])
            /\ accepted' = [NewSecret(u) EXCEPT ![u][s] = 1]
        /\ UNCHANGED <<link, challenge, session>>

EnrollKey(c) ==
    LET u == call[c].user
    IN  /\ At(c, {"register-finish"}, "enroll")
        /\ Identity(c) /\ CanChange(u)
        /\ \E k \in UnusedKey :
            Own(c, [Bumped(account[u]) EXCEPT !.keys = @ \cup {k}, !.codes = TRUE])
        /\ UNCHANGED <<link, challenge, session, accepted>>

RemoveTOTP(c) ==
    LET u == call[c].user
    IN  /\ At(c, {"totp-remove"}, "change")
        /\ Identity(c) /\ CanChange(u) /\ account[u].keys # {}
        /\ Own(c, [Bumped(account[u]) EXCEPT !.totp = 0, !.last = 0])
        /\ accepted' = NewSecret(u)
        /\ UNCHANGED <<link, challenge, session>>

RemoveKey(c) ==
    LET u == call[c].user
    IN  /\ At(c, {"key-remove"}, "change")
        /\ Identity(c) /\ CanChange(u) /\ FactorCount(u) >= 2
        /\ \E k \in account[u].keys :
            /\ account' = [account EXCEPT ![u] = [Bumped(account[u]) EXCEPT !.keys = @ \ {k}]]
            /\ call' = [call EXCEPT ![c].next = account[u].gen + 1, ![c].at = "sign",
                                    ![c].copy.key = IF @ = k THEN NoKey ELSE @]
        /\ UNCHANGED <<link, challenge, session, accepted>>

NewCodes(c) ==
    LET u == call[c].user
    IN  /\ At(c, {"codes"}, "change")
        /\ Identity(c) /\ CanChange(u)
        /\ Own(c, [Bumped(account[u]) EXCEPT !.codes = TRUE])
        /\ UNCHANGED <<link, challenge, session, accepted>>

PasswordCompare(c) ==
    /\ At(c, {"password"}, "compare")
    /\ Goto(c, "write")
    /\ UNCHANGED <<tables, session, accepted>>

(* The session's generation is not asked for again here.  The session is    *)
(* destroyed after the commit, which already ended every one of the account. *)
ChangePassword(c) ==
    LET u == call[c].user
    IN  /\ At(c, {"password"}, "write")
        /\ CanChange(u)
        /\ account' = [account EXCEPT ![u] = WithPassword(@)]
        /\ link' = Consume(LinksOf(u))
        /\ session' = Forget(call[c].token)
        /\ call' = [call EXCEPT ![c] = Answered("save", NoToken, Anonymous)]
        /\ UNCHANGED <<challenge, accepted>>

-----------------------------------------------------------------------------
(* Administrators: the role was looked up when the request began *)
Administers(c, op) ==
    /\ At(c, {op}, "change")
    /\ call' = [call EXCEPT ![c] = Answered(IF op = "factor-reset" THEN "page" ELSE "save",
                                           call[c].token, call[c].copy)]

SaveMember_SameGeneration(c) ==
    /\ Administers(c, "save-member")
    /\ \E u \in User, role \in {"member", "admin"}, on \in BOOLEAN :
        /\ CanChange(u)
        /\ u \in Administrators /\ ~(on /\ role = "admin") => Cardinality(Administrators) > 1
        /\ account' = [account EXCEPT ![u] = [@ EXCEPT !.role = role, !.enabled = on]]
        /\ link' = IF on THEN link ELSE Consume(LinksOf(u))
    /\ UNCHANGED <<challenge, session, accepted>>
SaveMember_AnyAdministrator(c) ==
    /\ Administers(c, "save-member")
    /\ \E u \in User, role \in {"member", "admin"}, on \in BOOLEAN :
        /\ CanChange(u)
        /\ account' = [account EXCEPT ![u] = [Bumped(@) EXCEPT !.role = role, !.enabled = on]]
        /\ link' = IF on THEN link ELSE Consume(LinksOf(u))
    /\ UNCHANGED <<challenge, session, accepted>>
SaveMember(c) ==
    /\ Administers(c, "save-member")
    /\ \E u \in User, role \in {"member", "admin"}, on \in BOOLEAN :
        /\ CanChange(u)
        /\ u \in Administrators /\ ~(on /\ role = "admin") => Cardinality(Administrators) > 1
        /\ account' = [account EXCEPT ![u] = [Bumped(@) EXCEPT !.role = role, !.enabled = on]]
        /\ link' = IF on THEN link ELSE Consume(LinksOf(u))
    /\ UNCHANGED <<challenge, session, accepted>>

(* A new link replaces the open ones of its kind. *)
NewLink(u, kind) ==
    \E l \in {k \in Link : link[k].kind = "none"} :
        link' = [Consume(LinksTo(u, kind)) EXCEPT
                    ![l] = [user |-> u, kind |-> kind, gen |-> 0]]

IssueReset(c) ==
    /\ Administers(c, "issue-reset")
    /\ \E u \in User : Exists(u) /\ account[u].enabled /\ NewLink(u, "reset")
    /\ UNCHANGED <<account, challenge, session, accepted>>

IssueInvite(c) ==
    /\ Administers(c, "issue-invite")
    /\ \E u \in User : ~Exists(u) /\ NewLink(u, "invite")
    /\ UNCHANGED <<account, challenge, session, accepted>>

RevokeLink(c) ==
    /\ Administers(c, "revoke-link")
    /\ \E u \in User, kind \in {"invite", "reset", "factor"} :
        link' = Consume(LinksTo(u, kind))
    /\ UNCHANGED <<account, challenge, session, accepted>>

FactorReset_NotAsked(c) ==
    /\ Administers(c, "factor-reset")
    /\ \E u \in User \ {call[c].user}, l \in Link :
        /\ account[u].enabled /\ CanChange(u)
        /\ account' = [account EXCEPT ![u] = [WithoutFactors(@) EXCEPT !.locked = TRUE]]
        /\ challenge' = WithoutChallengesOf(u)
        /\ accepted' = NewSecret(u)
        /\ link[l].kind = "none" \/ l \in LinksOf(u)
        /\ link' = [Consume(LinksOf(u)) EXCEPT ![l] = [user |-> u, kind |-> "factor", gen |-> 0]]
    /\ UNCHANGED session
FactorReset(c) ==
    /\ Administers(c, "factor-reset")
    /\ Identity(c)
    /\ \E u \in User \ {call[c].user}, l \in Link :
        /\ account[u].enabled /\ CanChange(u)
        /\ account' = [account EXCEPT ![u] = [WithoutFactors(@) EXCEPT !.locked = TRUE]]
        /\ challenge' = WithoutChallengesOf(u)
        /\ accepted' = NewSecret(u)
        /\ link[l].kind = "none" \/ l \in LinksOf(u)
        /\ link' = [Consume(LinksOf(u)) EXCEPT ![l] = [user |-> u, kind |-> "factor", gen |-> 0]]
    /\ UNCHANGED session

-----------------------------------------------------------------------------
(* Links and the local command line, each one a transaction *)
Redeem(l) ==
    LET u == link[l].user
        kind == link[l].kind
    IN  /\ \/ /\ kind = "invite" /\ ~Exists(u)
              /\ account' = [account EXCEPT ![u].role = "member"]
           \/ /\ kind \in {"reset", "factor"} /\ account[u].enabled /\ CanChange(u)
              /\ account' = [account EXCEPT ![u] = [WithPassword(account[u]) EXCEPT
                                 !.locked = @ /\ kind # "factor"]]
        /\ link' = Consume({l})
        /\ UNCHANGED <<challenge, session, call, accepted>>

CreateAdmin(u) ==
    /\ ~Exists(u) /\ Administrators = {}
    /\ account' = [account EXCEPT ![u].role = "admin"]
    /\ UNCHANGED <<link, challenge, session, call, accepted>>

Recover(u, resetFactors) ==
    /\ account[u].role = "admin" /\ account[u].gen + (IF resetFactors THEN 1 ELSE 0) < MaxGen
    /\ LET a == [WithPassword(account[u]) EXCEPT !.enabled = TRUE]
       IN  IF resetFactors
           THEN /\ account' = [account EXCEPT ![u] = [WithoutFactors(a) EXCEPT !.locked = FALSE]]
                /\ challenge' = WithoutChallengesOf(u)
                /\ accepted' = NewSecret(u)
           ELSE account' = [account EXCEPT ![u] = a] /\ UNCHANGED <<challenge, accepted>>
    /\ link' = Consume(LinksOf(u))
    /\ UNCHANGED <<session, call>>

-----------------------------------------------------------------------------
(* How a handler ends *)

Rendered(c, copy) ==
    /\ session' = IF Stale(copy) THEN Forget(call[c].token) ELSE session
    /\ call' = [call EXCEPT ![c] = IF Stale(copy) THEN Answered("save", NoToken, Anonymous)
                                  ELSE Answered("save", call[c].token, copy)]
    /\ UNCHANGED <<tables, accepted>>

Page(c) == call[c].at = "page" /\ Rendered(c, call[c].copy)

(* A step is refused, or its database call fails: the handler answers with  *)
(* an error, and its session copy is still written.                         *)
Fail(c) ==
    LET copy == IF call[c].at = "take" THEN Popped(c).copy ELSE call[c].copy
    IN  /\ call[c].at \notin {"idle", "page", "save"}
        /\ IF Answer(call[c].op) = "page" \/ call[c].op = "verify" THEN Rendered(c, copy)
           ELSE /\ call' = [call EXCEPT ![c] = Answered("save", call[c].token, copy)]
                /\ UNCHANGED <<tables, session, accepted>>

(* The idle timeout makes every request write its copy back, changed or not. *)
Save(c) ==
    LET t == call[c].token
    IN  /\ call[c].at = "save"
        /\ call' = [call EXCEPT ![c] = Idle]
        /\ \E s \in IF t \in Token THEN {t} ELSE UnusedToken :
              session' = [session EXCEPT ![s] = call[c].copy]
        /\ UNCHANGED <<tables, accepted>>

(* Logout deletes the row; an expired one is no longer found. *)
Logout(t) ==
    /\ session[t].mode # "none"
    /\ session' = Forget(t)
    /\ UNCHANGED <<tables, call, accepted>>

Restart ==
    /\ call' = [c \in Call |-> Idle]
    /\ UNCHANGED <<tables, session, accepted>>

-----------------------------------------------------------------------------
Login(c) == LoginCompare(c) \/ RecoveryCode(c) \/ Again(c) \/ LoginMode(c) \/ RecoveryMode(c)
Factor(c) ==
    \/ CheckTOTP(c) \/ SignedIn(c) \/ Resolve(c) \/ Issue(c) \/ Take(c)
    \/ FindKey(c) \/ KeyOwner(c) \/ UseKey(c)
Change(c) ==
    \/ EnrollTOTP(c) \/ EnrollKey(c) \/ RemoveTOTP(c) \/ RemoveKey(c) \/ NewCodes(c)
    \/ PasswordCompare(c) \/ ChangePassword(c)
Administer(c) ==
    SaveMember(c) \/ IssueReset(c) \/ IssueInvite(c) \/ RevokeLink(c) \/ FactorReset(c)

(* What the users of the operations ops can make happen *)
Using(ops) ==
    \/ \E c \in Call, op \in ops \ LocalOps, t \in Token \cup {NoToken} : Begin(c, op, t)
    \/ \E c \in Call : \/ Login(c) \/ Factor(c) \/ Change(c) \/ Administer(c)
                       \/ Fail(c) \/ Page(c) \/ Save(c)
    \/ \E l \in Link : Redeem(l)
    \/ "local" \in ops /\ \E u \in User : CreateAdmin(u) \/ \E reset \in BOOLEAN : Recover(u, reset)
    \/ \E t \in Token : Logout(t)
    \/ Restart

Next == Using(AllOps)
Spec == Init /\ [][Next]_vars

-----------------------------------------------------------------------------
Proof == [mode : {"none", "anonymous", "verify", "enroll", "full"}, who : User \cup {NoUser},
          gen : 0..MaxGen, password : 0..MaxGen, key : Key \cup {NoKey},
          challenge : [Purpose -> Challenge \cup {NoChallenge}]]

(* Every table and every handler holds values of its type. *)
TypeOK ==
    /\ account \in [User -> [role : {"none", "member", "admin"}, enabled : BOOLEAN,
                             gen : 1..MaxGen, password : 1..MaxGen, locked : BOOLEAN,
                             totp : 0..MaxGen, last : Step \cup {0}, keys : SUBSET Key,
                             codes : BOOLEAN]]
    /\ link \in [Link -> [user : User \cup {NoUser}, gen : {0},
                          kind : {"none", "invite", "reset", "factor"}]]
    /\ challenge \in [Challenge -> [user : User \cup {NoUser}, gen : 0..MaxGen,
                                    kind : Purpose \cup {"none"}]]
    /\ session \in [Token -> Proof]
    /\ call \in [Call -> [op : AllOps \cup {"idle"},
           at : {"idle", "compare", "code", "totp", "issue", "take", "identity", "change", "again",
                 "mode", "find", "owner", "use", "enroll", "sign", "write", "page", "save"},
           token : Token \cup {NoToken, NewToken}, copy : Proof, user : User \cup {NoUser},
           gen : 0..MaxGen, subject : User \cup {NoUser}, next : 0..MaxGen,
           password : 0..MaxGen, key : Key \cup {NoKey}, taken : Challenge \cup {NoChallenge}]]
    /\ accepted \in [User -> [Step -> 0..2]]

(* A session that counts still rests on what its holder proved: the password *)
(* is the current one, the passkey is still registered, and the account has  *)
(* a factor (security.md: full sessions require a passkey or password and    *)
(* TOTP).  A login that overlaps a change of any of them yields no session.  *)
LiveIsProven ==
    \A t \in Token : Live(t) =>
        LET u == session[t].who
        IN  /\ session[t].password \in {0, account[u].password}
            /\ session[t].key \in account[u].keys \cup {NoKey}
            /\ HasFactor(u)

(* After an administrator's factor reset only the recovery link leads back   *)
(* into the account: no factor, code or session of before or of an           *)
(* overlapping login is left.                                                *)
LockedHasNoWayIn ==
    \A u \in User : account[u].locked =>
        /\ ~HasFactor(u) /\ ~account[u].codes
        /\ \A t \in Token : session[t].who = u => ~Valid(u, session[t].gen)

(* An authenticator's code signs in or confirms once, whatever requests race *)
(* (security.md: TOTP replay is checked transactionally).                    *)
CodesAreSpent == \A u \in User, s \in Step : accepted[u][s] <= 1

(* Two handlers never work from one challenge, and none is left to be taken  *)
(* again (security.md: expiring and consumed transactionally).               *)
ChallengesAreSpent ==
    \A c \in Call : call[c].taken # NoChallenge =>
        /\ challenge[call[c].taken].kind = "none"
        /\ \A d \in Call \ {c} : call[d].taken # call[c].taken

(* Once an account has a factor, only a fully signed-in holder adds another: *)
(* an enrollment begun before the first factor existed comes too late.       *)
FactorsAddedSignedIn ==
    [][\A u \in User :
          HasFactor(u) /\ (account'[u].totp > account[u].totp \/ ~(account'[u].keys \subseteq account[u].keys))
          => \E c \in Call : /\ call[c].user = u /\ call[c].copy.mode = "full"
                            /\ call'[c] # call[c]]_vars

(* The session of t may yet count: it is stored, or a request that loaded it *)
(* is going to write it back.                                                *)
Proves(copy) == copy.mode = "full" /\ Valid(copy.who, copy.gen)
Outstanding(t) == Live(t) \/ \E c \in Call : call[c].token = t /\ Proves(call[c].copy)
Answering(c) == call[c].token = NewToken /\ Proves(call[c].copy)   \* with a new session

(* What has ended stays ended: neither a re-enabled account nor a recovery,  *)
(* a role change or a late write brings back a session that no longer counts *)
(* and that no request still holds.  A session comes to count only as the    *)
(* answer of a handler that has signed its holder in, and its account was    *)
(* current then.  Logout alone is not final (app.go:91): while a request     *)
(* that loaded the session is in progress, its write brings the row back,    *)
(* which is why such a session is still Outstanding here.                    *)
EndedStaysEnded ==
    [][/\ \A t \in Token : Outstanding(t)' /\ ~Outstanding(t)
              => \E c \in Call : Answering(c) /\ session'[t] = call[c].copy
       /\ \A c \in Call : Answering(c)' /\ ~Answering(c) => SignedIn(c)]_vars

(* Whatever administrators do to each other at the same time, an enabled one *)
(* remains, and a factor reset leaves one who is not locked out: two of them *)
(* can neither demote nor disable nor reset each other.                      *)
AdministratorRemains ==
    [][/\ Administrators # {} => Administrators' # {}
       /\ (\E u \in User : account'[u].locked /\ ~account[u].locked)
          => \E u \in Administrators' : ~account'[u].locked]_account
=============================================================================
