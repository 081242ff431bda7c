------------------------------ MODULE MCAccounts ------------------------------
(* Places to begin, each with the operations whose overlaps it is about: an   *)
(* empty portal; an administrator u1 with an authenticator, signed in, who    *)
(* adds and removes factors; u1 with a new password and no factor, logged in  *)
(* twice; two administrators; one, and a person to invite.                    *)
EXTENDS Accounts, TLC

CONSTANTS u1, u2, t1, t2, c1, c2, h1, h2, k1, l1

VARIABLE scope  \* the operations that are used

SignIn == {"local", "login", "verify", "totp-start", "totp-confirm", "password", "reauth"}
Factors == {"register-begin", "register-finish", "passkey-begin", "passkey-finish",
            "totp-remove", "key-remove"}
Enrollment == {"totp-start", "totp-confirm", "recovery", "issue-reset"}
Administration == {"login", "save-member", "factor-reset"}
Invitation == {"login", "codes", "issue-invite", "revoke-link"}

Left == [NoAccount EXCEPT !.role = "member", !.enabled = FALSE, !.gen = 2]
Enrolled == [NoAccount EXCEPT !.role = "admin", !.gen = 2, !.totp = 2, !.last = 1, !.codes = TRUE]
WithNewCodes == [Enrolled EXCEPT !.gen = 3]
NewPassword == [NoAccount EXCEPT !.role = "admin", !.gen = 2, !.password = 2]

Start(first, second) == account = [u \in User |-> IF u = u1 THEN first ELSE second]
LoggedIn(u) ==
    IF u \in User /\ account[u].enabled /\ Exists(u)
    THEN [Anonymous EXCEPT !.who = u, !.gen = account[u].gen, !.password = account[u].password,
                           !.mode = IF HasFactor(u) THEN "full" ELSE "enroll"]
    ELSE NoSession

Begun ==
    /\ link = [l \in Link |-> NoRow]
    /\ challenge = [h \in Challenge |-> NoRow]
    /\ call = [c \in Call |-> Idle]
    /\ \E first \in Token : session = [t \in Token |-> LoggedIn(IF t = first \/ scope = Enrollment THEN u1 ELSE u2)]
    /\ accepted = [u \in User |-> [s \in Step |-> IF s = account[u].last THEN 1 ELSE 0]]

SignInInit == Init /\ scope = SignIn
SignInSpec == SignInInit /\ [][Using(SignIn) /\ UNCHANGED scope]_<<vars, scope>>

ScopedInit ==
    /\ \/ scope = Factors /\ Start(Enrolled, Left)
       \/ scope = Enrollment /\ Start(NewPassword, Left)
       \/ scope = Administration /\ Start(WithNewCodes, WithNewCodes)
       \/ scope = Invitation /\ Start(WithNewCodes, NoAccount)
    /\ Begun
ScopedSpec == ScopedInit /\ [][Using(scope) /\ UNCHANGED scope]_<<vars, scope>>

(* Two challenges at once matter to enrollments: elsewhere, states with the   *)
(* second are not expanded.                                                   *)
FewChallenges == scope = Enrollment \/ \A h \in Challenge : h # h1 => challenge[h] = NoRow

Symmetry == Permutations(Call) \cup Permutations(Token)
=============================================================================
