--------------------------- MODULE Accounts_proofs ---------------------------
(***************************************************************************)
(* Proofs about Accounts, for every number of people, browsers and         *)
(* overlapping handlers.  Nothing is locked between the database calls of  *)
(* a handler, so what one of them has read says nothing by itself.  The    *)
(* argument is about the generation: whatever anyone holds names one that  *)
(* is not ahead of the account's (Sound), every change of an account that  *)
(* matters increments it (Moves), and so what still names the current one  *)
(* is as true as when it was read (SoundStays).                            *)
(***************************************************************************)
EXTENDS Accounts, FiniteSetTheorems, TLAPS

Stage == {"idle", "compare", "code", "totp", "issue", "take", "identity", "change", "again",
          "mode", "find", "owner", "use", "enroll", "sign", "write", "page", "save"}
Row == [role : {"none", "member", "admin"}, enabled : BOOLEAN, gen : 1..MaxGen,
        password : 1..MaxGen, locked : BOOLEAN, totp : 0..MaxGen, last : Step \cup {0},
        keys : SUBSET Key, codes : BOOLEAN]
Handler == [op : AllOps \cup {"idle"}, at : Stage, token : Token \cup {NoToken, NewToken},
            copy : Proof, user : User \cup {NoUser}, gen : 0..MaxGen, subject : User \cup {NoUser},
            next : 0..MaxGen, password : 0..MaxGen, key : Key \cup {NoKey},
            taken : Challenge \cup {NoChallenge}]

-----------------------------------------------------------------------------
(* The predicates take the accounts as an argument, to be asked of those before
   and of those after a step. *)
Counts(a, u, gen) == u \in User /\ a[u].role # "none" /\ a[u].enabled /\ a[u].gen = gen
Factored(a, u) == a[u].totp # 0 \/ a[u].keys # {}

(* Only accounts that exist have factors; a locked one has neither factor nor codes. *)
SoundAccount(a, u) ==
    /\ Factored(a, u) => a[u].role # "none"
    /\ a[u].locked => ~Factored(a, u) /\ ~a[u].codes

(* A session, stored or in a handler's hands: while it counts, what it says is so. *)
Sound(a, p) ==
    p.who \in User =>
        /\ a[p.who].role # "none" /\ p.gen <= a[p.who].gen
        /\ Counts(a, p.who, p.gen) =>
            /\ p.password \in {0, a[p.who].password} /\ p.key \in a[p.who].keys \cup {NoKey}
            /\ p.mode = "full" => Factored(a, p.who)
            /\ p.mode = "enroll" => ~Factored(a, p.who)
            /\ ~a[p.who].locked

(* The account a handler is about to sign in to, as far as it has got. *)
SoundAim(a, k) ==
    k.subject \in User =>
        /\ a[k.subject].role # "none" /\ k.next <= a[k.subject].gen
        /\ Counts(a, k.subject, k.next) =>
            /\ k.password \in {0, a[k.subject].password}
            /\ k.op = "recovery" => ~Factored(a, k.subject)
            /\ a[k.subject].locked =>
                \/ k.op = "login" /\ k.at \in {"again", "mode"}
                \/ k.op = "passkey-finish" /\ k.at = "use"
            /\ k.at = "sign" =>
                /\ Factored(a, k.subject)
                /\ IF k.op = "passkey-finish" THEN k.key \in a[k.subject].keys
                   ELSE /\ k.copy.password \in {0, a[k.subject].password}
                        /\ k.copy.key \in a[k.subject].keys \cup {NoKey}

(* Whom a handler serves, and what its session admitted it to. *)
Shape(k) ==
    /\ k.user # NoUser => k.copy.who = k.user /\ k.copy.gen = k.gen
    /\ k.user = NoUser => k.gen = 0
    /\ k.at \notin {"again", "mode", "owner", "use", "sign"} => k.subject = k.user /\ k.next = k.gen
    /\ k.op \notin OpenOps \cup {"idle"} => k.user \in User
    /\ k.op \in FactorOps => k.copy.mode \in {"enroll", "full"}
    /\ k.op \in FullOps \cup AdminOps => k.copy.mode = "full"
    /\ k.password # 0 => k.op = "login"
    /\ k.at = "owner" => k.subject \in User
    /\ k.at = "write" => k.op = "password"

SoundCall(a, k) ==
    /\ Shape(k) /\ Sound(a, k.copy) /\ SoundAim(a, k)
    /\ k.op \in AdminOps /\ Counts(a, k.user, k.gen) => a[k.user].role = "admin"

(* An accepted code is of the current secret and of no later step than the last. *)
SpentIsPast ==
    \A u \in User, s \in Step : accepted[u][s] # 0 => accepted[u][s] = 1 /\ s <= account[u].last

IInv ==
    /\ TypeOK
    /\ \A u \in User : SoundAccount(account, u)
    /\ \A t \in Token : Sound(account, session[t])
    /\ \A c \in Call : SoundCall(account, call[c])
    /\ SpentIsPast /\ ChallengesAreSpent

-----------------------------------------------------------------------------
(* How one step may change an account: not at all, or only the step of its last
   code, or with a new generation, or from nothing to an account. *)
Moves(a, b) ==
    \A u \in User :
        \/ b[u].gen > a[u].gen /\ a[u].role # "none" /\ b[u].role # "none"
        \/ a[u].role = "none" /\ b[u].gen = a[u].gen
        \/ /\ b[u].gen = a[u].gen /\ b[u].role = a[u].role /\ b[u].enabled = a[u].enabled
           /\ b[u].password = a[u].password /\ b[u].locked = a[u].locked
           /\ b[u].totp = a[u].totp /\ b[u].keys = a[u].keys

LEMMA StillCounts ==
    ASSUME NEW a \in [User -> Row], NEW b \in [User -> Row], Moves(a, b),
           NEW u \in User, NEW gen \in Nat, a[u].role # "none", gen <= a[u].gen
    PROVE  /\ b[u].role # "none" /\ gen <= b[u].gen
           /\ Counts(b, u, gen) =>
                /\ Counts(a, u, gen) /\ b[u].role = a[u].role
                /\ b[u].password = a[u].password /\ b[u].locked = a[u].locked
                /\ b[u].totp = a[u].totp /\ b[u].keys = a[u].keys
<1>1. a[u].gen \in Nat /\ b[u].gen \in Nat
  BY DEF Row
<1> QED
  BY <1>1 DEF Moves, Counts

LEMMA SoundStays ==
    ASSUME NEW a \in [User -> Row], NEW b \in [User -> Row], Moves(a, b), NEW p \in Proof, Sound(a, p)
    PROVE  Sound(b, p)
<1>1. p.gen \in Nat
  BY DEF Proof
<1> QED
  BY <1>1, StillCounts DEF Sound, Factored

LEMMA SoundCallStays ==
    ASSUME NEW a \in [User -> Row], NEW b \in [User -> Row], Moves(a, b), NEW k \in Handler, SoundCall(a, k)
    PROVE  SoundCall(b, k)
<1>1. k.copy \in Proof /\ k.next \in Nat /\ k.gen \in Nat
  BY DEF Handler
<1>2. Sound(b, k.copy)
  BY <1>1, SoundStays DEF SoundCall
<1>3. SoundAim(b, k)
  BY <1>1, StillCounts DEF SoundCall, SoundAim, Factored
<1>4. ASSUME k.op \in AdminOps, Counts(b, k.user, k.gen) PROVE b[k.user].role = "admin"
  <2>1. k.user \in User /\ k.copy.who = k.user /\ k.copy.gen = k.gen
    <3>1. k.user \in User /\ k.user # NoUser /\ Shape(k)
      BY <1>4, AbsenceAssumption DEF SoundCall, Counts
    <3> QED
      BY <3>1 DEF Shape
  <2>2. a[k.user].role # "none" /\ k.gen <= a[k.user].gen
    BY <2>1 DEF SoundCall, Sound
  <2> QED
    BY <1>1, <1>4, <2>1, <2>2, StillCounts DEF SoundCall
<1> QED
  BY <1>2, <1>3, <1>4 DEF SoundCall

-----------------------------------------------------------------------------
(* The changes of an account. *)
AccountsStand ==
    /\ account' \in [User -> Row] /\ Moves(account, account')
    /\ \A u \in User : SoundAccount(account', u)
AccountsSound == TypeOK /\ \A u \in User : SoundAccount(account, u)

LEMMA NewRows ==
    ASSUME NEW a \in Row, a.gen < MaxGen
    PROVE  /\ Bumped(a) \in Row /\ WithPassword(a) \in Row /\ WithoutFactors(a) \in Row
           /\ Bumped(a) = [a EXCEPT !.gen = a.gen + 1]
           /\ WithPassword(a) = [a EXCEPT !.gen = a.gen + 1, !.password = a.gen + 1]
           /\ WithoutFactors(a) = [a EXCEPT !.gen = a.gen + 1, !.totp = 0, !.last = 0,
                                            !.keys = {}, !.codes = FALSE]
           /\ a.gen \in Nat /\ a.gen + 1 \in 1..MaxGen
<1>1. a.gen \in Nat /\ a.gen + 1 \in 1..MaxGen
  BY BoundAssumption DEF Row
<1>2. /\ [a EXCEPT !.gen = a.gen + 1] \in Row
      /\ [a EXCEPT !.gen = a.gen + 1, !.password = a.gen + 1] \in Row
  BY <1>1 DEF Row
<1>3. [a EXCEPT !.gen = a.gen + 1, !.totp = 0, !.last = 0, !.keys = {}, !.codes = FALSE] \in Row
  <2>1. 0 \in 0..MaxGen /\ 0 \in Step \cup {0} /\ {} \in SUBSET Key
    BY BoundAssumption
  <2> QED
    BY <1>1, <2>1 DEF Row
<1>4. /\ Bumped(a) = [a EXCEPT !.gen = a.gen + 1]
      /\ WithPassword(a) = [a EXCEPT !.gen = a.gen + 1, !.password = a.gen + 1]
      /\ WithoutFactors(a) = [a EXCEPT !.gen = a.gen + 1, !.totp = 0, !.last = 0,
                                       !.keys = {}, !.codes = FALSE]
  BY DEF Bumped, WithPassword, WithoutFactors, Row
<1> QED
  BY <1>1, <1>2, <1>3, <1>4

LEMMA AccountTypes == TypeOK => account \in [User -> Row]
  BY DEF TypeOK, Row

(* A row that names a new generation may say anything else. *)
LEMMA Regenerated ==
    ASSUME AccountsSound, NEW u \in User, NEW r \in Row, account' = [account EXCEPT ![u] = r],
           r.gen > account[u].gen, account[u].role # "none", r.role # "none",
           r.locked => r.totp = 0 /\ r.keys = {} /\ ~r.codes
    PROVE  AccountsStand
  BY AccountTypes DEF AccountsSound, AccountsStand, Moves, SoundAccount, Factored

LEMMA AccountsUnchanged == AccountsSound /\ account' = account => AccountsStand
  BY AccountTypes DEF AccountsSound, AccountsStand, Moves, SoundAccount, Factored

LEMMA RowOf == ASSUME TypeOK, NEW u \in User, CanChange(u)
               PROVE  account[u] \in Row /\ account[u].gen < MaxGen /\ account[u].role # "none"
  BY AccountTypes DEF CanChange, Exists

(* Nothing is left of a row's factors, whether the row gets locked or unlocked. *)
LEMMA Cleared ==
    ASSUME NEW a \in Row, a.gen < MaxGen
    PROVE  \A r \in {WithoutFactors(a)} \cup {[WithoutFactors(a) EXCEPT !.locked = b] : b \in BOOLEAN} :
                /\ r \in Row /\ r.gen = a.gen + 1 /\ r.role = a.role /\ r.enabled = a.enabled
                /\ r.totp = 0 /\ r.last = 0 /\ r.keys = {} /\ ~r.codes
<1>1. PICK w \in Row :
        /\ w = WithoutFactors(a)
        /\ w.gen = a.gen + 1 /\ w.role = a.role /\ w.enabled = a.enabled
        /\ w.totp = 0 /\ w.last = 0 /\ w.keys = {} /\ ~w.codes
  <2>1. /\ WithoutFactors(a) \in Row
        /\ WithoutFactors(a) = [a EXCEPT !.gen = a.gen + 1, !.totp = 0,
                                            !.last = 0, !.keys = {}, !.codes = FALSE]
    BY NewRows, Zenon
  <2>2. /\ WithoutFactors(a).gen = a.gen + 1 /\ WithoutFactors(a).role = a.role
        /\ WithoutFactors(a).enabled = a.enabled /\ WithoutFactors(a).totp = 0
        /\ WithoutFactors(a).last = 0 /\ WithoutFactors(a).keys = {} /\ ~WithoutFactors(a).codes
    BY <2>1 DEF Row
  <2> QED
    BY <2>1, <2>2
<1>2. ASSUME NEW b \in BOOLEAN
      PROVE  LET r == [w EXCEPT !.locked = b] IN
             /\ r \in Row /\ r.gen = w.gen /\ r.role = w.role /\ r.enabled = w.enabled
             /\ r.totp = w.totp /\ r.last = w.last /\ r.keys = w.keys /\ r.codes = w.codes
  <2>1. [w EXCEPT !.locked = b] \in Row
    BY DEF Row
  <2> QED
    BY <2>1 DEF Row
<1> QED
  BY <1>1, <1>2

LEMMA RecoveryCodeStands == ASSUME AccountsSound, NEW c \in Call, RecoveryCode(c) PROVE AccountsStand
<1>1. PICK u \in User : CanChange(u) /\ account' = [account EXCEPT ![u] = WithoutFactors(@)]
  BY DEF RecoveryCode, ClearFactors
<1>2. account[u] \in Row /\ account[u].gen < MaxGen /\ account[u].role # "none" /\ account[u].gen \in Nat
  BY <1>1, RowOf DEF AccountsSound, Row
<1>3. PICK r \in Row : /\ r = WithoutFactors(account[u]) /\ r.gen > account[u].gen /\ r.role # "none"
                       /\ r.totp = 0 /\ r.keys = {} /\ ~r.codes
  BY <1>2, Cleared
<1> QED
  BY <1>1, <1>2, <1>3, Regenerated

LEMMA CheckTOTPStands == ASSUME AccountsSound, NEW c \in Call, CheckTOTP(c) PROVE AccountsStand
<1>1. PICK u \in User, s \in Step : account' = [account EXCEPT ![u].last = s]
  BY DEF CheckTOTP, Identity, Valid
<1>2. account[u] \in Row
  BY AccountTypes DEF AccountsSound
<1>3. PICK r \in Row : /\ r = [account[u] EXCEPT !.last = s]
                       /\ r.gen = account[u].gen /\ r.role = account[u].role
                       /\ r.enabled = account[u].enabled /\ r.password = account[u].password
                       /\ r.locked = account[u].locked /\ r.totp = account[u].totp
                       /\ r.keys = account[u].keys /\ r.codes = account[u].codes
  <2>1. [account[u] EXCEPT !.last = s] \in Row
    BY <1>2 DEF Row
  <2> QED
    BY <1>2, <2>1 DEF Row
<1> QED
  BY <1>1, <1>2, <1>3, AccountTypes DEF AccountsSound, AccountsStand, Moves, SoundAccount, Factored

(* A handler that changes the account it serves is served by a session that
   counts, so the account is not locked. *)
LEMMA ServedUnlocked ==
    ASSUME TypeOK, NEW c \in Call, SoundCall(account, call[c]), Identity(c)
    PROVE  /\ call[c].user \in User /\ ~account[call[c].user].locked
           /\ Counts(account, call[c].user, call[c].gen)
           /\ call[c].copy.who = call[c].user /\ call[c].copy.gen = call[c].gen
<1>1. call[c].user \in User /\ call[c].user # NoUser /\ Counts(account, call[c].user, call[c].gen)
  BY AbsenceAssumption DEF Identity, Valid, Exists, Counts
<1>2. call[c].copy.who = call[c].user /\ call[c].copy.gen = call[c].gen
  BY <1>1 DEF SoundCall, Shape
<1> QED
  BY <1>1, <1>2 DEF SoundCall, Sound

(* The row that a handler makes of the one it serves, and the handler after it:
   it goes on in the generation it has made, with what its session proved. *)
NextRow(a, r) ==
    /\ r \in Row /\ r.gen = a.gen + 1 /\ r.role = a.role /\ r.locked = a.locked
    /\ r.password = a.password /\ (r.totp # 0 \/ r.keys # {})
Onward(h, k, r) ==
    /\ k \in Handler /\ k.op = h.op /\ k.at = "sign" /\ k.user = h.user /\ k.gen = h.gen
    /\ k.subject = h.subject /\ k.next = r.gen /\ k.password = h.password
    /\ k.copy.who = h.copy.who /\ k.copy.gen = h.copy.gen /\ k.copy.mode = h.copy.mode
    /\ k.copy.password = h.copy.password /\ k.copy.key \in r.keys \cup {NoKey}
Changes(c) ==
    /\ Identity(c) /\ CanChange(call[c].user) /\ call[c].op \in FactorOps \cup FullOps
    /\ call[c].at \in {"change", "enroll"}

LEMMA OwnChange ==
    ASSUME AccountsSound, NEW c \in Call, SoundCall(account, call[c]), Changes(c),
           NEW r, NextRow(account[call[c].user], r), account' = [account EXCEPT ![call[c].user] = r],
           NEW k, Onward(call[c], k, r)
    PROVE  AccountsStand /\ SoundCall(account', k)
<1> DEFINE u == call[c].user
<1> USE DEF Changes
<1>1. /\ u \in User /\ u # NoUser /\ ~account[u].locked /\ Counts(account, u, call[c].gen)
      /\ call[c].copy.who = u /\ call[c].copy.gen = call[c].gen
  BY ServedUnlocked, AbsenceAssumption DEF AccountsSound
<1>2. /\ account[u].gen \in Nat /\ account[u].gen = call[c].gen
      /\ account'[u] = r /\ ~r.locked /\ r.role # "none" /\ r.gen > account[u].gen
  <2>1. account \in [User -> Row] /\ account[u] \in Row
    BY <1>1, AccountTypes DEF AccountsSound
  <2>2. account[u].gen \in Nat
    BY <2>1 DEF Row
  <2> QED
    BY <1>1, <2>1, <2>2 DEF Counts, NextRow
<1>3. AccountsStand
  BY <1>1, <1>2, Regenerated DEF Counts, NextRow
<1>4. Shape(k)
  BY DEF SoundCall, Shape, Onward
<1>5. Sound(account', k.copy)
  <2>1. k.copy.who = u /\ k.copy.gen = account[u].gen
    BY <1>1, <1>2 DEF Onward
  <2>2. account'[u].role # "none" /\ account'[u].gen \in Nat /\ account'[u].gen > k.copy.gen
    BY <1>2, <2>1 DEF NextRow
  <2>3. k.copy.gen <= account'[u].gen /\ ~Counts(account', u, k.copy.gen)
    BY <1>2, <2>1, <2>2 DEF Counts
  <2> QED
    BY <2>1, <2>2, <2>3 DEF Sound
<1>6. SoundAim(account', k)
  <2>1. call[c].subject = u /\ call[c].next = call[c].gen
    BY DEF SoundCall, Shape
  <2>2. /\ call[c].password \in {0, account[u].password}
        /\ call[c].copy.password \in {0, account[u].password}
    BY <1>1, <2>1 DEF SoundCall, SoundAim, Sound
  <2>3. k.op \notin {"recovery", "passkey-finish"}
    BY DEF FactorOps, FullOps, Onward
  <2> QED
    BY <1>1, <1>2, <2>1, <2>2, <2>3 DEF SoundAim, Factored, Onward, NextRow
<1>7. ~Counts(account', k.user, k.gen)
  BY <1>1, <1>2 DEF Counts, Onward
<1> QED
  BY <1>3, <1>4, <1>5, <1>6, <1>7 DEF SoundCall

(* What a step of handler c leaves of the handlers. *)
CallStands(c) ==
    /\ call' \in [Call -> Handler] /\ SoundCall(account', call'[c])
    /\ \A d \in Call \ {c} : call'[d] = call[d]

LEMMA CallTypes == TypeOK => call \in [Call -> Handler]
  BY DEF TypeOK, Handler, Stage

LEMMA OwnHandler ==
    ASSUME TypeOK, NEW c \in Call, NEW n \in 0..MaxGen,
           call' = [call EXCEPT ![c].next = n, ![c].at = "sign"]
    PROVE  \E k \in Handler :
              /\ call' \in [Call -> Handler] /\ call'[c] = k /\ \A d \in Call \ {c} : call'[d] = call[d]
              /\ k.op = call[c].op /\ k.at = "sign" /\ k.user = call[c].user
              /\ k.gen = call[c].gen /\ k.subject = call[c].subject /\ k.next = n
              /\ k.password = call[c].password /\ k.copy = call[c].copy
<1>1. PICK h \in Handler : h = call[c]
  BY CallTypes
<1>2. PICK k \in Handler : /\ k = [h EXCEPT !.next = n, !.at = "sign"]
                           /\ k.op = h.op /\ k.at = "sign" /\ k.user = h.user
                           /\ k.gen = h.gen /\ k.subject = h.subject /\ k.next = n
                           /\ k.password = h.password /\ k.copy = h.copy
  <2>1. [h EXCEPT !.next = n, !.at = "sign"] \in Handler
    BY DEF Handler, Stage
  <2> QED
    BY <2>1 DEF Handler
<1>3. call' = [call EXCEPT ![c] = k]
  BY <1>1, <1>2, CallTypes
<1>4. call' \in [Call -> Handler] /\ call'[c] = k /\ \A d \in Call \ {c} : call'[d] = call[d]
  BY <1>3, CallTypes
<1> QED
  BY <1>1, <1>2, <1>4

LEMMA OwnStands ==
    ASSUME AccountsSound, NEW c \in Call, SoundCall(account, call[c]), Changes(c),
           NEW r, NextRow(account[call[c].user], r), account[call[c].user].keys \subseteq r.keys, Own(c, r)
    PROVE  AccountsStand /\ CallStands(c)
<1>1. /\ account' = [account EXCEPT ![call[c].user] = r]
      /\ call' = [call EXCEPT ![c].next = r.gen, ![c].at = "sign"] /\ r.gen \in 0..MaxGen
  BY DEF Own, Row, NextRow
<1>2. PICK k \in Handler :
        /\ call' \in [Call -> Handler] /\ call'[c] = k /\ \A d \in Call \ {c} : call'[d] = call[d]
        /\ k.op = call[c].op /\ k.at = "sign" /\ k.user = call[c].user
        /\ k.gen = call[c].gen /\ k.subject = call[c].subject /\ k.next = r.gen
        /\ k.password = call[c].password /\ k.copy = call[c].copy
  BY <1>1, OwnHandler DEF AccountsSound
<1>3. k.copy.key \in r.keys \cup {NoKey}
  BY <1>2, ServedUnlocked DEF SoundCall, Sound, AccountsSound, Changes
<1>4. Onward(call[c], k, r)
  BY <1>2, <1>3 DEF Onward
<1>5. AccountsStand /\ SoundCall(account', k)
  BY <1>1, <1>4, OwnChange
<1> QED
  BY <1>2, <1>5 DEF CallStands

LEMMA BumpedRow ==
    ASSUME TypeOK, NEW u \in User, CanChange(u)
    PROVE  \E b \in Row :
              /\ b = Bumped(account[u]) /\ b.gen = account[u].gen + 1 /\ b.role = account[u].role
              /\ b.locked = account[u].locked /\ b.password = account[u].password
              /\ b.enabled = account[u].enabled /\ b.totp = account[u].totp
              /\ b.last = account[u].last /\ b.keys = account[u].keys
              /\ b.codes = account[u].codes
              /\ account[u].gen \in Nat /\ account[u].gen + 1 \in 1..MaxGen
              /\ account[u].gen + 1 \in 0..MaxGen
<1>1. account[u] \in Row /\ account[u].gen < MaxGen
  BY RowOf
<1>2. account[u].gen \in Nat /\ account[u].gen + 1 \in 1..MaxGen /\ account[u].gen + 1 \in 0..MaxGen
  BY <1>1, BoundAssumption DEF Row
<1>3. Bumped(account[u]) \in Row /\ Bumped(account[u]) = [account[u] EXCEPT !.gen = account[u].gen + 1]
  BY <1>1, NewRows, Zenon
<1> QED
  BY <1>1, <1>2, <1>3 DEF Row

LEMMA EnrollTOTPStands ==
    ASSUME AccountsSound, NEW c \in Call, SoundCall(account, call[c]), EnrollTOTP(c)
    PROVE  AccountsStand /\ CallStands(c)
<1> DEFINE u == call[c].user
<1>1. Changes(c)
  BY DEF EnrollTOTP, At, Changes, FactorOps
<1>2. u \in User /\ CanChange(u)
  BY <1>1, ServedUnlocked DEF AccountsSound, Changes
<1>3. PICK b \in Row :
        /\ b = Bumped(account[u]) /\ b.gen = account[u].gen + 1 /\ b.role = account[u].role
        /\ b.locked = account[u].locked /\ b.password = account[u].password
        /\ b.keys = account[u].keys /\ account[u].gen + 1 \in 0..MaxGen /\ account[u].gen \in Nat
  BY <1>2, BumpedRow DEF AccountsSound
<1>4. PICK s \in Step : Own(c, [b EXCEPT !.totp = account[u].gen + 1, !.last = s, !.codes = TRUE])
  BY <1>3, Zenon DEF EnrollTOTP
<1> DEFINE r == [b EXCEPT !.totp = account[u].gen + 1, !.last = s, !.codes = TRUE]
<1>5. r \in Row
  BY <1>3 DEF Row
<1>6. /\ r.gen = b.gen /\ r.role = b.role /\ r.locked = b.locked /\ r.password = b.password
      /\ r.keys = b.keys /\ r.totp = account[u].gen + 1
  BY <1>3 DEF Row
<1>7. NextRow(account[u], r) /\ account[u].keys \subseteq r.keys
  <2> HIDE DEF r, u
  <2> QED
    BY <1>3, <1>5, <1>6 DEF NextRow
<1> QED
  BY <1>1, <1>4, <1>7, OwnStands

LEMMA EnrollKeyStands ==
    ASSUME AccountsSound, NEW c \in Call, SoundCall(account, call[c]), EnrollKey(c)
    PROVE  AccountsStand /\ CallStands(c)
<1> DEFINE u == call[c].user
<1>1. Changes(c)
  BY DEF EnrollKey, At, Changes, FactorOps
<1>2. u \in User /\ CanChange(u)
  BY <1>1, ServedUnlocked DEF AccountsSound, Changes
<1>3. PICK b \in Row :
        /\ b = Bumped(account[u]) /\ b.gen = account[u].gen + 1 /\ b.role = account[u].role
        /\ b.locked = account[u].locked /\ b.password = account[u].password
        /\ b.totp = account[u].totp /\ b.keys = account[u].keys
  BY <1>2, BumpedRow DEF AccountsSound
<1>4. PICK key \in Key : Own(c, [b EXCEPT !.keys = @ \cup {key}, !.codes = TRUE])
  BY <1>3, Zenon DEF EnrollKey, UnusedKey
<1> DEFINE r == [b EXCEPT !.keys = @ \cup {key}, !.codes = TRUE]
<1>5. r \in Row
  BY <1>3, <1>4, BoundAssumption DEF Row
<1>6. /\ r.gen = b.gen /\ r.role = b.role /\ r.locked = b.locked /\ r.password = b.password
      /\ r.keys = b.keys \cup {key}
  BY <1>3 DEF Row
<1>7. NextRow(account[u], r) /\ account[u].keys \subseteq r.keys
  <2> HIDE DEF r, u
  <2> QED
    BY <1>3, <1>4, <1>5, <1>6 DEF NextRow
<1> QED
  BY <1>1, <1>4, <1>7, OwnStands

LEMMA RemoveTOTPStands ==
    ASSUME AccountsSound, NEW c \in Call, SoundCall(account, call[c]), RemoveTOTP(c)
    PROVE  AccountsStand /\ CallStands(c)
<1> DEFINE u == call[c].user
<1>1. Changes(c)
  BY DEF RemoveTOTP, At, Changes, FullOps
<1>2. u \in User /\ CanChange(u)
  BY <1>1, ServedUnlocked DEF AccountsSound, Changes
<1>3. PICK b \in Row :
        /\ b = Bumped(account[u]) /\ b.gen = account[u].gen + 1 /\ b.role = account[u].role
        /\ b.locked = account[u].locked /\ b.password = account[u].password
        /\ b.totp = account[u].totp /\ b.keys = account[u].keys
  BY <1>2, BumpedRow DEF AccountsSound
<1>4. Own(c, [b EXCEPT !.totp = 0, !.last = 0]) /\ account[u].keys # {}
  BY <1>3 DEF RemoveTOTP
<1> DEFINE r == [b EXCEPT !.totp = 0, !.last = 0]
<1>5. r \in Row
  <2>1. 0 \in 0..MaxGen /\ 0 \in Step \cup {0}
    BY BoundAssumption
  <2> QED
    BY <1>3, <2>1 DEF Row
<1>6. /\ r.gen = b.gen /\ r.role = b.role /\ r.locked = b.locked /\ r.password = b.password
      /\ r.keys = b.keys
  BY <1>3 DEF Row
<1>7. NextRow(account[u], r) /\ account[u].keys \subseteq r.keys
  <2> HIDE DEF r, u
  <2> QED
    BY <1>3, <1>4, <1>5, <1>6 DEF NextRow
<1> QED
  BY <1>1, <1>4, <1>7, OwnStands

LEMMA NewCodesStands ==
    ASSUME AccountsSound, NEW c \in Call, SoundCall(account, call[c]), NewCodes(c)
    PROVE  AccountsStand /\ CallStands(c)
<1> DEFINE u == call[c].user
<1>1. Changes(c)
  BY DEF NewCodes, At, Changes, FullOps
<1>2. u \in User /\ CanChange(u)
  BY <1>1, ServedUnlocked DEF AccountsSound, Changes
<1>3. PICK b \in Row :
        /\ b = Bumped(account[u]) /\ b.gen = account[u].gen + 1 /\ b.role = account[u].role
        /\ b.locked = account[u].locked /\ b.password = account[u].password
        /\ b.totp = account[u].totp /\ b.keys = account[u].keys
  BY <1>2, BumpedRow DEF AccountsSound
<1>4. Own(c, [b EXCEPT !.codes = TRUE]) /\ Factored(account, u)
  <2>1. call[c].copy.mode = "full"
    BY DEF NewCodes, At, SoundCall, Shape, FullOps
  <2>2. Factored(account, u)
    BY <1>1, <2>1, ServedUnlocked DEF SoundCall, Sound, AccountsSound, Changes
  <2> QED
    BY <1>3, <2>2 DEF NewCodes
<1> DEFINE r == [b EXCEPT !.codes = TRUE]
<1>5. r \in Row
  BY <1>3, <1>4, BoundAssumption DEF Row
<1>6. /\ r.gen = b.gen /\ r.role = b.role /\ r.locked = b.locked /\ r.password = b.password
      /\ r.keys = b.keys /\ r.totp = b.totp
  BY <1>3 DEF Row
<1>7. NextRow(account[u], r) /\ account[u].keys \subseteq r.keys
  <2> HIDE DEF r, u
  <2> QED
    BY <1>3, <1>4, <1>5, <1>6 DEF NextRow, Factored
<1> QED
  BY <1>1, <1>4, <1>7, OwnStands

LEMMA RemoveKeyStands ==
    ASSUME AccountsSound, NEW c \in Call, SoundCall(account, call[c]), RemoveKey(c)
    PROVE  AccountsStand /\ CallStands(c)
<1> DEFINE u == call[c].user
<1>1. Changes(c)
  BY DEF RemoveKey, At, Changes, FullOps
<1>2. u \in User /\ CanChange(u) /\ call[c].copy.key \in account[u].keys \cup {NoKey}
  BY <1>1, ServedUnlocked DEF AccountsSound, Changes, SoundCall, Sound
<1>3. PICK b \in Row :
        /\ b = Bumped(account[u]) /\ b.gen = account[u].gen + 1 /\ b.role = account[u].role
        /\ b.locked = account[u].locked /\ b.password = account[u].password
        /\ b.totp = account[u].totp /\ b.keys = account[u].keys
        /\ account[u].gen + 1 \in 0..MaxGen
  BY <1>2, BumpedRow DEF AccountsSound
<1>4. PICK key \in account[u].keys :
        /\ account' = [account EXCEPT ![u] = [Bumped(account[u]) EXCEPT !.keys = @ \ {key}]]
        /\ call' = [call EXCEPT ![c].next = account[u].gen + 1, ![c].at = "sign",
                                ![c].copy.key = IF @ = key THEN NoKey ELSE @]
        /\ FactorCount(u) >= 2
  BY DEF RemoveKey
<1> DEFINE r == [b EXCEPT !.keys = @ \ {key}]
           n == account[u].gen + 1
<1>5. r \in Row
  BY <1>3 DEF Row
<1>6. /\ r.gen = b.gen /\ r.role = b.role /\ r.locked = b.locked /\ r.password = b.password
      /\ r.keys = b.keys \ {key} /\ r.totp = b.totp
  BY <1>3 DEF Row
<1>7. r.totp # 0 \/ r.keys # {}
  <2>1. CASE b.totp = 0 /\ b.keys = {key}
    <3>1. Cardinality(b.keys) = 1
      BY <2>1, FS_Singleton
    <3> QED
      BY <1>3, <1>4, <2>1, <3>1 DEF FactorCount
  <2> QED
    BY <1>3, <1>4, <1>6, <2>1, Zenon
<1>8. NextRow(account[u], r)
  <2> HIDE DEF r, u
  <2> QED
    BY <1>3, <1>5, <1>6, <1>7 DEF NextRow
<1>9. PICK h \in Handler : h = call[c] /\ h.copy \in Proof
  BY CallTypes DEF AccountsSound, Handler
<1>10. PICK p \in Proof :
        /\ p = [h.copy EXCEPT !.key = IF @ = key THEN NoKey ELSE @]
        /\ p.who = h.copy.who /\ p.gen = h.copy.gen /\ p.mode = h.copy.mode
        /\ p.password = h.copy.password /\ p.key = IF h.copy.key = key THEN NoKey ELSE h.copy.key
  <2>1. [h.copy EXCEPT !.key = IF @ = key THEN NoKey ELSE @] \in Proof
    BY <1>9 DEF Proof
  <2> QED
    BY <1>9, <2>1 DEF Proof
<1>11. PICK k \in Handler :
        /\ k = [h EXCEPT !.next = n, !.at = "sign", !.copy = p]
        /\ k.op = h.op /\ k.at = "sign" /\ k.user = h.user
        /\ k.gen = h.gen /\ k.subject = h.subject /\ k.next = n
        /\ k.password = h.password /\ k.copy = p
  <2>1. n \in 0..MaxGen
    BY <1>3
  <2> HIDE DEF n
  <2>2. [h EXCEPT !.next = n, !.at = "sign", !.copy = p] \in Handler
    BY <2>1 DEF Handler, Stage
  <2> QED
    BY <1>9, <2>2 DEF Handler
<1>12. call' = [call EXCEPT ![c] = k]
  <2>1. k = [h EXCEPT !.next = n, !.at = "sign", !.copy.key = IF @ = key THEN NoKey ELSE @]
    BY <1>9, <1>10, <1>11
  <2> HIDE DEF r, u
  <2> QED
    BY <1>4, <1>9, <2>1, CallTypes DEF AccountsSound
<1>13. /\ call' \in [Call -> Handler] /\ call'[c] = k /\ \A d \in Call \ {c} : call'[d] = call[d]
  BY <1>12, CallTypes DEF AccountsSound
<1>14. Onward(call[c], k, r)
  <2>1. h.copy.key \in account[u].keys \cup {NoKey}
    BY <1>2, <1>9
  <2> HIDE DEF r, u
  <2>2. k.copy.key \in r.keys \cup {NoKey}
    BY <1>3, <1>6, <1>10, <1>11, <2>1, ZenonT(60)
  <2> QED
    BY <1>3, <1>6, <1>9, <1>10, <1>11, <2>2 DEF Onward, u
<1>15. AccountsStand /\ SoundCall(account', k)
  <2>1. account' = [account EXCEPT ![u] = r]
    BY <1>3, <1>4
  <2> QED
    BY <1>1, <1>8, <1>14, <2>1, OwnChange
<1> QED
  BY <1>13, <1>15 DEF CallStands

(* The other changes: of a password, by an administrator, through a link, on the host. *)
LEMMA PasswordRow ==
    ASSUME NEW a \in Row, a.gen < MaxGen
    PROVE  \E r \in Row :
              /\ r = WithPassword(a) /\ r.gen = a.gen + 1 /\ r.role = a.role /\ r.locked = a.locked
              /\ r.totp = a.totp /\ r.keys = a.keys /\ r.codes = a.codes
              /\ a.gen \in Nat /\ r.last = a.last
<1>1. /\ WithPassword(a) \in Row /\ a.gen \in Nat
      /\ WithPassword(a) = [a EXCEPT !.gen = a.gen + 1, !.password = a.gen + 1]
  BY NewRows, Zenon
<1> QED
  BY <1>1 DEF Row

LEMMA ChangePasswordStands ==
    ASSUME AccountsSound, NEW c \in Call, SoundCall(account, call[c]), ChangePassword(c)
    PROVE  AccountsStand
<1> DEFINE u == call[c].user
<1>1. CanChange(u) /\ account' = [account EXCEPT ![u] = WithPassword(account[u])] /\ u \in User
  BY DEF ChangePassword, At, SoundCall, Shape, FullOps, OpenOps
<1>2. account[u] \in Row /\ account[u].gen < MaxGen /\ account[u].role # "none"
  BY <1>1, RowOf DEF AccountsSound
<1> HIDE DEF u
<1>3. PICK r \in Row :
        /\ r = WithPassword(account[u]) /\ r.gen > account[u].gen /\ r.role = account[u].role
        /\ r.locked = account[u].locked /\ r.totp = account[u].totp
        /\ r.keys = account[u].keys /\ r.codes = account[u].codes
  BY <1>2, PasswordRow
<1>4. r.locked => r.totp = 0 /\ r.keys = {} /\ ~r.codes
  BY <1>1, <1>3 DEF AccountsSound, SoundAccount, Factored
<1> QED
  BY <1>1, <1>2, <1>3, <1>4, Regenerated

LEMMA SaveMemberStands ==
    ASSUME AccountsSound, NEW c \in Call, SaveMember(c) PROVE AccountsStand
<1>1. PICK u \in User, role \in {"member", "admin"}, on \in BOOLEAN :
        CanChange(u) /\ account' = [account EXCEPT ![u] = [Bumped(@) EXCEPT !.role = role, !.enabled = on]]
  BY DEF SaveMember
<1>2. PICK b \in Row :
        /\ b = Bumped(account[u]) /\ b.gen = account[u].gen + 1 /\ b.role = account[u].role
        /\ b.locked = account[u].locked /\ b.totp = account[u].totp /\ b.keys = account[u].keys
        /\ b.codes = account[u].codes /\ account[u].gen \in Nat
  BY <1>1, BumpedRow DEF AccountsSound
<1>3. PICK r \in Row : /\ r = [b EXCEPT !.role = role, !.enabled = on]
                       /\ r.gen = b.gen /\ r.role = role /\ r.locked = b.locked
                       /\ r.totp = b.totp /\ r.keys = b.keys /\ r.codes = b.codes
  <2>1. [b EXCEPT !.role = role, !.enabled = on] \in Row
    BY DEF Row
  <2> QED
    BY <2>1 DEF Row
<1>4. r.locked => r.totp = 0 /\ r.keys = {} /\ ~r.codes
  BY <1>2, <1>3 DEF AccountsSound, SoundAccount, Factored
<1>5. r.gen > account[u].gen /\ r.role # "none" /\ account[u].role # "none"
  BY <1>1, <1>2, <1>3 DEF CanChange, Exists
<1> QED
  BY <1>1, <1>2, <1>3, <1>4, <1>5, Regenerated

LEMMA FactorResetStands ==
    ASSUME AccountsSound, NEW c \in Call, FactorReset(c) PROVE AccountsStand
<1>1. PICK u \in User :
        CanChange(u) /\ account' = [account EXCEPT ![u] = [WithoutFactors(@) EXCEPT !.locked = TRUE]]
  BY DEF FactorReset
<1>2. account[u] \in Row /\ account[u].gen < MaxGen /\ account[u].role # "none" /\ account[u].gen \in Nat
  BY <1>1, RowOf DEF AccountsSound, Row
<1> DEFINE r == [WithoutFactors(account[u]) EXCEPT !.locked = TRUE]
<1>3. r \in {[WithoutFactors(account[u]) EXCEPT !.locked = b] : b \in BOOLEAN}
  OBVIOUS
<1>4. account' = [account EXCEPT ![u] = r]
  BY <1>1
<1> HIDE DEF r
<1>5. r \in Row /\ r.gen = account[u].gen + 1 /\ r.role = account[u].role
  BY <1>2, <1>3, Cleared
<1>6. r.totp = 0 /\ r.keys = {} /\ ~r.codes
  BY <1>2, <1>3, Cleared
<1>7. r.gen > account[u].gen /\ r.role # "none"
  BY <1>2, <1>5
<1> QED
  BY <1>1, <1>2, <1>4, <1>5, <1>6, <1>7, Regenerated

(* An account that comes into being has generation 1, which nobody holds yet. *)
LEMMA FoundedStands ==
    ASSUME AccountsSound, NEW u \in User, ~Exists(u), NEW role \in {"member", "admin"},
           account' = [account EXCEPT ![u].role = role]
    PROVE  AccountsStand
<1>1. account[u] \in Row /\ account \in [User -> Row]
  BY AccountTypes DEF AccountsSound
<1>2. PICK r \in Row : /\ r = [account[u] EXCEPT !.role = role] /\ r.gen = account[u].gen
                       /\ r.role = role /\ r.locked = account[u].locked /\ r.totp = account[u].totp
                       /\ r.keys = account[u].keys /\ r.codes = account[u].codes
  <2>1. [account[u] EXCEPT !.role = role] \in Row
    BY <1>1 DEF Row
  <2> QED
    BY <1>1, <2>1 DEF Row
<1>3. account' = [account EXCEPT ![u] = r]
  BY <1>1, <1>2
<1> QED
  BY <1>1, <1>2, <1>3 DEF AccountsSound, AccountsStand, Moves, SoundAccount, Factored, Exists

LEMMA RedeemStands ==
    ASSUME AccountsSound, NEW l \in Link, Redeem(l) PROVE AccountsStand
<1> DEFINE u == link[l].user
           kind == link[l].kind
<1>1. CASE u \notin User
  <2>1. account' = account
    BY <1>1, AccountTypes DEF Redeem, AccountsSound
  <2> QED
    BY <2>1, AccountsUnchanged
<1>2. CASE u \in User /\ kind = "invite"
  <2>1. ~Exists(u) /\ account' = [account EXCEPT ![u].role = "member"]
    BY <1>2 DEF Redeem
  <2> QED
    BY <1>2, <2>1, FoundedStands
<1>3. CASE u \in User /\ kind # "invite"
  <2>1. /\ CanChange(u)
        /\ account' = [account EXCEPT ![u] = [WithPassword(account[u]) EXCEPT !.locked = @ /\ kind # "factor"]]
    BY <1>3 DEF Redeem
  <2>2. account[u] \in Row /\ account[u].gen < MaxGen /\ account[u].role # "none"
    BY <1>3, <2>1, RowOf DEF AccountsSound
  <2>3. PICK b \in Row :
          /\ b = WithPassword(account[u]) /\ b.gen > account[u].gen /\ b.role = account[u].role
          /\ b.locked = account[u].locked /\ b.totp = account[u].totp
          /\ b.keys = account[u].keys /\ b.codes = account[u].codes
    BY <2>2, PasswordRow
  <2>4. PICK locked \in BOOLEAN :
          locked = (b.locked /\ kind # "factor") /\ (locked => b.locked)
    OBVIOUS
  <2>5. PICK r \in Row : /\ r = [b EXCEPT !.locked = locked] /\ r.locked = locked
                         /\ r.gen = b.gen /\ r.role = b.role /\ r.totp = b.totp
                         /\ r.keys = b.keys /\ r.codes = b.codes
    <3>1. [b EXCEPT !.locked = locked] \in Row
      BY DEF Row
    <3> QED
      BY <3>1 DEF Row
  <2>6. account' = [account EXCEPT ![u] = r]
    BY <2>1, <2>3, <2>4, <2>5
  <2>7. r.locked => r.totp = 0 /\ r.keys = {} /\ ~r.codes
    BY <1>3, <2>3, <2>4, <2>5 DEF AccountsSound, SoundAccount, Factored
  <2>8. r.gen > account[u].gen /\ r.role # "none"
    BY <2>2, <2>3, <2>5
  <2> QED
    BY <1>3, <2>2, <2>6, <2>7, <2>8, Regenerated
<1> QED
  BY <1>1, <1>2, <1>3

LEMMA RecoverStands ==
    ASSUME AccountsSound, NEW u \in User, NEW reset \in BOOLEAN, Recover(u, reset) PROVE AccountsStand
<1>1. account[u] \in Row /\ account[u].gen \in Nat /\ account[u].gen < MaxGen /\ account[u].role = "admin"
      /\ (reset => account[u].gen + 1 < MaxGen)
  <2>1. account[u] \in Row /\ account[u].gen \in Nat
    BY AccountTypes DEF AccountsSound, Row
  <2> QED
    BY <2>1, BoundAssumption DEF Recover
<1>2. PICK b \in Row :
        /\ b = WithPassword(account[u]) /\ b.gen = account[u].gen + 1 /\ b.role = account[u].role
        /\ b.locked = account[u].locked /\ b.totp = account[u].totp
        /\ b.keys = account[u].keys /\ b.codes = account[u].codes
  BY <1>1, PasswordRow
<1>3. PICK a \in Row :
        /\ a = [b EXCEPT !.enabled = TRUE] /\ a.gen = b.gen /\ a.role = b.role
        /\ a.locked = b.locked /\ a.totp = b.totp /\ a.keys = b.keys /\ a.codes = b.codes
  <2>1. [b EXCEPT !.enabled = TRUE] \in Row
    BY DEF Row
  <2> QED
    BY <2>1 DEF Row
<1>4. CASE reset
  <2> DEFINE r == [WithoutFactors(a) EXCEPT !.locked = FALSE]
  <2>1. r \in {[WithoutFactors(a) EXCEPT !.locked = l] : l \in BOOLEAN}
    OBVIOUS
  <2>2. account' = [account EXCEPT ![u] = r]
    BY <1>2, <1>3, <1>4 DEF Recover
  <2> HIDE DEF r
  <2>3. a.gen < MaxGen
    BY <1>1, <1>2, <1>3, <1>4
  <2>4. r \in Row /\ r.gen = a.gen + 1 /\ r.role = a.role
    BY <2>1, <2>3, Cleared
  <2>5. r.totp = 0 /\ r.keys = {} /\ ~r.codes
    BY <2>1, <2>3, Cleared
  <2>6. r.gen > account[u].gen /\ r.role # "none" /\ account[u].role # "none"
    BY <1>1, <1>2, <1>3, <2>4
  <2> QED
    BY <2>2, <2>4, <2>5, <2>6, Regenerated
<1>5. CASE ~reset
  <2>1. account' = [account EXCEPT ![u] = a]
    BY <1>2, <1>3, <1>5 DEF Recover
  <2>2. a.locked => a.totp = 0 /\ a.keys = {} /\ ~a.codes
    BY <1>2, <1>3 DEF AccountsSound, SoundAccount, Factored
  <2>3. a.gen > account[u].gen /\ a.role # "none" /\ account[u].role # "none"
    BY <1>1, <1>2, <1>3
  <2> QED
    BY <2>1, <2>2, <2>3, Regenerated
<1> QED
  BY <1>4, <1>5

LEMMA AccountStep == ASSUME AccountsSound, \A c \in Call : SoundCall(account, call[c]), Next
                     PROVE  AccountsStand
<1> USE AccountsUnchanged
<1>1. ASSUME NEW c \in Call, Login(c) PROVE AccountsStand
  BY <1>1, RecoveryCodeStands
     DEF Login, LoginCompare, Again, LoginMode, RecoveryMode, Pending, tables
<1>2. ASSUME NEW c \in Call, Factor(c) PROVE AccountsStand
  BY <1>2, CheckTOTPStands, Zenon DEF Factor, SignedIn, Resolve, Issue, Take, FindKey, KeyOwner, UseKey, tables
<1>3. ASSUME NEW c \in Call, Change(c) PROVE AccountsStand
  BY <1>3, EnrollTOTPStands, EnrollKeyStands, RemoveTOTPStands, RemoveKeyStands, NewCodesStands,
     ChangePasswordStands DEF Change, PasswordCompare, tables
<1>4. ASSUME NEW c \in Call, Administer(c) PROVE AccountsStand
  BY <1>4, SaveMemberStands, FactorResetStands DEF Administer, IssueReset, IssueInvite, RevokeLink
<1>5. ASSUME NEW c \in Call, Fail(c) \/ Page(c) \/ Save(c) PROVE AccountsStand
  BY <1>5 DEF Fail, Page, Save, Rendered, tables
<1>6. ASSUME NEW u \in User, CreateAdmin(u) PROVE AccountsStand
  BY <1>6, FoundedStands DEF CreateAdmin
<1>7. ASSUME NEW c \in Call, NEW op, NEW t, Begin(c, op, t) PROVE AccountsStand
  BY <1>7 DEF Begin, tables
<1>8. CASE Restart \/ \E t \in Token : Logout(t)
  BY <1>8 DEF Restart, Logout, tables
<1> QED
  BY <1>1, <1>2, <1>3, <1>4, <1>5, <1>6, <1>7, <1>8, RedeemStands, RecoverStands DEF Next, Using

-----------------------------------------------------------------------------
(* What a handler holds after its step.  A handler that has its result holds
   nothing but a session. *)
LEMMA Nobody ==
    /\ Anonymous \in Proof /\ NoSession \in Proof
    /\ \A a : Sound(a, Anonymous) /\ Sound(a, NoSession)
<1>1. 0 \in 0..MaxGen
  BY BoundAssumption
<1>2. Anonymous \in Proof /\ Anonymous.who = NoUser
  BY <1>1 DEF Anonymous, Proof
<1>3. NoSession \in Proof /\ NoSession.who = NoUser
  BY <1>2 DEF NoSession, Proof, Anonymous
<1> QED
  BY <1>2, <1>3, AbsenceAssumption DEF Sound

LEMMA IdleIsSound ==
    ASSUME NEW a PROVE Idle \in Handler /\ SoundCall(a, Idle)
<1>1. 0 \in 0..MaxGen /\ Anonymous \in Proof /\ Sound(a, Anonymous)
  BY BoundAssumption, Nobody
<1>2. Idle \in Handler
  BY <1>1 DEF Idle, Handler, Stage
<1>3. Shape(Idle)
  BY DEF Idle, Shape, OpenOps, FactorOps, FullOps, AdminOps
<1>4. SoundAim(a, Idle) /\ Idle.op \notin AdminOps /\ Idle.copy = Anonymous
  BY AbsenceAssumption DEF Idle, SoundAim, AdminOps
<1> QED
  BY <1>1, <1>2, <1>3, <1>4 DEF SoundCall

LEMMA AnswerIsSound ==
    ASSUME NEW a, NEW stage \in {"save", "page"}, NEW token \in Token \cup {NoToken, NewToken},
           NEW p \in Proof, Sound(a, p)
    PROVE  Answered(stage, token, p) \in Handler /\ SoundCall(a, Answered(stage, token, p))
<1> DEFINE k == [Idle EXCEPT !.op = "browse", !.at = stage, !.token = token, !.copy = p]
<1>1. 0 \in 0..MaxGen
  BY BoundAssumption
<1>2. k \in Handler
  BY <1>1 DEF Idle, Handler, Stage, AllOps, OpenOps
<1>3. /\ k.op = "browse" /\ k.at = stage /\ k.copy = p /\ k.user = NoUser /\ k.gen = 0
      /\ k.subject = NoUser /\ k.next = 0 /\ k.password = 0
  BY DEF Idle
<1> HIDE DEF k
<1>4. Shape(k)
  BY <1>3 DEF Shape, OpenOps, FactorOps, FullOps, AdminOps
<1>5. SoundAim(a, k) /\ k.op \notin AdminOps
  BY <1>3, AbsenceAssumption DEF SoundAim, AdminOps
<1>6. SoundCall(a, k)
  BY <1>3, <1>4, <1>5 DEF SoundCall
<1> QED
  BY <1>2, <1>6, IdleIsSound DEF Answered, k

LEMMA Replaced ==
    ASSUME TypeOK, NEW c \in Call, NEW k \in Handler, SoundCall(account', k),
           call' = [call EXCEPT ![c] = k]
    PROVE  CallStands(c)
  BY CallTypes DEF CallStands

LEMMA AnsweredStands ==
    ASSUME AccountsSound, AccountsStand, NEW c \in Call, NEW stage \in {"save", "page"},
           NEW token \in Token \cup {NoToken, NewToken}, NEW p \in Proof, Sound(account, p),
           call' = [call EXCEPT ![c] = Answered(stage, token, p)]
    PROVE  CallStands(c)
<1>1. Sound(account', p)
  BY SoundStays, AccountTypes DEF AccountsSound, AccountsStand
<1> QED
  BY <1>1, AnswerIsSound, Replaced DEF AccountsSound

(* The pages a handler's answer may be, and what it holds. *)
LEMMA Held ==
    ASSUME TypeOK, NEW c \in Call, SoundCall(account, call[c])
    PROVE  /\ call[c] \in Handler /\ call[c].copy \in Proof /\ Sound(account, call[c].copy)
           /\ call[c].token \in Token \cup {NoToken, NewToken}
           /\ Answer(call[c].op) \in {"save", "page"}
  BY CallTypes DEF Handler, SoundCall, Answer

LEMMA StillSound ==
    ASSUME AccountsSound, AccountsStand, NEW c \in Call, NEW k \in Handler, SoundCall(account, k),
           call' = [call EXCEPT ![c] = k]
    PROVE  CallStands(c)
  BY SoundCallStays, AccountTypes, Replaced DEF AccountsSound, AccountsStand

(* A handler that goes on: for the same account and session, with these readings. *)
GoesOn(h, k, stage, subject, next, password, key) ==
    /\ k.op = h.op /\ k.user = h.user /\ k.gen = h.gen /\ k.copy = h.copy
    /\ k.at = stage /\ k.subject = subject /\ k.next = next /\ k.password = password /\ k.key = key

LEMMA GotoHandler ==
    ASSUME TypeOK, NEW c \in Call, NEW stage \in Stage, Goto(c, stage)
    PROVE  \E k \in Handler :
              /\ call' = [call EXCEPT ![c] = k]
              /\ GoesOn(call[c], k, stage, call[c].subject, call[c].next, call[c].password, call[c].key)
<1>1. PICK h \in Handler : h = call[c]
  BY CallTypes
<1>2. PICK k \in Handler : /\ k = [h EXCEPT !.at = stage]
                           /\ GoesOn(h, k, stage, h.subject, h.next, h.password, h.key)
  <2>1. [h EXCEPT !.at = stage] \in Handler
    BY DEF Handler
  <2> QED
    BY <2>1 DEF Handler, GoesOn
<1>3. call' = [call EXCEPT ![c] = k]
  BY <1>1, <1>2, CallTypes DEF Goto
<1> QED
  BY <1>1, <1>2, <1>3

LEMMA LoginCompareStands ==
    ASSUME AccountsSound, NEW c \in Call, SoundCall(account, call[c]), LoginCompare(c)
    PROVE  CallStands(c)
<1>1. PICK h \in Handler : h = call[c]
  BY CallTypes DEF AccountsSound
<1>2. PICK u \in User :
        /\ Exists(u) /\ account[u].enabled
        /\ call' = [call EXCEPT ![c].at = "again", ![c].subject = u,
                                ![c].next = account[u].gen, ![c].password = account[u].password]
  BY DEF LoginCompare
<1>3. PICK a \in Row : a = account[u] /\ a.gen \in 0..MaxGen /\ a.password \in 0..MaxGen /\ a.gen \in Nat
  <2>1. account[u] \in Row
    BY AccountTypes DEF AccountsSound
  <2> QED
    BY <2>1, BoundAssumption DEF Row
<1>4. PICK k \in Handler :
        /\ k = [h EXCEPT !.at = "again", !.subject = u, !.next = a.gen, !.password = a.password]
        /\ GoesOn(h, k, "again", u, a.gen, a.password, h.key)
  <2>1. [h EXCEPT !.at = "again", !.subject = u, !.next = a.gen, !.password = a.password] \in Handler
    BY <1>3, ZenonT(60) DEF Handler, Stage
  <2> QED
    BY <2>1 DEF Handler, GoesOn
<1>5. call' = [call EXCEPT ![c] = k]
  BY <1>1, <1>2, <1>3, <1>4, CallTypes DEF AccountsSound
<1>6. h.op = "login" /\ SoundCall(account, h)
  BY <1>1 DEF LoginCompare, At
<1>7. Shape(k)
  BY <1>4, <1>6 DEF SoundCall, Shape, GoesOn, OpenOps, FactorOps, FullOps, AdminOps
<1>8. SoundAim(account, k)
  BY <1>2, <1>3, <1>4, <1>6 DEF SoundAim, GoesOn, Exists
<1>9. SoundCall(account, k)
  BY <1>4, <1>6, <1>7, <1>8 DEF SoundCall, GoesOn, AdminOps
<1> QED
  BY <1>5, <1>9, StillSound, AccountsUnchanged DEF LoginCompare, tables

LEMMA AgainStands ==
    ASSUME AccountsSound, NEW c \in Call, SoundCall(account, call[c]), Again(c)
    PROVE  CallStands(c)
<1>1. PICK k \in Handler :
        /\ call' = [call EXCEPT ![c] = k]
        /\ GoesOn(call[c], k, "mode", call[c].subject, call[c].next, call[c].password, call[c].key)
  BY GotoHandler DEF AccountsSound, Again, Stage
<1>2. call[c].at = "again" /\ call[c].op \in {"login", "recovery"}
  BY DEF Again, At
<1>3. Shape(k) /\ SoundAim(account, k)
  BY <1>1, <1>2 DEF SoundCall, Shape, SoundAim, GoesOn, OpenOps, FactorOps, FullOps, AdminOps
<1>4. SoundCall(account, k)
  BY <1>1, <1>3 DEF SoundCall, GoesOn
<1> QED
  BY <1>1, <1>4, StillSound, AccountsUnchanged DEF Again, tables

LEMMA ResolveStands ==
    ASSUME AccountsSound, NEW c \in Call, SoundCall(account, call[c]), Resolve(c)
    PROVE  CallStands(c)
<1>1. PICK stage \in {"issue", "take"} : Goto(c, stage)
  BY DEF Resolve
<1>2. PICK k \in Handler :
        /\ call' = [call EXCEPT ![c] = k]
        /\ GoesOn(call[c], k, stage, call[c].subject, call[c].next, call[c].password, call[c].key)
  BY <1>1, GotoHandler DEF AccountsSound, Stage
<1>3. call[c].at = "identity" /\ call[c].op \in {"register-begin", "register-finish"}
  BY DEF Resolve, At
<1>4. Shape(k) /\ SoundAim(account, k)
  BY <1>2, <1>3 DEF SoundCall, Shape, SoundAim, GoesOn, OpenOps, FactorOps, FullOps, AdminOps
<1>5. SoundCall(account, k)
  BY <1>2, <1>4 DEF SoundCall, GoesOn
<1> QED
  BY <1>2, <1>5, StillSound, AccountsUnchanged DEF Resolve, tables

LEMMA PasswordCompareStands ==
    ASSUME AccountsSound, NEW c \in Call, SoundCall(account, call[c]), PasswordCompare(c)
    PROVE  CallStands(c)
<1>1. PICK k \in Handler :
        /\ call' = [call EXCEPT ![c] = k]
        /\ GoesOn(call[c], k, "write", call[c].subject, call[c].next, call[c].password, call[c].key)
  BY GotoHandler DEF AccountsSound, PasswordCompare, Stage
<1>2. call[c].at = "compare" /\ call[c].op = "password"
  BY DEF PasswordCompare, At
<1>3. Shape(k) /\ SoundAim(account, k)
  BY <1>1, <1>2 DEF SoundCall, Shape, SoundAim, GoesOn, OpenOps, FactorOps, FullOps, AdminOps
<1>4. SoundCall(account, k)
  BY <1>1, <1>3 DEF SoundCall, GoesOn
<1> QED
  BY <1>1, <1>4, StillSound, AccountsUnchanged DEF PasswordCompare, tables

(* A passkey's owner has a factor, and so is not locked. *)
LEMMA UseKeyStands ==
    ASSUME AccountsSound, NEW c \in Call, SoundCall(account, call[c]), UseKey(c)
    PROVE  CallStands(c)
<1>1. PICK k \in Handler :
        /\ call' = [call EXCEPT ![c] = k]
        /\ GoesOn(call[c], k, "sign", call[c].subject, call[c].next, call[c].password, call[c].key)
  BY GotoHandler DEF AccountsSound, UseKey, Stage
<1>2. /\ call[c].at = "use" /\ call[c].op = "passkey-finish" /\ call[c].subject \in User
      /\ call[c].key \in account[call[c].subject].keys
  BY DEF UseKey, At, Valid
<1>3. Factored(account, call[c].subject) /\ ~account[call[c].subject].locked
  BY <1>2 DEF Factored, SoundAccount, AccountsSound
<1>4. Shape(k)
  BY <1>1, <1>2 DEF SoundCall, Shape, GoesOn, OpenOps, FactorOps, FullOps, AdminOps
<1>5. SoundAim(account, k)
  BY <1>1, <1>2, <1>3 DEF SoundCall, SoundAim, GoesOn
<1>6. SoundCall(account, k)
  BY <1>1, <1>4, <1>5 DEF SoundCall, GoesOn
<1> QED
  BY <1>1, <1>6, StillSound, AccountsUnchanged DEF UseKey, tables

LEMMA KeyOwnerStands ==
    ASSUME AccountsSound, NEW c \in Call, SoundCall(account, call[c]), KeyOwner(c)
    PROVE  CallStands(c)
<1> DEFINE u == call[c].subject
<1>1. PICK h \in Handler : h = call[c]
  BY CallTypes DEF AccountsSound
<1>2. /\ h.at = "owner" /\ h.op = "passkey-finish" /\ u \in User /\ h.subject = u
      /\ call' = [call EXCEPT ![c].at = "use", ![c].next = account[u].gen]
      /\ SoundCall(account, h)
  BY <1>1 DEF KeyOwner, At, SoundCall, Shape
<1>3. PICK n \in 0..MaxGen : n = account[u].gen /\ n <= account[u].gen
  <2>1. account[u] \in Row
    BY <1>2, AccountTypes DEF AccountsSound
  <2> QED
    BY <2>1, BoundAssumption DEF Row
<1> HIDE DEF u
<1>4. PICK k \in Handler : /\ k = [h EXCEPT !.at = "use", !.next = n]
                           /\ GoesOn(h, k, "use", u, n, h.password, h.key)
  <2>1. [h EXCEPT !.at = "use", !.next = n] \in Handler
    BY DEF Handler, Stage
  <2> QED
    BY <1>2, <2>1 DEF Handler, GoesOn
<1>5. call' = [call EXCEPT ![c] = k]
  BY <1>1, <1>2, <1>3, <1>4, CallTypes DEF AccountsSound
<1>6. Shape(k)
  BY <1>2, <1>4 DEF SoundCall, Shape, GoesOn, OpenOps, FactorOps, FullOps, AdminOps
<1>7. SoundAim(account, k)
  <2>1. account[u].role # "none" /\ k.password = 0
    BY <1>2, <1>4 DEF SoundCall, SoundAim, Shape, GoesOn
  <2> QED
    BY <1>2, <1>3, <1>4, <2>1 DEF SoundAim, GoesOn
<1>8. SoundCall(account, k)
  BY <1>2, <1>4, <1>6, <1>7 DEF SoundCall, GoesOn, AdminOps
<1> QED
  BY <1>5, <1>8, StillSound, AccountsUnchanged DEF KeyOwner, tables

(* A passkey found names an account only for the session that began with it. *)
LEMMA FindKeyStands ==
    ASSUME AccountsSound, NEW c \in Call, SoundCall(account, call[c]), FindKey(c)
    PROVE  CallStands(c)
<1>1. PICK h \in Handler : h = call[c]
  BY CallTypes DEF AccountsSound
<1>2. PICK u \in User, key \in Key :
        /\ key \in account[u].keys /\ h.user \in {NoUser, u}
        /\ call' = [call EXCEPT ![c].at = "owner", ![c].subject = u, ![c].key = key]
  BY <1>1 DEF FindKey
<1>3. h.at = "find" /\ h.op = "passkey-finish" /\ SoundCall(account, h)
  BY <1>1 DEF FindKey, At
<1>4. PICK k \in Handler : /\ k = [h EXCEPT !.at = "owner", !.subject = u, !.key = key]
                           /\ GoesOn(h, k, "owner", u, h.next, h.password, key)
  <2>1. [h EXCEPT !.at = "owner", !.subject = u, !.key = key] \in Handler
    BY DEF Handler, Stage
  <2> QED
    BY <2>1 DEF Handler, GoesOn
<1>5. call' = [call EXCEPT ![c] = k]
  BY <1>1, <1>2, <1>4, CallTypes DEF AccountsSound
<1>6. Shape(k)
  BY <1>3, <1>4 DEF SoundCall, Shape, GoesOn, OpenOps, FactorOps, FullOps, AdminOps
<1>7. SoundAim(account, k)
  <2>1. account[u].role # "none" /\ ~account[u].locked
    BY <1>2 DEF AccountsSound, SoundAccount, Factored
  <2>2. account[u].gen \in Nat /\ account[u].gen # 0
    <3>1. account[u] \in Row
      BY AccountTypes DEF AccountsSound
    <3> QED
      BY <3>1 DEF Row
  <2>3. k.password = 0 /\ k.next = h.gen /\ k.op = "passkey-finish"
    BY <1>3, <1>4 DEF SoundCall, Shape, GoesOn
  <2>4. k.next <= account[u].gen
    <3>1. CASE h.user = NoUser
      BY <1>3, <2>2, <2>3, <3>1 DEF SoundCall, Shape
    <3>2. CASE h.user = u /\ h.user # NoUser
      <4>1. h.copy.who = u /\ h.copy.gen = h.gen
        BY <1>3, <3>2 DEF SoundCall, Shape
      <4> QED
        BY <1>3, <2>3, <4>1 DEF SoundCall, Sound
    <3> QED
      BY <1>2, <3>1, <3>2
  <2> QED
    BY <1>4, <2>1, <2>3, <2>4 DEF SoundAim, GoesOn
<1>8. SoundCall(account, k)
  BY <1>3, <1>4, <1>6, <1>7 DEF SoundCall, GoesOn, AdminOps
<1> QED
  BY <1>5, <1>8, StillSound, AccountsUnchanged DEF FindKey, tables

(* The code of an account's authenticator: its session counts, so it is not locked. *)
LEMMA CheckTOTPGoesOn ==
    ASSUME AccountsSound, NEW c \in Call, SoundCall(account, call[c]), CheckTOTP(c)
    PROVE  CallStands(c)
<1> DEFINE u == call[c].user
<1>1. AccountsStand
  BY CheckTOTPStands
<1>2. /\ call[c].at = "totp" /\ call[c].op \in {"verify", "reauth"} /\ account[u].totp # 0
      /\ Identity(c)
  BY DEF CheckTOTP, At
<1>3. CASE call[c].op = "reauth"
  <2>1. call' = [call EXCEPT ![c] = Answered("page", call[c].token, call[c].copy)]
    BY <1>3 DEF CheckTOTP
  <2> QED
    BY <1>1, <2>1, Held, AnsweredStands DEF AccountsSound
<1>4. CASE call[c].op = "verify"
  <2>1. PICK k \in Handler :
          /\ call' = [call EXCEPT ![c] = k]
          /\ GoesOn(call[c], k, "sign", call[c].subject, call[c].next, call[c].password, call[c].key)
    BY <1>4, GotoHandler DEF AccountsSound, CheckTOTP, Stage
  <2>2. Shape(k)
    BY <1>2, <1>4, <2>1 DEF SoundCall, Shape, GoesOn, OpenOps, FactorOps, FullOps, AdminOps
  <2>3. /\ u \in User /\ ~account[u].locked /\ Counts(account, u, call[c].gen)
        /\ call[c].copy.who = u /\ call[c].copy.gen = call[c].gen
        /\ call[c].subject = u /\ call[c].next = call[c].gen
    BY <1>2, ServedUnlocked DEF AccountsSound, SoundCall, Shape
  <2>4. /\ call[c].copy.password \in {0, account[u].password}
        /\ call[c].copy.key \in account[u].keys \cup {NoKey}
    BY <2>3 DEF SoundCall, Sound
  <2>5. SoundAim(account, k)
    BY <1>2, <1>4, <2>1, <2>3, <2>4 DEF SoundCall, SoundAim, GoesOn, Factored
  <2>6. SoundCall(account, k)
    BY <2>1, <2>2, <2>5 DEF SoundCall, GoesOn
  <2> QED
    BY <1>1, <2>1, <2>6, StillSound
<1> QED
  BY <1>2, <1>3, <1>4

LEMMA PendingStands ==
    ASSUME AccountsSound, NEW c \in Call, SoundCall(account, call[c]), NEW mode \in {"verify", "enroll"},
           call[c].subject \in User => ~account[call[c].subject].locked \/ call[c].op = "recovery",
           call[c].at = "mode",
           mode = "enroll" => \/ call[c].op = "recovery"
                              \/ call[c].subject \in User => ~HasFactor(call[c].subject),
           Pending(c, mode)
    PROVE  CallStands(c)
<1>1. PICK h \in Handler : h = call[c] /\ h.copy \in Proof
  BY CallTypes DEF AccountsSound, Handler
<1>2. PICK p \in Proof :
        /\ p = [h.copy EXCEPT !.mode = mode, !.who = h.subject, !.gen = h.next,
                              !.password = h.password, !.key = NoKey]
        /\ p.mode = mode /\ p.who = h.subject /\ p.gen = h.next /\ p.password = h.password
        /\ p.key = NoKey
  <2>1. /\ h.subject \in User \cup {NoUser} /\ h.next \in 0..MaxGen /\ h.password \in 0..MaxGen
    BY DEF Handler
  <2>2. [h.copy EXCEPT !.mode = mode, !.who = h.subject, !.gen = h.next,
                       !.password = h.password, !.key = NoKey] \in Proof
    BY <1>1, <2>1, ZenonT(60) DEF Proof
  <2> QED
    BY <1>1, <2>2, ZenonT(60) DEF Proof
<1>3. call' = [call EXCEPT ![c] = Answered("save", NewToken, p)]
  BY <1>1, <1>2 DEF Pending
<1>4. Sound(account, p)
  BY <1>1, <1>2 DEF SoundCall, SoundAim, Sound, HasFactor, Factored
<1>5. AccountsStand
  BY AccountsUnchanged DEF Pending, tables
<1> QED
  BY <1>3, <1>4, <1>5, AnsweredStands

LEMMA LoginModeStands ==
    ASSUME AccountsSound, NEW c \in Call, SoundCall(account, call[c]), LoginMode(c) \/ RecoveryMode(c)
    PROVE  CallStands(c)
<1>1. CASE LoginMode(c)
  <2>1. PICK mode \in {"verify", "enroll"} :
          Pending(c, mode) /\ (mode = "enroll" => ~HasFactor(call[c].subject))
    BY <1>1 DEF LoginMode
  <2> QED
    BY <1>1, <2>1, PendingStands DEF LoginMode, At
<1>2. CASE RecoveryMode(c)
  BY <1>2, PendingStands DEF RecoveryMode, At
<1> QED
  BY <1>1, <1>2

LEMMA SignedInStands ==
    ASSUME AccountsSound, NEW c \in Call, SoundCall(account, call[c]), SignedIn(c)
    PROVE  CallStands(c)
<1> DEFINE u == call[c].subject
<1>1. PICK h \in Handler : h = call[c] /\ h.copy \in Proof
  BY CallTypes DEF AccountsSound, Handler
<1>2. PICK pw \in 0..MaxGen, key \in Key \cup {NoKey} :
        /\ pw = IF h.op = "passkey-finish" THEN 0 ELSE h.copy.password
        /\ key = IF h.op = "passkey-finish" THEN h.key ELSE h.copy.key
  BY <1>1, BoundAssumption DEF Handler, Proof
<1>3. PICK p \in Proof :
        /\ p = [h.copy EXCEPT !.mode = "full", !.who = h.subject, !.gen = h.next,
                              !.password = pw, !.key = key]
        /\ p.mode = "full" /\ p.who = h.subject /\ p.gen = h.next /\ p.password = pw /\ p.key = key
  <2>1. /\ h.subject \in User \cup {NoUser} /\ h.next \in 0..MaxGen
    BY DEF Handler
  <2>2. [h.copy EXCEPT !.mode = "full", !.who = h.subject, !.gen = h.next,
                       !.password = pw, !.key = key] \in Proof
    BY <1>1, <2>1, ZenonT(60) DEF Proof
  <2> QED
    BY <1>1, <2>2, ZenonT(60) DEF Proof
<1>4. call' = [call EXCEPT ![c] = Answered(Answer(h.op), NewToken, p)]
  BY <1>1, <1>2, <1>3 DEF SignedIn
<1>5. /\ h.at = "sign" /\ Counts(account, u, h.next) /\ SoundCall(account, h) /\ h.subject = u
  BY <1>1 DEF SignedIn, Valid, Counts, Exists
<1>6. Sound(account, p)
  BY <1>2, <1>3, <1>5 DEF SoundCall, SoundAim, Sound, Counts
<1>7. AccountsStand
  BY AccountsUnchanged DEF SignedIn, tables
<1>8. Answer(h.op) \in {"save", "page"}
  BY <1>1, Held DEF AccountsSound
<1> QED
  BY <1>4, <1>6, <1>7, <1>8, AnsweredStands

(* What a session says of the account does not depend on its challenges. *)
SaysTheSame(p, q) ==
    /\ q \in Proof /\ q.mode = p.mode /\ q.who = p.who /\ q.gen = p.gen
    /\ q.password = p.password /\ q.key = p.key

LEMMA Rechallenged ==
    ASSUME NEW p \in Proof, NEW purpose \in Purpose, NEW h \in Challenge \cup {NoChallenge}
    PROVE  SaysTheSame(p, [p EXCEPT !.challenge[purpose] = h])
<1>1. p.challenge \in [Purpose -> Challenge \cup {NoChallenge}]
  BY DEF Proof
<1> DEFINE f == [p.challenge EXCEPT ![purpose] = h]
           q == [p EXCEPT !.challenge = f]
<1>2. f \in [Purpose -> Challenge \cup {NoChallenge}]
  BY <1>1
<1>3. q = [p EXCEPT !.challenge[purpose] = h]
  OBVIOUS
<1> HIDE DEF f
<1>4. q \in Proof
  BY <1>2 DEF Proof
<1>5. q.mode = p.mode /\ q.who = p.who /\ q.gen = p.gen /\ q.password = p.password /\ q.key = p.key
  BY DEF Proof
<1> HIDE DEF q
<1> QED
  BY <1>3, <1>4, <1>5 DEF SaysTheSame

LEMMA SoundTheSame ==
    ASSUME NEW a, NEW p, NEW q, SaysTheSame(p, q), Sound(a, p) PROVE Sound(a, q)
  BY DEF SaysTheSame, Sound

LEMMA Purposes == \A op : PurposeOf(op) \in Purpose
  BY DEF PurposeOf, Purpose

LEMMA IssueStands ==
    ASSUME AccountsSound, NEW c \in Call, SoundCall(account, call[c]), Issue(c)
    PROVE  CallStands(c)
<1>1. PICK h \in Challenge :
        call' = [call EXCEPT ![c] = Answered(Answer(call[c].op), call[c].token,
                                        [call[c].copy EXCEPT !.challenge[PurposeOf(call[c].op)] = h])]
  BY DEF Issue, UnusedChallenge
<1>2. PICK q \in Proof : /\ q = [call[c].copy EXCEPT !.challenge[PurposeOf(call[c].op)] = h]
                         /\ Sound(account, q)
  <2>1. call[c].copy \in Proof /\ Sound(account, call[c].copy)
    BY Held DEF AccountsSound
  <2> DEFINE q == [call[c].copy EXCEPT !.challenge[PurposeOf(call[c].op)] = h]
  <2>2. SaysTheSame(call[c].copy, q)
    BY <2>1, Purposes, Rechallenged, Zenon
  <2> HIDE DEF q
  <2>3. q \in Proof /\ Sound(account, q)
    BY <2>1, <2>2, SoundTheSame DEF SaysTheSame
  <2> QED
    BY <2>3 DEF q
<1>3. AccountsStand
  BY AccountsUnchanged DEF Issue
<1> QED
  BY <1>1, <1>2, <1>3, Held, AnsweredStands DEF AccountsSound

LEMMA PoppedCopy ==
    ASSUME TypeOK, NEW c \in Call, SoundCall(account, call[c])
    PROVE  /\ Popped(c).copy \in Proof /\ Sound(account, Popped(c).copy)
           /\ Popped(c).copy.who = call[c].copy.who /\ Popped(c).copy.gen = call[c].copy.gen
           /\ Popped(c).copy.mode = call[c].copy.mode
           /\ Popped(c) = [call[c] EXCEPT !.copy = Popped(c).copy]
<1> DEFINE q == [call[c].copy EXCEPT !.challenge[PurposeOf(call[c].op)] = NoChallenge]
<1>1. call[c] \in Handler /\ call[c].copy \in Proof /\ Sound(account, call[c].copy)
  BY Held
<1>2. SaysTheSame(call[c].copy, q)
  <2>1. NoChallenge \in Challenge \cup {NoChallenge}
    OBVIOUS
  <2> QED
    BY <1>1, <2>1, Purposes, Rechallenged, Zenon
<1>3. Popped(c) = [call[c] EXCEPT !.copy = q]
  BY DEF Popped
<1> HIDE DEF q
<1>4. Sound(account, q)
  BY <1>1, <1>2, SoundTheSame
<1>5. Popped(c).copy = q
  BY <1>1, <1>3 DEF Handler
<1> QED
  BY <1>2, <1>3, <1>4, <1>5 DEF SaysTheSame

LEMMA TakeStands ==
    ASSUME AccountsSound, NEW c \in Call, SoundCall(account, call[c]), Take(c)
    PROVE  CallStands(c)
<1>1. PICK h \in Challenge, stage \in {"find", "enroll"} :
        /\ call' = [call EXCEPT ![c] = [Popped(c) EXCEPT !.taken = h, !.at = stage]]
        /\ stage = IF call[c].op = "passkey-finish" THEN "find" ELSE "enroll"
        /\ call[c].at = "take"
  BY Zenon DEF Take
<1>2. PICK q \in Proof :
        /\ q = Popped(c).copy /\ Sound(account, q) /\ q.who = call[c].copy.who
        /\ q.gen = call[c].copy.gen /\ q.mode = call[c].copy.mode
        /\ Popped(c) = [call[c] EXCEPT !.copy = q]
  BY PoppedCopy DEF AccountsSound
<1>3. PICK m \in Handler : m = call[c]
  BY Held DEF AccountsSound
<1>4. PICK k \in Handler :
        /\ k = [m EXCEPT !.copy = q, !.taken = h, !.at = stage]
        /\ k.op = m.op /\ k.user = m.user /\ k.gen = m.gen /\ k.at = stage
        /\ k.subject = m.subject /\ k.next = m.next /\ k.password = m.password /\ k.copy = q
  <2>1. [m EXCEPT !.copy = q, !.taken = h, !.at = stage] \in Handler
    BY DEF Handler, Stage
  <2> QED
    BY <2>1 DEF Handler
<1>5. call' = [call EXCEPT ![c] = k]
  BY <1>1, <1>2, <1>3, <1>4
<1>6. Shape(k)
  BY <1>1, <1>2, <1>3, <1>4 DEF SoundCall, Shape
<1>7. SoundAim(account, k)
  BY <1>1, <1>3, <1>4 DEF SoundCall, SoundAim
<1>8. SoundCall(account, k)
  BY <1>2, <1>3, <1>4, <1>6, <1>7 DEF SoundCall
<1> QED
  BY <1>5, <1>8, StillSound, AccountsUnchanged DEF Take

(* A request that arrives: it serves the account its session counts for, or none. *)
LEMMA BeginStands ==
    ASSUME AccountsSound, NEW c \in Call, NEW op \in AllOps \ LocalOps, NEW t \in Token \cup {NoToken},
           session \in [Token -> Proof], \A s \in Token : Sound(account, session[s]), Begin(c, op, t)
    PROVE  CallStands(c)
<1> DEFINE loaded == IF t = NoToken THEN Anonymous ELSE session[t]
           known == op \notin {"login", "recovery"} /\ ~Stale(loaded) /\ Valid(loaded.who, loaded.gen)
<1>1. PICK p \in Proof : p = loaded /\ Sound(account, p)
  BY Nobody
<1>2. PICK copy \in Proof, token \in Token \cup {NoToken, NewToken} :
        /\ copy = IF Stale(p) THEN Anonymous ELSE p
        /\ token = IF Stale(p) THEN NoToken ELSE t
  BY <1>1, Nobody
<1>3. Sound(account, copy)
  BY <1>1, <1>2, Nobody
<1>4. AccountsStand
  BY AccountsUnchanged DEF Begin, tables
<1>5. CASE op = "browse"
  <2>1. call' = [call EXCEPT ![c] = Answered("save", token, copy)]
    BY <1>1, <1>2, <1>5 DEF Begin
  <2> QED
    BY <1>3, <1>4, <2>1, AnsweredStands
<1>6. CASE op # "browse"
  <2>1. PICK user \in User \cup {NoUser}, gen \in 0..MaxGen :
          /\ user = IF known THEN p.who ELSE NoUser
          /\ gen = IF known THEN p.gen ELSE 0
    BY <1>1, BoundAssumption DEF Proof
  <2>2. PICK stage \in Stage : stage = Entry(op) /\ stage \notin {"again", "mode", "owner", "use", "sign", "write"}
    BY DEF Entry, Stage
  <2>3. PICK k \in Handler :
          /\ k = [Idle EXCEPT !.op = op, !.at = stage, !.copy = copy, !.token = token, !.user = user,
                              !.gen = gen, !.subject = user, !.next = gen]
          /\ k.op = op /\ k.at = stage /\ k.copy = copy /\ k.user = user /\ k.gen = gen
          /\ k.subject = user /\ k.next = gen /\ k.password = 0
    <3>1. Idle \in Handler /\ Idle.password = 0
      BY IdleIsSound DEF Idle
    <3>2. [Idle EXCEPT !.op = op, !.at = stage, !.copy = copy, !.token = token, !.user = user,
                       !.gen = gen, !.subject = user, !.next = gen] \in Handler
      BY <3>1, ZenonT(60) DEF Handler
    <3> QED
      BY <3>1, <3>2 DEF Handler
  <2>4. call' = [call EXCEPT ![c] = k]
    BY <1>1, <1>2, <1>6, <2>1, <2>2, <2>3 DEF Begin
  <2>5. /\ op \in OpenOps \/ known
        /\ Admits(op, copy)
    BY <1>1, <1>2 DEF Begin
  <2>6. /\ known => copy = p /\ user = p.who /\ gen = p.gen /\ user \in User /\ Counts(account, user, gen)
        /\ ~known => user = NoUser /\ gen = 0
        /\ known => op \notin {"login", "recovery"}
    BY <1>1, <1>2, <2>1, Zenon DEF Valid, Counts, Exists
  <2> HIDE DEF known, loaded
  <2>7. Shape(k)
    <3>1. op \notin OpenOps => known
      BY <2>5
    <3>2. /\ op \in FactorOps => copy.mode \in {"enroll", "full"}
          /\ op \in FullOps \cup AdminOps => copy.mode = "full"
      BY <2>5 DEF Admits, FactorOps, FullOps, AdminOps, OpenOps
    <3>3. user # NoUser => copy.who = user /\ copy.gen = gen
      BY <2>6
    <3> QED
      BY <2>2, <2>3, <2>6, <3>1, <3>2, <3>3, AbsenceAssumption DEF Shape
  <2>8. SoundAim(account, k)
    <3>1. CASE known
      BY <1>1, <2>2, <2>3, <2>6, <3>1 DEF SoundAim, Sound
    <3>2. CASE ~known
      BY <2>3, <2>6, <3>2, AbsenceAssumption DEF SoundAim
    <3> QED
      BY <3>1, <3>2
  <2>9. op \in AdminOps => account[k.user].role = "admin"
    BY <2>3, <2>5, <2>6 DEF Admits, AdminOps, OpenOps, FactorOps, FullOps
  <2>10. SoundCall(account, k)
    BY <1>3, <2>3, <2>7, <2>8, <2>9 DEF SoundCall
  <2> QED
    BY <1>4, <2>4, <2>10, StillSound
<1> QED
  BY <1>5, <1>6

(* The account a recovery code opens is not locked: a locked one has no codes. *)
LEMMA RecoveryCodeGoesOn ==
    ASSUME AccountsSound, NEW c \in Call, SoundCall(account, call[c]), RecoveryCode(c)
    PROVE  CallStands(c)
<1>1. PICK h \in Handler : h = call[c]
  BY CallTypes DEF AccountsSound
<1>2. PICK u \in User :
        /\ account[u].codes /\ CanChange(u)
        /\ account' = [account EXCEPT ![u] = WithoutFactors(account[u])]
        /\ call' = [call EXCEPT ![c].at = "again", ![c].subject = u,
                                ![c].next = account[u].gen + 1, ![c].password = 0]
  BY DEF RecoveryCode, ClearFactors
<1>3. account[u] \in Row /\ account[u].gen < MaxGen /\ account \in [User -> Row]
  BY <1>2, RowOf, AccountTypes DEF AccountsSound
<1>4. ~account[u].locked /\ account[u].role # "none"
  BY <1>2 DEF AccountsSound, SoundAccount, CanChange, Exists
<1>5. PICK w \in Row :
        /\ w = WithoutFactors(account[u]) /\ w.gen = account[u].gen + 1 /\ w.role # "none" /\ ~w.locked
        /\ w.totp = 0 /\ w.keys = {} /\ account[u].gen + 1 \in 1..MaxGen
  <2>1. /\ WithoutFactors(account[u]) \in Row /\ account[u].gen + 1 \in 1..MaxGen
        /\ WithoutFactors(account[u]) = [account[u] EXCEPT !.gen = account[u].gen + 1, !.totp = 0,
                                            !.last = 0, !.keys = {}, !.codes = FALSE]
    BY <1>3, NewRows, Zenon
  <2> QED
    BY <1>3, <1>4, <2>1, ZenonT(60) DEF Row
<1>6. account'[u] = w
  BY <1>2, <1>3, <1>5
<1>7. PICK n \in 0..MaxGen : n = w.gen /\ n <= w.gen
  BY <1>5
<1>8. PICK k \in Handler :
        /\ k = [h EXCEPT !.at = "again", !.subject = u, !.next = n, !.password = 0]
        /\ GoesOn(h, k, "again", u, n, 0, h.key)
  <2>1. 0 \in 0..MaxGen
    BY BoundAssumption
  <2>2. [h EXCEPT !.at = "again", !.subject = u, !.next = n, !.password = 0] \in Handler
    BY <2>1 DEF Handler, Stage
  <2> QED
    BY <2>2 DEF Handler, GoesOn
<1>9. call' = [call EXCEPT ![c] = k]
  BY <1>1, <1>2, <1>5, <1>7, <1>8
<1>10. h.op = "recovery" /\ SoundCall(account, h) /\ h.copy \in Proof
  BY <1>1, Held DEF RecoveryCode, At, AccountsSound
<1>11. Shape(k)
  BY <1>8, <1>10 DEF SoundCall, Shape, GoesOn, OpenOps, FactorOps, FullOps, AdminOps
<1>12. SoundAim(account', k)
  BY <1>5, <1>6, <1>7, <1>8, <1>10 DEF SoundAim, GoesOn, Factored
<1>13. Sound(account', k.copy)
  BY <1>3, <1>8, <1>10, SoundStays, RecoveryCodeStands DEF SoundCall, GoesOn, AccountsStand
<1>14. SoundCall(account', k)
  BY <1>8, <1>10, <1>11, <1>12, <1>13 DEF SoundCall, GoesOn, AdminOps
<1> QED
  BY <1>9, <1>14, Replaced DEF AccountsSound

LEMMA ChangePasswordGoesOn ==
    ASSUME AccountsSound, NEW c \in Call, SoundCall(account, call[c]), ChangePassword(c)
    PROVE  CallStands(c)
<1>1. /\ call' = [call EXCEPT ![c] = Answered("save", NoToken, Anonymous)]
      /\ NoToken \in Token \cup {NoToken, NewToken}
  BY DEF ChangePassword
<1> QED
  BY <1>1, ChangePasswordStands, Nobody, AnsweredStands

LEMMA AdministerGoesOn ==
    ASSUME AccountsSound, AccountsStand, NEW c \in Call, SoundCall(account, call[c]), Administer(c)
    PROVE  CallStands(c)
<1>1. PICK stage \in {"save", "page"} :
        call' = [call EXCEPT ![c] = Answered(stage, call[c].token, call[c].copy)]
  BY DEF Administer, SaveMember, IssueReset, IssueInvite, RevokeLink, FactorReset, Administers
<1> QED
  BY <1>1, Held, AnsweredStands DEF AccountsSound

LEMMA RenderedStands ==
    ASSUME AccountsSound, NEW c \in Call, SoundCall(account, call[c]), NEW p \in Proof, Sound(account, p),
           Rendered(c, p)
    PROVE  CallStands(c)
<1>1. PICK q \in Proof, token \in Token \cup {NoToken, NewToken} :
        /\ call' = [call EXCEPT ![c] = Answered("save", token, q)] /\ Sound(account, q)
  BY Nobody, Held DEF Rendered, AccountsSound
<1>2. AccountsStand
  BY AccountsUnchanged DEF Rendered, tables
<1> QED
  BY <1>1, <1>2, AnsweredStands

LEMMA EndsStand ==
    ASSUME AccountsSound, NEW c \in Call, SoundCall(account, call[c]), Fail(c) \/ Page(c) \/ Save(c)
    PROVE  CallStands(c)
<1>1. CASE Page(c)
  BY <1>1, Held, RenderedStands DEF Page, AccountsSound
<1>2. CASE Fail(c)
  <2>1. PICK p \in Proof :
          /\ p = IF call[c].at = "take" THEN Popped(c).copy ELSE call[c].copy
          /\ Sound(account, p)
    BY Held, PoppedCopy DEF AccountsSound
  <2>2. CASE Rendered(c, p)
    BY <2>1, <2>2, RenderedStands
  <2>3. CASE ~Rendered(c, p)
    <3>1. /\ call' = [call EXCEPT ![c] = Answered("save", call[c].token, p)]
          /\ UNCHANGED tables
      BY <1>2, <2>1, <2>3 DEF Fail
    <3>2. AccountsStand
      BY <3>1, AccountsUnchanged DEF tables
    <3> QED
      BY <2>1, <3>1, <3>2, Held, AnsweredStands DEF AccountsSound
  <2> QED
    BY <2>2, <2>3
<1>3. CASE Save(c)
  <2>1. call' = [call EXCEPT ![c] = Idle] /\ account' = account
    BY <1>3 DEF Save, tables
  <2> QED
    BY <2>1, IdleIsSound, Replaced DEF AccountsSound
<1> QED
  BY <1>1, <1>2, <1>3

Handles(c) ==
    Login(c) \/ Factor(c) \/ Change(c) \/ Administer(c) \/ Fail(c) \/ Page(c) \/ Save(c)

LEMMA HandlerStep ==
    ASSUME AccountsSound, AccountsStand, NEW c \in Call, SoundCall(account, call[c]), Handles(c)
    PROVE  CallStands(c)
<1>1. CASE Login(c)
  BY <1>1, LoginCompareStands, RecoveryCodeGoesOn, AgainStands, LoginModeStands DEF Login
<1>2. CASE Factor(c)
  BY <1>2, CheckTOTPGoesOn, SignedInStands, ResolveStands, IssueStands, TakeStands, FindKeyStands,
     KeyOwnerStands, UseKeyStands DEF Factor
<1>3. CASE Change(c)
  BY <1>3, EnrollTOTPStands, EnrollKeyStands, RemoveTOTPStands, RemoveKeyStands, NewCodesStands,
     PasswordCompareStands, ChangePasswordGoesOn DEF Change
<1>4. CASE Administer(c)
  BY <1>4, AdministerGoesOn
<1>5. CASE Fail(c) \/ Page(c) \/ Save(c)
  BY <1>5, EndsStand
<1> QED
  BY <1>1, <1>2, <1>3, <1>4, <1>5 DEF Handles

(* A step of the system is one of a handler, of a new one, or of none. *)
LEMMA Steps ==
    Next => \/ \E c \in Call : Handles(c)
            \/ \E c \in Call, op \in AllOps \ LocalOps, t \in Token \cup {NoToken} : Begin(c, op, t)
            \/ call' = call
            \/ Restart
<1>1. ASSUME NEW l \in Link, Redeem(l) PROVE call' = call
  BY <1>1 DEF Redeem
<1>2. ASSUME NEW u \in User, CreateAdmin(u) \/ \E reset \in BOOLEAN : Recover(u, reset) PROVE call' = call
  BY <1>2 DEF CreateAdmin, Recover
<1>3. ASSUME NEW t \in Token, Logout(t) PROVE call' = call
  BY <1>3 DEF Logout
<1> QED
  BY <1>1, <1>2, <1>3 DEF Next, Using, Handles

LEMMA CallStep ==
    ASSUME IInv, AccountsStand, Next
    PROVE  call' \in [Call -> Handler] /\ \A c \in Call : SoundCall(account', call'[c])
<1> AccountsSound
  BY DEF IInv, AccountsSound
<1>1. ASSUME NEW d \in Call PROVE SoundCall(account', call[d])
  BY SoundCallStays, AccountTypes, CallTypes DEF IInv, AccountsStand
<1>2. ASSUME NEW c \in Call, CallStands(c)
      PROVE  call' \in [Call -> Handler] /\ \A d \in Call : SoundCall(account', call'[d])
  BY <1>1, <1>2 DEF CallStands
<1>3. ASSUME NEW c \in Call, NEW op \in AllOps \ LocalOps, NEW t \in Token \cup {NoToken}, Begin(c, op, t)
      PROVE  CallStands(c)
  BY <1>3, BeginStands DEF IInv, TypeOK
<1>4. CASE call' = call
  BY <1>1, <1>4, CallTypes DEF AccountsSound
<1>5. CASE Restart
  BY <1>5, IdleIsSound DEF Restart
<1>6. ASSUME NEW c \in Call, Handles(c) PROVE CallStands(c)
  BY <1>6, HandlerStep DEF IInv
<1> QED
  BY <1>2, <1>3, <1>4, <1>5, <1>6, Steps

(* A stored session stays, is deleted, or becomes what a handler held. *)
SessionsFollow ==
    /\ session' \in [Token -> Proof]
    /\ \A t \in Token : \/ session'[t] \in {session[t], NoSession}
                        \/ \E c \in Call : session'[t] = call[c].copy

LEMMA Forgotten ==
    ASSUME TypeOK, NEW t, session' = Forget(t) \/ session' = session PROVE SessionsFollow
  BY Nobody DEF TypeOK, SessionsFollow, Forget

(* Sessions are written by Save alone. *)
Forgets == session' = session \/ \E t : session' = Forget(t)
LEMMA Unsaved == ASSUME Next, ~\E c \in Call : Save(c) PROVE Forgets
<1>1. ASSUME NEW c \in Call, Login(c) PROVE Forgets
  BY <1>1 DEF Login, LoginCompare, RecoveryCode, Again, LoginMode, RecoveryMode, Pending, Forgets
<1>2. ASSUME NEW c \in Call, Factor(c) PROVE Forgets
  BY <1>2, Zenon DEF Factor, CheckTOTP, SignedIn, Resolve, Issue, Take, FindKey, KeyOwner, UseKey, Forgets
<1>3. ASSUME NEW c \in Call, Change(c) PROVE Forgets
  BY <1>3, Zenon DEF Change, EnrollTOTP, EnrollKey, RemoveTOTP, RemoveKey, NewCodes, PasswordCompare,
              ChangePassword, Forgets
<1>4. ASSUME NEW c \in Call, Administer(c) PROVE Forgets
  BY <1>4 DEF Administer, SaveMember, IssueReset, IssueInvite, RevokeLink, FactorReset, Forgets
<1>5. ASSUME NEW c \in Call, Fail(c) \/ Page(c) PROVE Forgets
  BY <1>5 DEF Fail, Page, Rendered, Forgets
<1>6. ASSUME NEW c \in Call, NEW op, NEW t, Begin(c, op, t) PROVE Forgets
  BY <1>6 DEF Begin, Forgets
<1>7. ASSUME NEW t \in Token, Logout(t) PROVE Forgets
  BY <1>7 DEF Logout, Forgets
<1> QED
  BY <1>1, <1>2, <1>3, <1>4, <1>5, <1>6, <1>7
     DEF Next, Using, Redeem, CreateAdmin, Recover, Restart, Forgets

LEMMA SessionStep == ASSUME IInv, Next PROVE SessionsFollow
<1> TypeOK
  BY DEF IInv
<1>1. ASSUME NEW c \in Call, Save(c) PROVE SessionsFollow
  <2>1. PICK s \in Token : session' = [session EXCEPT ![s] = call[c].copy]
    BY <1>1 DEF Save, UnusedToken
  <2>2. call[c].copy \in Proof /\ session \in [Token -> Proof]
    BY Held DEF IInv, TypeOK
  <2> QED
    BY <2>1, <2>2 DEF SessionsFollow
<1> QED
  BY <1>1, Unsaved, Forgotten DEF Forgets

LEMMA SessionsStaySound ==
    ASSUME IInv, AccountsStand, SessionsFollow PROVE \A t \in Token : Sound(account', session'[t])
<1> SUFFICES ASSUME NEW t \in Token PROVE Sound(account', session'[t])
  OBVIOUS
<1>1. session'[t] \in Proof /\ Sound(account, session'[t])
  BY Nobody DEF SessionsFollow, IInv, SoundCall
<1> QED
  BY <1>1, SoundStays, AccountTypes DEF IInv, AccountsStand

-----------------------------------------------------------------------------
(* The links. *)
LinkRow == [user : User \cup {NoUser}, gen : {0}, kind : {"none", "invite", "reset", "factor"}]

LEMMA Consumed ==
    ASSUME link \in [Link -> LinkRow] PROVE \A links : Consume(links) \in [Link -> LinkRow]
<1>1. NoRow \in LinkRow
  BY DEF NoRow, LinkRow
<1> QED
  BY <1>1 DEF Consume

LEMMA LinkStep == ASSUME TypeOK, Next PROVE link' \in [Link -> LinkRow]
<1>1. link \in [Link -> LinkRow]
  BY DEF TypeOK, LinkRow
<1>2. \A links : Consume(links) \in [Link -> LinkRow]
  BY <1>1, Consumed
<1>3. ASSUME NEW l \in Link, NEW u \in User, NEW kind \in {"invite", "reset", "factor"}, NEW links,
             link' = [Consume(links) EXCEPT ![l] = [user |-> u, kind |-> kind, gen |-> 0]]
      PROVE  link' \in [Link -> LinkRow]
  <2>1. [user |-> u, kind |-> kind, gen |-> 0] \in LinkRow
    BY DEF LinkRow
  <2> QED
    BY <1>2, <1>3, <2>1
<1>4. ASSUME link' = link \/ \E links : link' = Consume(links) PROVE link' \in [Link -> LinkRow]
  BY <1>1, <1>2, <1>4
<1>5. ASSUME NEW c \in Call, Login(c) \/ Factor(c) PROVE link' = link \/ \E links : link' = Consume(links)
  BY <1>5, Zenon DEF Login, LoginCompare, RecoveryCode, Again, LoginMode, RecoveryMode, Pending, tables,
              Factor, CheckTOTP, SignedIn, Resolve, Issue, Take, FindKey, KeyOwner, UseKey
<1>6. ASSUME NEW c \in Call, Change(c) PROVE link' = link \/ \E links : link' = Consume(links)
  BY <1>6, Zenon DEF Change, EnrollTOTP, EnrollKey, RemoveTOTP, RemoveKey, NewCodes, PasswordCompare,
              ChangePassword, tables
<1>7. ASSUME NEW c \in Call, Administer(c) PROVE link' \in [Link -> LinkRow]
  <2>1. CASE SaveMember(c) \/ RevokeLink(c)
    BY <1>4, <2>1, Zenon DEF SaveMember, RevokeLink
  <2>2. CASE IssueReset(c) \/ IssueInvite(c)
    <3>1. PICK u \in User, kind \in {"invite", "reset"} : NewLink(u, kind)
      BY <2>2 DEF IssueReset, IssueInvite
    <3> QED
      BY <1>3, <3>1 DEF NewLink
  <2>3. CASE FactorReset(c)
    <3>1. PICK u \in User, l \in Link :
            link' = [Consume(LinksOf(u)) EXCEPT ![l] = [user |-> u, kind |-> "factor", gen |-> 0]]
      BY <2>3 DEF FactorReset
    <3> QED
      BY <1>3, <3>1
  <2> QED
    BY <1>7, <2>1, <2>2, <2>3 DEF Administer
<1>8. ASSUME NEW c \in Call, Fail(c) \/ Page(c) \/ Save(c) PROVE link' = link
  BY <1>8 DEF Fail, Page, Save, Rendered, tables
<1>9. ASSUME NEW c \in Call, NEW op, NEW t, Begin(c, op, t) PROVE link' = link
  BY <1>9 DEF Begin, tables
<1>10. ASSUME \/ \E l \in Link : Redeem(l)
              \/ \E u \in User : CreateAdmin(u) \/ \E reset \in BOOLEAN : Recover(u, reset)
              \/ Restart \/ \E t \in Token : Logout(t)
       PROVE  link' = link \/ \E links : link' = Consume(links)
  BY <1>10 DEF Redeem, CreateAdmin, Recover, Restart, Logout, tables
<1> QED
  BY <1>4, <1>5, <1>6, <1>7, <1>8, <1>9, <1>10 DEF Next, Using

(* The challenges.  A handler gets one by taking its row, which no other can
   have; a row gets a challenge that nobody holds. *)
ChallengeRow == [user : User \cup {NoUser}, gen : 0..MaxGen, kind : Purpose \cup {"none"}]
Kept(c) == call'[c].taken \in {call[c].taken, NoChallenge}
Gone == /\ challenge' \in [Challenge -> ChallengeRow]
        /\ \A h \in Challenge : challenge'[h].kind \in {challenge[h].kind, "none"}

LEMMA Forsaken == ASSUME TypeOK, NEW u, challenge' = challenge \/ challenge' = WithoutChallengesOf(u)
                  PROVE  Gone
<1>1. NoRow \in ChallengeRow /\ NoRow.kind = "none"
  BY BoundAssumption DEF NoRow, ChallengeRow
<1>2. challenge \in [Challenge -> ChallengeRow]
  BY DEF TypeOK, ChallengeRow
<1> QED
  BY <1>1, <1>2 DEF Gone, WithoutChallengesOf

LEMMA ChallengeRows ==
    ASSUME TypeOK, Next,
           \A c \in Call : ~Issue(c) /\ ~Take(c)
    PROVE  Gone
<1>1. ASSUME NEW c \in Call, Login(c) PROVE \E u : challenge' = challenge \/ challenge' = WithoutChallengesOf(u)
  BY <1>1 DEF Login, LoginCompare, RecoveryCode, Again, LoginMode, RecoveryMode, Pending, tables, ClearFactors
<1>2. ASSUME NEW c \in Call, Factor(c) PROVE challenge' = challenge
  BY <1>2 DEF Factor, CheckTOTP, SignedIn, Resolve, FindKey, KeyOwner, UseKey, tables
<1>3. ASSUME NEW c \in Call, Change(c) PROVE challenge' = challenge
  BY <1>3, Zenon DEF Change, EnrollTOTP, EnrollKey, RemoveTOTP, RemoveKey, NewCodes, PasswordCompare,
              ChangePassword, tables
<1>4. ASSUME NEW c \in Call, Administer(c)
      PROVE  \E u : challenge' = challenge \/ challenge' = WithoutChallengesOf(u)
  BY <1>4 DEF Administer, SaveMember, IssueReset, IssueInvite, RevokeLink, FactorReset
<1>5. ASSUME NEW c \in Call, Fail(c) \/ Page(c) \/ Save(c) PROVE challenge' = challenge
  BY <1>5 DEF Fail, Page, Save, Rendered, tables
<1>6. ASSUME NEW c \in Call, NEW op, NEW t, Begin(c, op, t) PROVE challenge' = challenge
  BY <1>6 DEF Begin, tables
<1>7. ASSUME \/ \E l \in Link : Redeem(l)
             \/ \E u \in User : CreateAdmin(u) \/ \E reset \in BOOLEAN : Recover(u, reset)
             \/ Restart \/ \E t \in Token : Logout(t)
      PROVE  \E u : challenge' = challenge \/ challenge' = WithoutChallengesOf(u)
  BY <1>7 DEF Redeem, CreateAdmin, Recover, Restart, Logout, tables
<1> QED
  BY <1>1, <1>2, <1>3, <1>4, <1>5, <1>6, <1>7, Forsaken DEF Next, Using

LEMMA AnswerTakesNothing == \A stage, token, p : Answered(stage, token, p).taken = NoChallenge
  BY DEF Answered, Idle

LEMMA AnsweredKeeps ==
    ASSUME TypeOK, NEW c \in Call, NEW stage, NEW token, NEW p,
           call' = [call EXCEPT ![c] = Answered(stage, token, p)]
    PROVE  \A d \in Call : Kept(d)
  BY AnswerTakesNothing, CallTypes DEF Kept

LEMMA GotoKeeps == ASSUME TypeOK, NEW c \in Call, NEW stage, Goto(c, stage) PROVE \A d \in Call : Kept(d)
<1>1. call[c] \in Handler
  BY CallTypes
<1>2. [call[c] EXCEPT !.at = stage].taken = call[c].taken
  BY <1>1 DEF Handler
<1> QED
  BY <1>2, CallTypes DEF Goto, Kept

LEMMA Takings ==
    ASSUME TypeOK, NEW c \in Call, Handles(c), ~Take(c) PROVE \A d \in Call : Kept(d)
<1> USE AnsweredKeeps, GotoKeeps
<1>1. PICK h \in Handler : h = call[c] /\ call \in [Call -> Handler]
  BY CallTypes
<1>2. CASE Login(c)
  <2>1. CASE LoginCompare(c) \/ RecoveryCode(c)
    <3>1. \E u, n, w : call' = [call EXCEPT ![c].at = "again", ![c].subject = u, ![c].next = n, ![c].password = w]
      BY <2>1 DEF LoginCompare, RecoveryCode
    <3>2. \A u, n, w : [h EXCEPT !.at = "again", !.subject = u, !.next = n, !.password = w].taken = h.taken
      BY DEF Handler
    <3> QED
      BY <1>1, <3>1, <3>2 DEF Kept
  <2>2. CASE Again(c)
    BY <2>2 DEF Again
  <2>3. CASE LoginMode(c) \/ RecoveryMode(c)
    BY <2>3 DEF LoginMode, RecoveryMode, Pending
  <2> QED
    BY <1>2, <2>1, <2>2, <2>3 DEF Login
<1>3. CASE Factor(c)
  <2>1. CASE CheckTOTP(c) \/ Resolve(c) \/ UseKey(c)
    BY <2>1 DEF CheckTOTP, Resolve, UseKey
  <2>2. CASE SignedIn(c) \/ Issue(c)
    BY <2>2 DEF SignedIn, Issue
  <2>3. CASE FindKey(c)
    <3>1. \E u, k : call' = [call EXCEPT ![c].at = "owner", ![c].subject = u, ![c].key = k]
      BY <2>3 DEF FindKey
    <3>2. \A u, k : [h EXCEPT !.at = "owner", !.subject = u, !.key = k].taken = h.taken
      BY DEF Handler
    <3> QED
      BY <1>1, <3>1, <3>2 DEF Kept
  <2>4. CASE KeyOwner(c)
    <3>1. \E n : call' = [call EXCEPT ![c].at = "use", ![c].next = n]
      BY <2>4 DEF KeyOwner
    <3>2. \A n : [h EXCEPT !.at = "use", !.next = n].taken = h.taken
      BY DEF Handler
    <3> QED
      BY <1>1, <3>1, <3>2 DEF Kept
  <2> QED
    BY <1>3, <2>1, <2>2, <2>3, <2>4 DEF Factor
<1>4. CASE Change(c)
  <2>1. \A n : [h EXCEPT !.next = n, !.at = "sign"].taken = h.taken
    BY DEF Handler
  <2>2. ASSUME NEW r, Own(c, r) PROVE \A d \in Call : Kept(d)
    BY <1>1, <2>1, <2>2 DEF Own, Kept
  <2>3. CASE EnrollTOTP(c) \/ EnrollKey(c) \/ RemoveTOTP(c) \/ NewCodes(c)
    BY <2>2, <2>3, Zenon DEF EnrollTOTP, EnrollKey, RemoveTOTP, NewCodes
  <2>4. CASE RemoveKey(c)
    <3> DEFINE n == account[call[c].user].gen + 1
    <3>1. PICK key : call' = [call EXCEPT ![c].next = n, ![c].at = "sign",
                                ![c].copy.key = IF @ = key THEN NoKey ELSE @]
      <4>1. PICK key \in account[call[c].user].keys :
              call' = [call EXCEPT ![c].next = n, ![c].at = "sign",
                                   ![c].copy.key = IF @ = key THEN NoKey ELSE @]
        BY <2>4, Zenon DEF RemoveKey
      <4> HIDE DEF n
      <4> QED
        BY <4>1
    <3> HIDE DEF n
    <3>2. [h EXCEPT !.next = n, !.at = "sign", !.copy.key = IF @ = key THEN NoKey ELSE @].taken = h.taken
      BY DEF Handler
    <3> QED
      BY <1>1, <3>1, <3>2 DEF Kept
  <2>5. CASE PasswordCompare(c) \/ ChangePassword(c)
    BY <2>5 DEF PasswordCompare, ChangePassword
  <2> QED
    BY <1>4, <2>3, <2>4, <2>5 DEF Change
<1>5. CASE Administer(c)
  <2>1. \E stage \in {"save", "page"} : call' = [call EXCEPT ![c] = Answered(stage, call[c].token, call[c].copy)]
    BY <1>5 DEF Administer, SaveMember, IssueReset, IssueInvite, RevokeLink, FactorReset, Administers
  <2> QED
    BY <2>1
<1>6. CASE Fail(c) \/ Page(c)
  BY <1>6 DEF Fail, Page, Rendered
<1>7. CASE Save(c)
  BY <1>1, <1>7 DEF Save, Kept, Idle
<1> QED
  BY <1>2, <1>3, <1>4, <1>5, <1>6, <1>7 DEF Handles

LEMMA TakingStep ==
    ASSUME TypeOK, Next, \A c \in Call : ~Take(c) PROVE \A d \in Call : Kept(d)
<1>1. CASE call' = call
  BY <1>1 DEF Kept
<1>2. CASE Restart
  BY <1>2 DEF Restart, Kept, Idle
<1>3. ASSUME NEW c \in Call, NEW op \in AllOps \ LocalOps, NEW t \in Token \cup {NoToken}, Begin(c, op, t)
      PROVE  \A d \in Call : Kept(d)
  <2>1. CASE op = "browse"
    <3>1. \E token, copy : call' = [call EXCEPT ![c] = Answered("save", token, copy)]
      BY <1>3, <2>1 DEF Begin
    <3> QED
      BY <3>1, AnsweredKeeps
  <2>2. CASE op # "browse"
    <3>1. PICK stage, copy, token, user, gen :
            call' = [call EXCEPT ![c] = [Idle EXCEPT !.op = op, !.at = stage, !.copy = copy,
                        !.token = token, !.user = user, !.gen = gen, !.subject = user, !.next = gen]]
      BY <1>3, <2>2, ZenonT(60) DEF Begin
    <3> DEFINE k == [Idle EXCEPT !.op = op, !.at = stage, !.copy = copy, !.token = token,
                                 !.user = user, !.gen = gen, !.subject = user, !.next = gen]
    <3>2. k.taken = NoChallenge
      BY DEF Idle
    <3>3. call' = [call EXCEPT ![c] = k]
      BY <3>1
    <3> HIDE DEF k
    <3> QED
      BY <3>2, <3>3, CallTypes DEF Kept
  <2> QED
    BY <2>1, <2>2
<1>4. ASSUME NEW c \in Call, Handles(c) PROVE \A d \in Call : Kept(d)
  BY <1>4, Takings
<1> QED
  BY <1>1, <1>2, <1>3, <1>4, Steps

LEMMA IssueSpends ==
    ASSUME TypeOK, ChallengesAreSpent, NEW c \in Call, Issue(c)
    PROVE  challenge' \in [Challenge -> ChallengeRow] /\ ChallengesAreSpent'
<1> DEFINE old == call[c].copy.challenge[PurposeOf(call[c].op)]
<1>1. PICK h \in UnusedChallenge, expired \in SUBSET Challenge :
        challenge' = [g \in Challenge |->
            IF g = h THEN [user |-> call[c].user, kind |-> PurposeOf(call[c].op), gen |-> call[c].gen]
            ELSE IF g \in expired \cup {old} THEN NoRow ELSE challenge[g]]
  BY DEF Issue
<1>2. \A d \in Call : Kept(d)
  <2>1. ~Take(c)
    BY DEF Issue, Take
  <2> QED
    BY <2>1, Takings DEF Handles, Factor
<1>3. challenge' \in [Challenge -> ChallengeRow]
  <2>1. [user |-> call[c].user, kind |-> PurposeOf(call[c].op), gen |-> call[c].gen] \in ChallengeRow
    BY CallTypes, Purposes DEF Handler, ChallengeRow
  <2>2. NoRow \in ChallengeRow /\ challenge \in [Challenge -> ChallengeRow]
    BY BoundAssumption DEF NoRow, ChallengeRow, TypeOK
  <2> QED
    BY <1>1, <2>1, <2>2
<1>4. \A d \in Call : call[d].taken # h /\ call[d].taken \in Challenge \cup {NoChallenge}
  BY CallTypes DEF UnusedChallenge, Handler
<1>5. \A g \in Challenge \ {h} : challenge'[g].kind \in {challenge[g].kind, "none"}
  BY <1>1 DEF NoRow
<1> QED
  BY <1>2, <1>3, <1>4, <1>5, AbsenceAssumption DEF ChallengesAreSpent, Kept

LEMMA TakeSpends ==
    ASSUME TypeOK, ChallengesAreSpent, NEW c \in Call, Take(c)
    PROVE  challenge' \in [Challenge -> ChallengeRow] /\ ChallengesAreSpent'
<1>1. PICK h \in Challenge :
        /\ challenge[h].kind = PurposeOf(call[c].op) /\ challenge' = [challenge EXCEPT ![h] = NoRow]
        /\ \E stage : call' = [call EXCEPT ![c] = [Popped(c) EXCEPT !.taken = h, !.at = stage]]
  BY Zenon DEF Take
<1>2. challenge \in [Challenge -> ChallengeRow] /\ NoRow \in ChallengeRow /\ NoRow.kind = "none"
  BY BoundAssumption DEF NoRow, ChallengeRow, TypeOK
<1>3. challenge[h].kind # "none"
  BY <1>1, Purposes DEF Purpose
<1>4. \A d \in Call : call[d].taken # h
  BY <1>3, AbsenceAssumption DEF ChallengesAreSpent
<1>5. call'[c].taken = h /\ \A d \in Call \ {c} : call'[d] = call[d]
  <2>1. PICK m \in Handler : m = call[c]
    BY CallTypes
  <2>2. PICK stage : call' = [call EXCEPT ![c] = [Popped(c) EXCEPT !.taken = h, !.at = stage]]
    BY <1>1
  <2>3. [Popped(c) EXCEPT !.taken = h, !.at = stage].taken = h
    BY <2>1 DEF Popped, Handler
  <2> QED
    BY <2>2, <2>3, CallTypes
<1>6. \A d \in Call : call[d].taken \in Challenge \cup {NoChallenge}
  BY CallTypes DEF Handler
<1> QED
  BY <1>1, <1>2, <1>4, <1>5, <1>6 DEF ChallengesAreSpent

LEMMA ChallengeStep ==
    ASSUME TypeOK, ChallengesAreSpent, Next
    PROVE  challenge' \in [Challenge -> ChallengeRow] /\ ChallengesAreSpent'
<1>1. CASE \E c \in Call : Issue(c) \/ Take(c)
  BY <1>1, IssueSpends, TakeSpends
<1>2. CASE \A c \in Call : ~Issue(c) /\ ~Take(c)
  <2>1. Gone /\ \A d \in Call : Kept(d)
    BY <1>2, ChallengeRows, TakingStep
  <2>2. \A d \in Call : call[d].taken \in Challenge \cup {NoChallenge}
    BY CallTypes DEF Handler
  <2> QED
    BY <2>1, <2>2 DEF ChallengesAreSpent, Gone, Kept
<1> QED
  BY <1>1, <1>2

-----------------------------------------------------------------------------
(* The accepted codes.  A new secret has none; otherwise no account's last step
   goes back. *)
SpentOK == accepted' \in [User -> [Step -> 0..2]] /\ SpentIsPast'
LastKept == accepted' = accepted /\ \A u \in User : account'[u].last = account[u].last

LEMMA SpentKept == ASSUME TypeOK, SpentIsPast, LastKept PROVE SpentOK
  BY DEF SpentOK, SpentIsPast, LastKept, TypeOK

LEMMA SpentCleared ==
    ASSUME TypeOK, SpentIsPast, NEW u \in User, NEW r, account' = [account EXCEPT ![u] = r],
           accepted' = NewSecret(u)
    PROVE  SpentOK
<1>1. account \in [User -> Row] /\ accepted \in [User -> [Step -> 0..2]]
  BY AccountTypes DEF TypeOK
<1>2. accepted' \in [User -> [Step -> 0..2]]
  BY <1>1 DEF NewSecret
<1>3. SpentIsPast'
  BY <1>1 DEF SpentIsPast, NewSecret
<1> QED
  BY <1>2, <1>3 DEF SpentOK

LEMMA CheckTOTPSpends == ASSUME TypeOK, SpentIsPast, NEW c \in Call, CheckTOTP(c) PROVE SpentOK
<1>1. PICK u \in User, s \in Step :
        /\ Later(u, s) /\ account' = [account EXCEPT ![u].last = s] /\ accepted' = Accept(u, s)
  BY DEF CheckTOTP, Identity, Valid
<1>2. account \in [User -> Row] /\ accepted \in [User -> [Step -> 0..2]]
  BY AccountTypes DEF TypeOK
<1>3. account[u].last \in Nat /\ s \in Nat
  <2>1. account[u].last \in Step \cup {0}
    BY <1>2 DEF Row
  <2> QED
    BY <2>1, BoundAssumption
<1>4. accepted[u][s] = 0
  BY <1>1, <1>3 DEF SpentIsPast, Later
<1>5. accepted' = [accepted EXCEPT ![u][s] = 1]
  BY <1>1, <1>2, <1>4 DEF Accept
<1>6. account'[u].last = s /\ \A v \in User \ {u} : account'[v] = account[v]
  BY <1>1, <1>2 DEF Row
<1>7. accepted' \in [User -> [Step -> 0..2]]
  BY <1>2, <1>5
<1>8. ASSUME NEW v \in User, NEW t \in Step, accepted'[v][t] # 0
      PROVE  accepted'[v][t] = 1 /\ t <= account'[v].last
  <2>1. CASE v # u
    BY <1>2, <1>5, <1>6, <1>8, <2>1 DEF SpentIsPast
  <2>2. CASE v = u /\ t = s
    BY <1>2, <1>3, <1>5, <1>6, <2>2
  <2>3. CASE v = u /\ t # s
    <3>1. accepted[u][t] = 1 /\ t <= account[u].last /\ accepted'[v][t] = accepted[u][t]
      BY <1>2, <1>5, <1>8, <2>3 DEF SpentIsPast
    <3>2. t \in Nat
      BY BoundAssumption
    <3> QED
      BY <1>1, <1>3, <1>6, <2>3, <3>1, <3>2 DEF Later
  <2> QED
    BY <2>1, <2>2, <2>3
<1> QED
  BY <1>7, <1>8 DEF SpentOK, SpentIsPast

LEMMA EnrollTOTPSpends == ASSUME TypeOK, SpentIsPast, NEW c \in Call, EnrollTOTP(c) PROVE SpentOK
<1> DEFINE u == call[c].user
           gen == account[u].gen + 1
           b == Bumped(account[u])
<1>1. PICK s \in Step :
        /\ account' = [account EXCEPT ![u] = [b EXCEPT !.totp = gen, !.last = s, !.codes = TRUE]]
        /\ accepted' = [NewSecret(u) EXCEPT ![u][s] = 1]
        /\ u \in User
  BY DEF EnrollTOTP, Own, Identity, Valid
<1>2. account \in [User -> Row] /\ accepted \in [User -> [Step -> 0..2]] /\ s \in Nat
  BY AccountTypes, BoundAssumption DEF TypeOK
<1>3. [b EXCEPT !.totp = gen, !.last = s, !.codes = TRUE].last = s
  BY <1>1, <1>2 DEF Bumped, Row
<1> HIDE DEF b, gen, u
<1>4. account'[u].last = s /\ \A v \in User \ {u} : account'[v] = account[v]
  BY <1>1, <1>2, <1>3
<1>5. /\ accepted' \in [User -> [Step -> 0..2]]
      /\ \A t \in Step : accepted'[u][t] = IF t = s THEN 1 ELSE 0
      /\ \A v \in User \ {u} : accepted'[v] = accepted[v]
  BY <1>1, <1>2 DEF NewSecret
<1>6. SpentIsPast'
  BY <1>2, <1>4, <1>5 DEF SpentIsPast
<1> QED
  BY <1>5, <1>6 DEF SpentOK

LEMMA RowKeepsLast ==
    ASSUME TypeOK, NEW u \in User, NEW r, account' = [account EXCEPT ![u] = r],
           r.last = account[u].last, accepted' = accepted
    PROVE  LastKept
  BY AccountTypes DEF LastKept

LEMMA ChangeSpends == ASSUME TypeOK, SpentIsPast, NEW c \in Call, Change(c) PROVE SpentOK
<1> DEFINE u == call[c].user
<1>1. CASE EnrollTOTP(c)
  BY <1>1, EnrollTOTPSpends
<1>2. CASE RemoveTOTP(c)
  <2>1. u \in User
    BY <1>2 DEF RemoveTOTP, Identity, Valid
  <2> QED
    BY <1>2, <2>1, SpentCleared DEF RemoveTOTP, Own
<1>3. CASE EnrollKey(c) \/ RemoveKey(c) \/ NewCodes(c)
  <2>1. CanChange(u) /\ u \in User
    BY <1>3, Zenon DEF EnrollKey, RemoveKey, NewCodes, Identity, Valid
  <2>2. PICK b \in Row : b = Bumped(account[u]) /\ b.last = account[u].last
    BY <2>1, BumpedRow
  <2>3. \A ks, on : [b EXCEPT !.keys = ks, !.codes = on].last = b.last
    BY DEF Row
  <2>4. \A ks : [b EXCEPT !.keys = ks].last = b.last
    BY DEF Row
  <2>5. \A on : [b EXCEPT !.codes = on].last = b.last
    BY DEF Row
  <2>6. CASE EnrollKey(c)
    <3>1. PICK k : account' = [account EXCEPT ![u] = [b EXCEPT !.keys = b.keys \cup {k}, !.codes = TRUE]]
      BY <2>2, <2>6 DEF EnrollKey, Own
    <3> QED
      BY <2>1, <2>2, <2>3, <2>6, <3>1, RowKeepsLast, SpentKept DEF EnrollKey
  <2>7. CASE RemoveKey(c)
    <3>1. PICK k : account' = [account EXCEPT ![u] = [b EXCEPT !.keys = b.keys \ {k}]]
      BY <2>2, <2>7 DEF RemoveKey
    <3> QED
      BY <2>1, <2>2, <2>4, <2>7, <3>1, RowKeepsLast, SpentKept DEF RemoveKey
  <2>8. CASE NewCodes(c)
    <3>1. account' = [account EXCEPT ![u] = [b EXCEPT !.codes = TRUE]]
      BY <2>2, <2>8 DEF NewCodes, Own
    <3> QED
      BY <2>1, <2>2, <2>5, <2>8, <3>1, RowKeepsLast, SpentKept DEF NewCodes
  <2> QED
    BY <1>3, <2>6, <2>7, <2>8
<1>4. CASE PasswordCompare(c)
  BY <1>4, SpentKept DEF PasswordCompare, tables, LastKept
<1>5. CASE ChangePassword(c)
  <2>1. CanChange(u) /\ account' = [account EXCEPT ![u] = WithPassword(account[u])] /\ accepted' = accepted
    BY <1>5 DEF ChangePassword
  <2>2. CASE u \in User
    <3>1. WithPassword(account[u]).last = account[u].last
      BY <2>1, <2>2, RowOf, PasswordRow
    <3> QED
      BY <2>1, <2>2, <3>1, RowKeepsLast, SpentKept
  <2>3. CASE u \notin User
    <3>1. account' = account
      BY <2>1, <2>3, AccountTypes
    <3> QED
      BY <2>1, <3>1, SpentKept DEF LastKept
  <2> QED
    BY <2>2, <2>3
<1> QED
  BY <1>1, <1>2, <1>3, <1>4, <1>5 DEF Change

LEMMA AdministerSpends == ASSUME TypeOK, SpentIsPast, NEW c \in Call, Administer(c) PROVE SpentOK
<1>1. CASE SaveMember(c)
  <2>1. PICK u \in User, role \in {"member", "admin"}, on \in BOOLEAN :
          CanChange(u) /\ account' = [account EXCEPT ![u] = [Bumped(@) EXCEPT !.role = role, !.enabled = on]]
    BY <1>1 DEF SaveMember
  <2>2. PICK b \in Row : b = Bumped(account[u]) /\ b.last = account[u].last
    BY <2>1, BumpedRow
  <2>3. [b EXCEPT !.role = role, !.enabled = on].last = b.last
    BY DEF Row
  <2> QED
    BY <1>1, <2>1, <2>2, <2>3, RowKeepsLast, SpentKept DEF SaveMember
<1>2. CASE IssueReset(c) \/ IssueInvite(c) \/ RevokeLink(c)
  BY <1>2, SpentKept DEF IssueReset, IssueInvite, RevokeLink, LastKept
<1>3. CASE FactorReset(c)
  BY <1>3, SpentCleared DEF FactorReset
<1> QED
  BY <1>1, <1>2, <1>3 DEF Administer

LEMMA OutsideSpends ==
    ASSUME TypeOK, SpentIsPast,
           \/ \E l \in Link : Redeem(l)
           \/ \E u \in User : CreateAdmin(u) \/ \E reset \in BOOLEAN : Recover(u, reset)
    PROVE  SpentOK
<1>1. ASSUME NEW u \in User, NEW role, account' = [account EXCEPT ![u].role = role], accepted' = accepted
      PROVE  SpentOK
  <2>1. account[u] \in Row
    BY AccountTypes
  <2>2. [account[u] EXCEPT !.role = role].last = account[u].last
    BY <2>1 DEF Row
  <2> QED
    BY <1>1, <2>2, RowKeepsLast, SpentKept
<1>2. ASSUME NEW u \in User, CreateAdmin(u) PROVE SpentOK
  BY <1>1, <1>2 DEF CreateAdmin
<1>3. ASSUME NEW l \in Link, Redeem(l) PROVE SpentOK
  <2> DEFINE u == link[l].user
  <2>1. CASE u \notin User
    <3>1. account' = account
      BY <1>3, <2>1, AccountTypes DEF Redeem
    <3> QED
      BY <1>3, <3>1, SpentKept DEF Redeem, LastKept
  <2>2. CASE u \in User /\ link[l].kind = "invite"
    BY <1>1, <1>3, <2>2 DEF Redeem
  <2>3. CASE u \in User /\ link[l].kind # "invite"
    <3>1. /\ CanChange(u)
          /\ account' = [account EXCEPT ![u] = [WithPassword(account[u]) EXCEPT
                             !.locked = @ /\ link[l].kind # "factor"]]
      BY <1>3, <2>3 DEF Redeem
    <3>2. PICK b \in Row : b = WithPassword(account[u]) /\ b.last = account[u].last
      BY <2>3, <3>1, RowOf, PasswordRow
    <3>3. \A on : [b EXCEPT !.locked = on].last = b.last
      BY DEF Row
    <3>4. account' = [account EXCEPT ![u] = [b EXCEPT !.locked = @ /\ link[l].kind # "factor"]]
      BY <3>1, <3>2
    <3> HIDE DEF u
    <3> QED
      BY <1>3, <2>3, <3>2, <3>3, <3>4, RowKeepsLast, SpentKept DEF Redeem
  <2> QED
    BY <2>1, <2>2, <2>3
<1>4. ASSUME NEW u \in User, NEW reset \in BOOLEAN, Recover(u, reset) PROVE SpentOK
  <2>1. CASE reset
    BY <1>4, <2>1, SpentCleared DEF Recover
  <2>2. CASE ~reset
    <3>1. /\ account' = [account EXCEPT ![u] = [WithPassword(account[u]) EXCEPT !.enabled = TRUE]]
          /\ accepted' = accepted
      BY <1>4, <2>2 DEF Recover
    <3>2. account[u] \in Row /\ account[u].gen < MaxGen
      <4>1. account[u] \in Row /\ account[u].gen \in Nat
        BY AccountTypes DEF Row
      <4> QED
        BY <1>4, <2>2, <4>1 DEF Recover
    <3>3. PICK b \in Row : b = WithPassword(account[u]) /\ b.last = account[u].last
      BY <3>2, PasswordRow
    <3>4. [b EXCEPT !.enabled = TRUE].last = b.last
      BY DEF Row
    <3> QED
      BY <3>1, <3>3, <3>4, RowKeepsLast, SpentKept
  <2> QED
    BY <2>1, <2>2
<1> QED
  BY <1>2, <1>3, <1>4

LEMMA SpentStep == ASSUME TypeOK, SpentIsPast, Next PROVE SpentOK
<1>1. ASSUME NEW c \in Call, Login(c) PROVE SpentOK
  <2>1. CASE RecoveryCode(c)
    BY <2>1, SpentCleared DEF RecoveryCode, ClearFactors
  <2> QED
    BY <1>1, <2>1, SpentKept
       DEF Login, LoginCompare, Again, LoginMode, RecoveryMode, Pending, tables, LastKept
<1>2. ASSUME NEW c \in Call, Factor(c) PROVE SpentOK
  BY <1>2, CheckTOTPSpends, SpentKept, Zenon
     DEF Factor, SignedIn, Resolve, Issue, Take, FindKey, KeyOwner, UseKey, tables, LastKept
<1>3. ASSUME NEW c \in Call, Fail(c) \/ Page(c) \/ Save(c) PROVE SpentOK
  BY <1>3, SpentKept DEF Fail, Page, Save, Rendered, tables, LastKept
<1>4. ASSUME NEW c \in Call, NEW op, NEW t, Begin(c, op, t) PROVE SpentOK
  BY <1>4, SpentKept DEF Begin, tables, LastKept
<1>5. ASSUME Restart \/ \E t \in Token : Logout(t) PROVE SpentOK
  BY <1>5, SpentKept DEF Restart, Logout, tables, LastKept
<1> QED
  BY <1>1, <1>2, <1>3, <1>4, <1>5, ChangeSpends, AdministerSpends, OutsideSpends DEF Next, Using

-----------------------------------------------------------------------------
(* The invariant holds. *)
LEMMA Initially == Init => IInv
<1> SUFFICES ASSUME Init PROVE IInv
  OBVIOUS
<1>1. NoAccount \in Row /\ NoAccount.totp = 0 /\ NoAccount.keys = {} /\ NoAccount.codes = FALSE
  BY BoundAssumption DEF NoAccount, Row
<1>2. NoRow \in LinkRow /\ NoRow \in ChallengeRow
  BY BoundAssumption DEF NoRow, LinkRow, ChallengeRow
<1>3. TypeOK
  <2>1. account \in [User -> Row] /\ link \in [Link -> LinkRow] /\ challenge \in [Challenge -> ChallengeRow]
    BY <1>1, <1>2 DEF Init
  <2>2. session \in [Token -> Proof] /\ call \in [Call -> Handler]
    BY Nobody, IdleIsSound DEF Init
  <2>3. accepted \in [User -> [Step -> 0..2]]
    BY DEF Init
  <2> QED
    BY <2>1, <2>2, <2>3 DEF TypeOK, Row, LinkRow, ChallengeRow, Handler, Stage
<1>4. \A u \in User : SoundAccount(account, u)
  BY <1>1 DEF Init, SoundAccount, Factored
<1>5. (\A t \in Token : Sound(account, session[t])) /\ \A c \in Call : SoundCall(account, call[c])
  BY Nobody, IdleIsSound DEF Init
<1>6. SpentIsPast /\ ChallengesAreSpent
  BY DEF Init, SpentIsPast, ChallengesAreSpent, Idle
<1> QED
  BY <1>3, <1>4, <1>5, <1>6 DEF IInv

LEMMA NextIInv == IInv /\ [Next]_vars => IInv'
<1>1. ASSUME IInv, Next PROVE IInv'
  <2>1. AccountsSound /\ SpentIsPast /\ ChallengesAreSpent /\ TypeOK
    BY <1>1 DEF IInv, AccountsSound
  <2>2. AccountsStand
    BY <1>1, <2>1, AccountStep DEF IInv
  <2>3. call' \in [Call -> Handler] /\ \A c \in Call : SoundCall(account', call'[c])
    BY <1>1, <2>2, CallStep
  <2>4. session' \in [Token -> Proof] /\ \A t \in Token : Sound(account', session'[t])
    BY <1>1, <2>2, SessionStep, SessionsStaySound DEF SessionsFollow
  <2>5. challenge' \in [Challenge -> ChallengeRow] /\ ChallengesAreSpent'
    BY <1>1, <2>1, ChallengeStep
  <2>6. accepted' \in [User -> [Step -> 0..2]] /\ SpentIsPast'
    BY <1>1, <2>1, SpentStep DEF SpentOK
  <2>7. link' \in [Link -> LinkRow] /\ account' \in [User -> Row]
    BY <1>1, <2>1, <2>2, LinkStep DEF AccountsStand
  <2>8. TypeOK'
    BY <2>3, <2>4, <2>5, <2>6, <2>7 DEF TypeOK, Row, LinkRow, ChallengeRow, Handler, Stage
  <2> QED
    BY <2>2, <2>3, <2>4, <2>5, <2>6, <2>8 DEF IInv, AccountsStand
<1>2. ASSUME IInv, UNCHANGED vars PROVE IInv'
  BY <1>2 DEF IInv, vars, TypeOK, SpentIsPast, ChallengesAreSpent
<1> QED
  BY <1>1, <1>2

(* Everyone's session and every handler hold nothing that is ahead of the
   account, and what still names its generation is true (auth.go, security.go). *)
THEOREM Invariance == Spec => []IInv
  BY Initially, NextIInv, PTL DEF Spec

(* Every table and every handler holds values of its type. *)
THEOREM TypeCorrect == Spec => []TypeOK
<1>1. IInv => TypeOK
  BY DEF IInv
<1> QED
  BY <1>1, Invariance, PTL

(* A full session that counts names the current password and a registered
   passkey, of an account with a factor, whatever overlapped its login. *)
THEOREM LiveProven == Spec => []LiveIsProven
<1>1. ASSUME IInv PROVE LiveIsProven
  <2> SUFFICES ASSUME NEW t \in Token, Live(t)
               PROVE  LET u == session[t].who
                      IN  /\ session[t].password \in {0, account[u].password}
                          /\ session[t].key \in account[u].keys \cup {NoKey}
                          /\ HasFactor(u)
    BY DEF LiveIsProven
  <2>1. Counts(account, session[t].who, session[t].gen) /\ session[t].mode = "full"
    BY DEF Live, Valid, Counts, Exists
  <2>2. Sound(account, session[t]) /\ session[t].who \in User
    BY <1>1, <2>1 DEF IInv, Counts
  <2> QED
    BY <2>1, <2>2 DEF Sound, HasFactor, Factored
<1> QED
  BY <1>1, Invariance, PTL

(* An account locked by a factor reset has no factor, no code and no session. *)
THEOREM LockedOut == Spec => []LockedHasNoWayIn
<1>1. ASSUME IInv PROVE LockedHasNoWayIn
  <2> SUFFICES ASSUME NEW u \in User, account[u].locked
               PROVE  /\ ~HasFactor(u) /\ ~account[u].codes
                      /\ \A t \in Token : session[t].who = u => ~Valid(u, session[t].gen)
    BY DEF LockedHasNoWayIn
  <2>1. ~HasFactor(u) /\ ~account[u].codes
    BY <1>1 DEF IInv, SoundAccount, HasFactor, Factored
  <2>2. ASSUME NEW t \in Token, session[t].who = u PROVE ~Valid(u, session[t].gen)
    BY <1>1, <2>2 DEF IInv, Sound, Counts, Valid, Exists
  <2> QED
    BY <2>1, <2>2
<1> QED
  BY <1>1, Invariance, PTL

(* No step's code of one authenticator secret is accepted twice. *)
THEOREM CodesOnce == Spec => []CodesAreSpent
<1>1. ASSUME IInv PROVE CodesAreSpent
  <2> SUFFICES ASSUME NEW u \in User, NEW s \in Step PROVE accepted[u][s] <= 1
    BY DEF CodesAreSpent
  <2>1. accepted[u][s] = 0 \/ accepted[u][s] = 1
    BY <1>1 DEF IInv, SpentIsPast
  <2> QED
    BY <2>1
<1> QED
  BY <1>1, Invariance, PTL

(* No two handlers work from one challenge, and none of them is left to take. *)
THEOREM ChallengesOnce == Spec => []ChallengesAreSpent
<1>1. IInv => ChallengesAreSpent
  BY DEF IInv
<1> QED
  BY <1>1, Invariance, PTL

-----------------------------------------------------------------------------
(* What a handler holds of a session is what it held before, what it has just
   loaded, or what it signs its holder in with. *)
SameHolder(p, q) == p.mode = q.mode /\ p.who = q.who /\ p.gen = q.gen
Retains(h, k) == k.token = h.token /\ SameHolder(k.copy, h.copy)
Follows(c) ==
    \/ call'[c].copy.mode # "full"
    \/ Retains(call[c], call'[c])
    \/ call'[c].token \in Token /\ call'[c].copy = session[call'[c].token]
    \/ SignedIn(c)

LEMMA Hands ==
    ASSUME TypeOK, NEW c \in Call, NEW k, call' = [call EXCEPT ![c] = k],
           \/ k.copy.mode # "full"
           \/ Retains(call[c], k)
           \/ k.token \in Token /\ k.copy = session[k.token]
    PROVE  \A d \in Call : Follows(d)
<1>1. call'[c] = k /\ \A d \in Call \ {c} : call'[d] = call[d]
  BY CallTypes
<1> QED
  BY <1>1 DEF Follows, Retains, SameHolder

LEMMA AnswerHands ==
    ASSUME TypeOK, NEW c \in Call, NEW stage, NEW token, NEW p,
           call' = [call EXCEPT ![c] = Answered(stage, token, p)],
           p.mode # "full" \/ (token = call[c].token /\ SameHolder(p, call[c].copy))
    PROVE  \A d \in Call : Follows(d)
<1> DEFINE k == Answered(stage, token, p)
<1>1. k.copy.mode # "full" \/ (k.token = token /\ k.copy = p)
  BY DEF Answered, Idle, Anonymous
<1> HIDE DEF k
<1>2. k.copy.mode # "full" \/ Retains(call[c], k)
  BY <1>1 DEF Retains
<1>3. call' = [call EXCEPT ![c] = k]
  BY DEF k
<1> QED
  BY <1>2, <1>3, Hands

(* An answer to the session of the call. *)
LEMMA OwnAnswerHands ==
    ASSUME TypeOK, NEW c \in Call, NEW stage, NEW p, SameHolder(p, call[c].copy),
           call' = [call EXCEPT ![c] = Answered(stage, call[c].token, p)]
    PROVE  \A d \in Call : Follows(d)
  BY AnswerHands, Zenon

LEMMA GotoHands == ASSUME TypeOK, NEW c \in Call, NEW stage, Goto(c, stage) PROVE \A d \in Call : Follows(d)
<1>1. PICK h \in Handler : h = call[c]
  BY CallTypes
<1> DEFINE k == [h EXCEPT !.at = stage]
<1>2. Retains(h, k)
  BY DEF Retains, SameHolder, Handler
<1>3. call' = [call EXCEPT ![c] = k]
  BY <1>1, CallTypes DEF Goto
<1> HIDE DEF k
<1> QED
  BY <1>1, <1>2, <1>3, Hands

LEMMA LoginHands == ASSUME TypeOK, NEW c \in Call, Login(c) PROVE \A d \in Call : Follows(d)
<1>1. PICK h \in Handler : h = call[c] /\ call \in [Call -> Handler]
  BY CallTypes
<1>2. CASE LoginCompare(c) \/ RecoveryCode(c)
  <2>1. PICK u, n, w : call' = [call EXCEPT ![c].at = "again", ![c].subject = u, ![c].next = n, ![c].password = w]
    BY <1>2 DEF LoginCompare, RecoveryCode
  <2> DEFINE k == [h EXCEPT !.at = "again", !.subject = u, !.next = n, !.password = w]
  <2>2. Retains(h, k)
    BY DEF Retains, SameHolder, Handler
  <2>3. call' = [call EXCEPT ![c] = k]
    BY <1>1, <2>1
  <2> HIDE DEF k
  <2> QED
    BY <1>1, <2>2, <2>3, Hands
<1>3. CASE Again(c)
  BY <1>3, GotoHands DEF Again
<1>4. ASSUME NEW mode \in {"verify", "enroll"}, Pending(c, mode) PROVE \A d \in Call : Follows(d)
  <2> DEFINE p == [h.copy EXCEPT !.mode = mode, !.who = h.subject, !.gen = h.next,
                                 !.password = h.password, !.key = NoKey]
  <2>1. p.mode = mode
    BY DEF Handler, Proof
  <2>2. call' = [call EXCEPT ![c] = Answered("save", NewToken, p)]
    BY <1>1, <1>4 DEF Pending
  <2> HIDE DEF p
  <2> QED
    BY <2>1, <2>2, AnswerHands
<1>5. CASE LoginMode(c)
  <2>1. \E mode \in {"verify", "enroll"} : Pending(c, mode)
    BY <1>5 DEF LoginMode
  <2> QED
    BY <2>1, <1>4
<1>6. CASE RecoveryMode(c)
  BY <1>4, <1>6 DEF RecoveryMode
<1> QED
  BY <1>2, <1>3, <1>5, <1>6 DEF Login

LEMMA FactorHands ==
    ASSUME TypeOK, NEW c \in Call, SoundCall(account, call[c]), Factor(c) PROVE \A d \in Call : Follows(d)
<1>1. PICK h \in Handler : h = call[c] /\ call \in [Call -> Handler]
  BY CallTypes
<1>2. CASE CheckTOTP(c)
  <2>1. CASE Goto(c, "sign")
    BY <2>1, GotoHands
  <2>2. CASE call' = [call EXCEPT ![c] = Answered("page", call[c].token, call[c].copy)]
    BY <2>2, OwnAnswerHands DEF SameHolder
  <2> QED
    BY <1>2, <2>1, <2>2 DEF CheckTOTP
<1>3. CASE SignedIn(c)
  <2>1. \A d \in Call \ {c} : call'[d] = call[d]
    BY <1>1, <1>3 DEF SignedIn
  <2> QED
    BY <1>3, <2>1 DEF Follows, Retains, SameHolder
<1>4. CASE Resolve(c) \/ UseKey(c)
  BY <1>4, GotoHands DEF Resolve, UseKey
<1>5. CASE Issue(c)
  <2>1. PICK g \in Challenge :
          call' = [call EXCEPT ![c] = Answered(Answer(call[c].op), call[c].token,
                                        [call[c].copy EXCEPT !.challenge[PurposeOf(call[c].op)] = g])]
    BY <1>5 DEF Issue, UnusedChallenge
  <2> DEFINE q == [call[c].copy EXCEPT !.challenge[PurposeOf(call[c].op)] = g]
  <2>2. SaysTheSame(call[c].copy, q)
    BY Held, Purposes, Rechallenged, Zenon
  <2>3. call' = [call EXCEPT ![c] = Answered(Answer(call[c].op), call[c].token, q)]
    BY <2>1
  <2> HIDE DEF q
  <2> QED
    BY <2>2, <2>3, AnswerHands DEF SaysTheSame, SameHolder
<1>6. CASE Take(c)
  <2>1. PICK g, stage : call' = [call EXCEPT ![c] = [Popped(c) EXCEPT !.taken = g, !.at = stage]]
    BY <1>6, Zenon DEF Take
  <2>2. PICK q \in Proof : SameHolder(q, h.copy) /\ Popped(c) = [h EXCEPT !.copy = q]
    BY <1>1, PoppedCopy DEF SameHolder
  <2> DEFINE k == [h EXCEPT !.copy = q, !.taken = g, !.at = stage]
  <2>3. Retains(h, k)
    BY <2>2 DEF Retains, Handler
  <2>4. call' = [call EXCEPT ![c] = k]
    BY <2>1, <2>2
  <2> HIDE DEF k
  <2> QED
    BY <1>1, <2>3, <2>4, Hands
<1>7. CASE FindKey(c)
  <2>1. PICK u, key : call' = [call EXCEPT ![c].at = "owner", ![c].subject = u, ![c].key = key]
    BY <1>7 DEF FindKey
  <2> DEFINE k == [h EXCEPT !.at = "owner", !.subject = u, !.key = key]
  <2>2. Retains(h, k)
    BY DEF Retains, SameHolder, Handler
  <2>3. call' = [call EXCEPT ![c] = k]
    BY <1>1, <2>1
  <2> HIDE DEF k
  <2> QED
    BY <1>1, <2>2, <2>3, Hands
<1>8. CASE KeyOwner(c)
  <2>1. PICK n : call' = [call EXCEPT ![c].at = "use", ![c].next = n]
    BY <1>8 DEF KeyOwner
  <2> DEFINE k == [h EXCEPT !.at = "use", !.next = n]
  <2>2. Retains(h, k)
    BY DEF Retains, SameHolder, Handler
  <2>3. call' = [call EXCEPT ![c] = k]
    BY <1>1, <2>1
  <2> HIDE DEF k
  <2> QED
    BY <1>1, <2>2, <2>3, Hands
<1> QED
  BY <1>2, <1>3, <1>4, <1>5, <1>6, <1>7, <1>8 DEF Factor

LEMMA ChangeHands == ASSUME TypeOK, NEW c \in Call, Change(c) PROVE \A d \in Call : Follows(d)
<1>1. PICK h \in Handler : h = call[c] /\ call \in [Call -> Handler]
  BY CallTypes
<1>2. ASSUME NEW r, Own(c, r) PROVE \A d \in Call : Follows(d)
  <2> DEFINE k == [h EXCEPT !.next = r.gen, !.at = "sign"]
  <2>1. Retains(h, k)
    BY DEF Retains, SameHolder, Handler
  <2>2. call' = [call EXCEPT ![c] = k]
    BY <1>1, <1>2 DEF Own
  <2> HIDE DEF k
  <2> QED
    BY <1>1, <2>1, <2>2, Hands
<1>3. CASE EnrollTOTP(c) \/ EnrollKey(c) \/ RemoveTOTP(c) \/ NewCodes(c)
  BY <1>2, <1>3, Zenon DEF EnrollTOTP, EnrollKey, RemoveTOTP, NewCodes
<1>4. CASE RemoveKey(c)
  <2> DEFINE n == account[call[c].user].gen + 1
  <2>1. PICK key : call' = [call EXCEPT ![c].next = n, ![c].at = "sign",
                                        ![c].copy.key = IF @ = key THEN NoKey ELSE @]
    <3>1. PICK key \in account[call[c].user].keys :
            call' = [call EXCEPT ![c].next = n, ![c].at = "sign",
                                 ![c].copy.key = IF @ = key THEN NoKey ELSE @]
      BY <1>4, Zenon DEF RemoveKey
    <3> HIDE DEF n
    <3> QED
      BY <3>1
  <2> HIDE DEF n
  <2> DEFINE k == [h EXCEPT !.next = n, !.at = "sign", !.copy.key = IF @ = key THEN NoKey ELSE @]
  <2>2. Retains(h, k)
    BY DEF Retains, SameHolder, Handler, Proof
  <2>3. call' = [call EXCEPT ![c] = k]
    BY <1>1, <2>1
  <2> HIDE DEF k
  <2> QED
    BY <1>1, <2>2, <2>3, Hands
<1>5. CASE PasswordCompare(c)
  BY <1>5, GotoHands DEF PasswordCompare
<1>6. CASE ChangePassword(c)
  <2>1. call' = [call EXCEPT ![c] = Answered("save", NoToken, Anonymous)] /\ Anonymous.mode # "full"
    BY <1>6 DEF ChangePassword, Anonymous
  <2> QED
    BY <2>1, AnswerHands
<1> QED
  BY <1>3, <1>4, <1>5, <1>6 DEF Change

LEMMA EndHands ==
    ASSUME TypeOK, NEW c \in Call, SoundCall(account, call[c]), Administer(c) \/ Fail(c) \/ Page(c) \/ Save(c)
    PROVE  \A d \in Call : Follows(d)
<1>1. Anonymous.mode # "full" /\ Idle.copy.mode # "full"
  BY DEF Idle, Anonymous
<1>2. ASSUME NEW p, SameHolder(p, call[c].copy), Rendered(c, p) PROVE \A d \in Call : Follows(d)
  <2>1. CASE call' = [call EXCEPT ![c] = Answered("save", NoToken, Anonymous)]
    BY <1>1, <2>1, AnswerHands
  <2>2. CASE call' = [call EXCEPT ![c] = Answered("save", call[c].token, p)]
    BY <1>2, <2>2, OwnAnswerHands
  <2> QED
    BY <1>2, <2>1, <2>2 DEF Rendered
<1>3. CASE Administer(c)
  <2>1. PICK stage : call' = [call EXCEPT ![c] = Answered(stage, call[c].token, call[c].copy)]
    BY <1>3 DEF Administer, SaveMember, IssueReset, IssueInvite, RevokeLink, FactorReset, Administers
  <2>2. SameHolder(call[c].copy, call[c].copy)
    BY DEF SameHolder
  <2> QED
    BY <2>1, <2>2, OwnAnswerHands
<1>4. CASE Page(c)
  BY <1>2, <1>4 DEF Page, SameHolder
<1>5. CASE Fail(c)
  <2>1. PICK p : /\ p = IF call[c].at = "take" THEN Popped(c).copy ELSE call[c].copy
                 /\ SameHolder(p, call[c].copy)
    BY PoppedCopy DEF SameHolder
  <2>2. Rendered(c, p) \/ call' = [call EXCEPT ![c] = Answered("save", call[c].token, p)]
    BY <1>5, <2>1 DEF Fail
  <2>3. CASE call' = [call EXCEPT ![c] = Answered("save", call[c].token, p)]
    BY <2>1, <2>3, OwnAnswerHands
  <2> QED
    BY <1>2, <2>1, <2>2, <2>3
<1>6. CASE Save(c)
  <2>1. call' = [call EXCEPT ![c] = Idle]
    BY <1>6 DEF Save
  <2> QED
    BY <1>1, <2>1, Hands
<1> QED
  BY <1>3, <1>4, <1>5, <1>6

(* A request loads the session of the token that it shows. *)
LEMMA BeginHands ==
    ASSUME TypeOK, NEW c \in Call, NEW op, NEW t \in Token \cup {NoToken}, Begin(c, op, t)
    PROVE  \A d \in Call : Follows(d)
<1>1. PICK token, copy, k :
        /\ call' = [call EXCEPT ![c] = k]
        /\ k.copy.mode # "full" \/ (k.token = token /\ k.copy = copy)
        /\ copy.mode # "full" \/ (token \in Token /\ copy = session[token])
  <2> DEFINE loaded == IF t = NoToken THEN Anonymous ELSE session[t]
             copy == IF Stale(loaded) THEN Anonymous ELSE loaded
             token == IF Stale(loaded) THEN NoToken ELSE t
  <2>1. copy.mode # "full" \/ (token \in Token /\ copy = session[token])
    BY DEF Anonymous
  <2> HIDE DEF copy, token
  <2>2. CASE op = "browse"
    <3>1. call' = [call EXCEPT ![c] = Answered("save", token, copy)]
      BY <2>2, Zenon DEF Begin, copy, token
    <3>2. \/ Answered("save", token, copy).copy.mode # "full"
          \/ Answered("save", token, copy).token = token /\ Answered("save", token, copy).copy = copy
      BY DEF Answered, Idle, Anonymous
    <3> QED
      BY <2>1, <3>1, <3>2
  <2>3. CASE op # "browse"
    <3>1. PICK stage, user, gen :
            call' = [call EXCEPT ![c] = [Idle EXCEPT !.op = op, !.at = stage, !.copy = copy,
                        !.token = token, !.user = user, !.gen = gen, !.subject = user, !.next = gen]]
      BY <2>3, ZenonT(60) DEF Begin, copy, token
    <3> DEFINE k == [Idle EXCEPT !.op = op, !.at = stage, !.copy = copy, !.token = token,
                                 !.user = user, !.gen = gen, !.subject = user, !.next = gen]
    <3>2. k.token = token /\ k.copy = copy
      BY DEF Idle
    <3>3. call' = [call EXCEPT ![c] = k]
      BY <3>1
    <3> HIDE DEF k
    <3> QED
      BY <2>1, <3>2, <3>3
  <2> QED
    BY <2>2, <2>3
<1>2. \/ k.copy.mode # "full"
      \/ k.token \in Token /\ k.copy = session[k.token]
  BY <1>1
<1> QED
  BY <1>1, <1>2, Hands

LEMMA HandsStep == ASSUME IInv, Next PROVE \A d \in Call : Follows(d)
<1> TypeOK /\ \A c \in Call : SoundCall(account, call[c])
  BY DEF IInv
<1>1. CASE call' = call
  BY <1>1 DEF Follows, Retains, SameHolder
<1>2. CASE Restart
  BY <1>2 DEF Restart, Follows, Idle, Anonymous
<1>3. ASSUME NEW c \in Call, Handles(c) PROVE \A d \in Call : Follows(d)
  BY <1>3, LoginHands, FactorHands, ChangeHands, EndHands DEF Handles
<1> QED
  BY <1>1, <1>2, <1>3, BeginHands, Steps

(* Who holds no token holds no session that could count. *)
Nameless == \A c \in Call : call[c].token = NoToken => call[c].copy.mode # "full"

LEMMA SignsAnew ==
    ASSUME TypeOK, NEW c \in Call, SignedIn(c)
    PROVE  call'[c].token = NewToken \/ call'[c].copy.mode # "full"
<1>1. PICK stage, p : call'[c] = Answered(stage, NewToken, p)
  BY CallTypes DEF SignedIn
<1> QED
  BY <1>1 DEF Answered, Idle, Anonymous

LEMMA NamelessStep == IInv /\ Nameless /\ [Next]_vars => Nameless'
<1>1. ASSUME IInv, Nameless, Next, NEW c \in Call, call'[c].token = NoToken PROVE call'[c].copy.mode # "full"
  <2>1. Follows(c)
    BY <1>1, HandsStep
  <2> QED
    BY <1>1, <2>1, SignsAnew, AbsenceAssumption DEF IInv, Follows, Nameless, Retains, SameHolder
<1>2. ASSUME Nameless, UNCHANGED vars PROVE Nameless'
  BY <1>2 DEF Nameless, vars
<1> QED
  BY <1>1, <1>2 DEF Nameless

(* A stored session stays, ends, or is written by a handler that has its token
   or a new one. *)
LEMMA StoreStep ==
    ASSUME IInv, Nameless, Next, NEW t \in Token
    PROVE  \/ session'[t] = session[t]
           \/ session'[t].mode # "full"
           \/ \E c \in Call : call[c].token \in {t, NewToken} /\ session'[t] = call[c].copy
<1>1. CASE \E c \in Call : Save(c)
  <2>1. PICK c \in Call : Save(c)
    BY <1>1
  <2>2. PICK s \in Token : /\ session' = [session EXCEPT ![s] = call[c].copy]
                           /\ call[c].token \in Token => s = call[c].token
    BY <2>1 DEF Save, UnusedToken
  <2>3. call[c].token \in Token \cup {NoToken, NewToken} /\ session \in [Token -> Proof]
    BY Held DEF IInv, TypeOK
  <2> QED
    BY <2>2, <2>3 DEF Nameless
<1>2. CASE ~\E c \in Call : Save(c)
  <2>1. session' = session \/ \E s : session' = Forget(s)
    BY <1>2, Unsaved DEF Forgets
  <2>2. NoSession.mode # "full"
    BY DEF NoSession
  <2> QED
    BY <2>1, <2>2 DEF Forget
<1> QED
  BY <1>1, <1>2

(* Whatever proves its holder after a step did so before. *)
LEMMA StillProves ==
    ASSUME IInv, Next, NEW p \in Proof, Sound(account, p), NEW q, SameHolder(p, q),
           q.mode = "full", Counts(account', q.who, q.gen)
    PROVE  Proves(p)
<1>1. AccountsStand
  BY AccountStep DEF IInv, AccountsSound
<1>2. p.gen \in Nat /\ p.who \in User /\ account[p.who].role # "none" /\ p.gen <= account[p.who].gen
  BY DEF Sound, Proof, SameHolder, Counts
<1>3. Counts(account, p.who, p.gen)
  BY <1>1, <1>2, StillCounts, AccountTypes DEF IInv, AccountsStand, SameHolder
<1> QED
  BY <1>3 DEF Proves, Valid, Exists, Counts, SameHolder

(* A session that nobody holds and that does not count comes to count only as
   the answer of a handler that has signed its holder in: the generation that an
   ended session names never comes back. *)
THEOREM EndedStay == Spec => EndedStaysEnded
<1>1. ASSUME IInv, Nameless, Next, NEW t \in Token, Outstanding(t)', ~Outstanding(t)
      PROVE  \E c \in Call : Answering(c) /\ session'[t] = call[c].copy
  <2>1. CASE Live(t)'
    <3> DEFINE q == session'[t]
    <3>1. q.mode = "full" /\ Counts(account', q.who, q.gen)
      BY <2>1 DEF Live, Valid, Exists, Counts
    <3>2. q # session[t]
      <4>1. ASSUME q = session[t] PROVE Proves(session[t])
        BY <1>1, <3>1, <4>1, StillProves DEF IInv, TypeOK, SameHolder
      <4> QED
        BY <1>1, <4>1 DEF Proves, Outstanding, Live
    <3>3. PICK c \in Call : call[c].token \in {t, NewToken} /\ q = call[c].copy
      BY <1>1, <3>1, <3>2, StoreStep
    <3>4. call[c].copy \in Proof /\ Sound(account, call[c].copy)
      BY <1>1, Held DEF IInv
    <3>5. Proves(call[c].copy)
      BY <1>1, <3>1, <3>3, <3>4, StillProves DEF SameHolder
    <3> QED
      BY <1>1, <3>3, <3>5 DEF Outstanding, Answering
  <2>2. ASSUME NEW c \in Call, call'[c].token = t, Proves(call[c].copy)' PROVE FALSE
    <3>1. call'[c].copy.mode = "full" /\ Counts(account', call'[c].copy.who, call'[c].copy.gen)
      BY <2>2 DEF Proves, Valid, Exists, Counts
    <3>2. call[c].copy \in Proof /\ Sound(account, call[c].copy)
      BY <1>1, Held DEF IInv
    <3>3. CASE Retains(call[c], call'[c])
      <4>1. Proves(call[c].copy)
        BY <1>1, <3>1, <3>2, <3>3, StillProves DEF Retains, SameHolder
      <4> QED
        BY <1>1, <2>2, <3>3, <4>1 DEF Outstanding, Retains
    <3>4. CASE call'[c].copy = session[t]
      <4>1. Proves(session[t])
        BY <1>1, <3>1, <3>4, StillProves DEF IInv, TypeOK, SameHolder
      <4> QED
        BY <1>1, <4>1 DEF Proves, Outstanding, Live
    <3>5. CASE SignedIn(c)
      BY <1>1, <2>2, <3>1, <3>5, SignsAnew, AbsenceAssumption DEF IInv
    <3> QED
      BY <1>1, <2>2, <3>1, <3>3, <3>4, <3>5, HandsStep DEF Follows
  <2> QED
    BY <1>1, <2>1, <2>2 DEF Outstanding
<1>2. ASSUME IInv, Next, NEW c \in Call, Answering(c)', ~Answering(c) PROVE SignedIn(c)
  <2>1. /\ call'[c].token = NewToken /\ call'[c].copy.mode = "full"
        /\ Counts(account', call'[c].copy.who, call'[c].copy.gen)
    BY <1>2 DEF Answering, Proves, Valid, Exists, Counts
  <2>2. call[c].copy \in Proof /\ Sound(account, call[c].copy)
    BY <1>2, Held DEF IInv
  <2>3. ASSUME Retains(call[c], call'[c]) PROVE FALSE
    <3>1. Proves(call[c].copy)
      BY <1>2, <2>1, <2>2, <2>3, StillProves DEF Retains, SameHolder
    <3> QED
      BY <1>2, <2>1, <2>3, <3>1 DEF Answering, Retains
  <2> QED
    BY <1>2, <2>1, <2>3, HandsStep, AbsenceAssumption DEF Follows
<1>3. IInv /\ Nameless /\ [Next]_vars
      => [/\ \A t \in Token : Outstanding(t)' /\ ~Outstanding(t)
                => \E c \in Call : Answering(c) /\ session'[t] = call[c].copy
          /\ \A c \in Call : Answering(c)' /\ ~Answering(c) => SignedIn(c)]_vars
  BY <1>1, <1>2
<1>4. Init => Nameless
  BY DEF Init, Nameless, Idle, Anonymous
<1>5. Spec => []Nameless
  BY <1>4, NamelessStep, Invariance, PTL DEF Spec
<1> QED
  BY <1>3, <1>5, Invariance, PTL DEF Spec, EndedStaysEnded

-----------------------------------------------------------------------------
(* What a change takes from an account, and what it leaves of it. *)
Lessens(a, r) == r.totp <= a.totp /\ r.keys \subseteq a.keys
Spares(a, r) ==
    /\ r.locked => a.locked
    /\ a.role = "admin" /\ a.enabled => r.role = "admin" /\ r.enabled
Mild == \A u \in User : Lessens(account[u], account'[u]) /\ Spares(account[u], account'[u])

LEMMA MildRow ==
    ASSUME TypeOK, NEW u \in User, NEW r, account' = [account EXCEPT ![u] = r],
           Lessens(account[u], r), Spares(account[u], r)
    PROVE  Mild
<1>1. \A v \in User : account[v].totp \in Nat
  BY AccountTypes DEF Row
<1> QED
  BY <1>1, AccountTypes DEF Mild, Lessens, Spares

LEMMA MildUnchanged == ASSUME TypeOK, account' = account PROVE Mild
<1>1. \A v \in User : account[v].totp \in Nat
  BY AccountTypes DEF Row
<1> QED
  BY <1>1 DEF Mild, Lessens, Spares

(* It loses no rights and gains no factor. *)
Milder(a, r) ==
    /\ r.totp \in {0, a.totp} /\ r.keys \subseteq a.keys
    /\ r.locked = a.locked /\ r.role = a.role /\ r.enabled = a.enabled

LEMMA MilderRow ==
    ASSUME TypeOK, NEW u \in User, NEW r, account' = [account EXCEPT ![u] = r], Milder(account[u], r)
    PROVE  Mild
<1>1. account[u].totp \in Nat
  BY AccountTypes DEF Row
<1>2. Lessens(account[u], r)
  BY <1>1 DEF Lessens, Milder
<1>3. Spares(account[u], r)
  BY DEF Spares, Milder
<1> QED
  BY <1>2, <1>3, MildRow

LEMMA MildPassword ==
    ASSUME TypeOK, NEW u \in User, account[u].gen < MaxGen,
           account' = [account EXCEPT ![u] = WithPassword(account[u])]
    PROVE  Mild
<1>1. PICK a \in Row : a = account[u] /\ a.gen < MaxGen
  BY AccountTypes
<1>2. WithPassword(a) = [a EXCEPT !.gen = a.gen + 1, !.password = a.gen + 1]
  BY <1>1, NewRows, Zenon
<1>3. Milder(a, WithPassword(a))
  BY <1>2 DEF Milder, Row
<1> QED
  BY <1>1, <1>3, MilderRow

LEMMA MildLogin == ASSUME TypeOK, NEW c \in Call, Login(c) \/ Factor(c) PROVE Mild
<1>1. CASE RecoveryCode(c)
  <2>1. PICK u \in User : CanChange(u) /\ account' = [account EXCEPT ![u] = WithoutFactors(account[u])]
    BY <1>1 DEF RecoveryCode, ClearFactors
  <2>2. PICK a \in Row : a = account[u] /\ a.gen < MaxGen
    BY <2>1, RowOf
  <2>3. WithoutFactors(a) = [a EXCEPT !.gen = a.gen + 1, !.totp = 0, !.last = 0, !.keys = {}, !.codes = FALSE]
    BY <2>2, NewRows, Zenon
  <2>4. Milder(a, WithoutFactors(a))
    BY <2>3 DEF Milder, Row
  <2> QED
    BY <2>1, <2>2, <2>4, MilderRow
<1>2. CASE CheckTOTP(c)
  <2>1. PICK u \in User, s \in Step : account' = [account EXCEPT ![u].last = s]
    BY <1>2 DEF CheckTOTP, Identity, Valid
  <2>2. PICK a \in Row : a = account[u]
    BY AccountTypes
  <2>3. Milder(a, [a EXCEPT !.last = s])
    BY DEF Milder, Row
  <2>4. account' = [account EXCEPT ![u] = [a EXCEPT !.last = s]]
    BY <2>1, <2>2
  <2> QED
    BY <2>2, <2>3, <2>4, MilderRow
<1> QED
  BY <1>1, <1>2, MildUnchanged, Zenon
     DEF Login, LoginCompare, Again, LoginMode, RecoveryMode, Pending, tables,
         Factor, SignedIn, Resolve, Issue, Take, FindKey, KeyOwner, UseKey

LEMMA MildChange ==
    ASSUME TypeOK, NEW c \in Call, Change(c), ~EnrollTOTP(c), ~EnrollKey(c) PROVE Mild
<1> DEFINE u == call[c].user
<1>1. CASE RemoveTOTP(c) \/ RemoveKey(c) \/ NewCodes(c)
  <2>1. u \in User /\ CanChange(u)
    BY <1>1, Zenon DEF RemoveTOTP, RemoveKey, NewCodes, Identity, Valid
  <2>2. PICK a \in Row : a = account[u] /\ a.gen < MaxGen
    BY <2>1, RowOf
  <2>3. PICK b \in Row : b = Bumped(a) /\ b = [a EXCEPT !.gen = a.gen + 1]
    BY <2>2, NewRows, Zenon
  <2>4. /\ Milder(a, [b EXCEPT !.totp = 0, !.last = 0]) /\ Milder(a, [b EXCEPT !.codes = TRUE])
        /\ \A k : Milder(a, [b EXCEPT !.keys = b.keys \ {k}])
    BY <2>3 DEF Milder, Row
  <2>5. CASE RemoveTOTP(c)
    <3>1. account' = [account EXCEPT ![u] = [b EXCEPT !.totp = 0, !.last = 0]]
      BY <2>2, <2>3, <2>5 DEF RemoveTOTP, Own
    <3> QED
      BY <2>1, <2>2, <2>4, <3>1, MilderRow
  <2>6. CASE RemoveKey(c)
    <3>1. PICK k : account' = [account EXCEPT ![u] = [b EXCEPT !.keys = b.keys \ {k}]]
      BY <2>2, <2>3, <2>6 DEF RemoveKey
    <3> QED
      BY <2>1, <2>2, <2>4, <3>1, MilderRow
  <2>7. CASE NewCodes(c)
    <3>1. account' = [account EXCEPT ![u] = [b EXCEPT !.codes = TRUE]]
      BY <2>2, <2>3, <2>7 DEF NewCodes, Own
    <3> QED
      BY <2>1, <2>2, <2>4, <3>1, MilderRow
  <2> QED
    BY <1>1, <2>5, <2>6, <2>7
<1>2. CASE ChangePassword(c)
  <2>1. CanChange(u) /\ account' = [account EXCEPT ![u] = WithPassword(account[u])]
    BY <1>2 DEF ChangePassword
  <2>2. CASE u \in User
    BY <2>1, <2>2, RowOf, MildPassword
  <2>3. CASE u \notin User
    BY <2>1, <2>3, AccountTypes, MildUnchanged
  <2> QED
    BY <2>2, <2>3
<1>3. CASE PasswordCompare(c)
  BY <1>3, MildUnchanged DEF PasswordCompare, tables
<1> QED
  BY <1>1, <1>2, <1>3 DEF Change

LEMMA MildOutside ==
    ASSUME TypeOK,
           \/ \E l \in Link : Redeem(l)
           \/ \E u \in User : CreateAdmin(u) \/ \E reset \in BOOLEAN : Recover(u, reset)
    PROVE  Mild
<1>1. ASSUME NEW u \in User, ~Exists(u), NEW role, account' = [account EXCEPT ![u].role = role] PROVE Mild
  <2>1. PICK a \in Row : a = account[u] /\ a.role = "none" /\ a.totp \in Nat
    BY <1>1, AccountTypes DEF Exists, Row
  <2>2. /\ Lessens(a, [a EXCEPT !.role = role])
        /\ Spares(a, [a EXCEPT !.role = role])
    BY <2>1 DEF Lessens, Spares, Row
  <2>3. account' = [account EXCEPT ![u] = [a EXCEPT !.role = role]]
    BY <1>1, <2>1
  <2> QED
    BY <2>1, <2>2, <2>3, MildRow
<1>2. ASSUME NEW l \in Link, Redeem(l) PROVE Mild
  <2> DEFINE u == link[l].user
  <2>1. CASE u \notin User
    <3>1. account' = account
      BY <1>2, <2>1, AccountTypes DEF Redeem
    <3> QED
      BY <3>1, MildUnchanged
  <2>2. CASE u \in User /\ link[l].kind = "invite"
    BY <1>1, <1>2, <2>2 DEF Redeem
  <2>3. CASE u \in User /\ link[l].kind # "invite"
    <3>1. /\ CanChange(u)
          /\ account' = [account EXCEPT ![u] = [WithPassword(account[u]) EXCEPT
                             !.locked = @ /\ link[l].kind # "factor"]]
      BY <1>2, <2>3 DEF Redeem
    <3>2. PICK a \in Row : a = account[u] /\ a.gen < MaxGen /\ a.totp \in Nat
      BY <2>3, <3>1, RowOf DEF Row
    <3>3. PICK b \in Row : b = WithPassword(a) /\ b = [a EXCEPT !.gen = a.gen + 1, !.password = a.gen + 1]
      BY <3>2, NewRows, Zenon
    <3>4. PICK on \in BOOLEAN : on = (b.locked /\ link[l].kind # "factor") /\ (on => b.locked)
      OBVIOUS
    <3>5. account' = [account EXCEPT ![u] = [b EXCEPT !.locked = on]]
      BY <3>1, <3>2, <3>3, <3>4
    <3>6. /\ [b EXCEPT !.locked = on].totp = a.totp /\ [b EXCEPT !.locked = on].keys = a.keys
          /\ [b EXCEPT !.locked = on].role = a.role /\ [b EXCEPT !.locked = on].enabled = a.enabled
          /\ [b EXCEPT !.locked = on].locked = on /\ (on => a.locked)
      BY <3>3, <3>4 DEF Row
    <3> HIDE DEF u
    <3>7. Lessens(a, [b EXCEPT !.locked = on])
      BY <3>2, <3>6 DEF Lessens
    <3>8. Spares(a, [b EXCEPT !.locked = on])
      BY <3>6 DEF Spares
    <3> QED
      BY <2>3, <3>2, <3>5, <3>7, <3>8, MildRow
  <2> QED
    BY <2>1, <2>2, <2>3
<1>3. ASSUME NEW u \in User, NEW reset \in BOOLEAN, Recover(u, reset) PROVE Mild
  <2>1. PICK a \in Row : a = account[u] /\ a.gen \in Nat /\ a.totp \in Nat
    BY AccountTypes DEF Row
  <2>2. a.role = "admin" /\ a.gen < MaxGen /\ (reset => a.gen + 1 < MaxGen)
    BY <1>3, <2>1, BoundAssumption DEF Recover
  <2>3. PICK w \in Row : w = WithPassword(a) /\ w = [a EXCEPT !.gen = a.gen + 1, !.password = a.gen + 1]
    BY <2>1, <2>2, NewRows, Zenon
  <2>4. PICK b \in Row : b = [w EXCEPT !.enabled = TRUE] /\ b.gen = a.gen + 1 /\ b.role = "admin" /\ b.enabled
                         /\ b.totp = a.totp /\ b.keys = a.keys /\ b.locked = a.locked
    <3>1. [w EXCEPT !.enabled = TRUE] \in Row
      BY DEF Row
    <3> QED
      BY <2>1, <2>2, <2>3, <3>1 DEF Row
  <2>5. CASE reset
    <3> DEFINE r == [WithoutFactors(b) EXCEPT !.locked = FALSE]
    <3>1. account' = [account EXCEPT ![u] = r]
      BY <1>3, <2>1, <2>3, <2>4, <2>5 DEF Recover
    <3>2. /\ WithoutFactors(b) = [b EXCEPT !.gen = b.gen + 1, !.totp = 0, !.last = 0, !.keys = {}, !.codes = FALSE]
          /\ WithoutFactors(b) \in Row
      BY <2>2, <2>4, <2>5, NewRows, Zenon
    <3>3. r.totp = 0 /\ r.keys = {} /\ r.locked = FALSE /\ r.role = "admin" /\ r.enabled
      BY <2>4, <3>2, ZenonT(60) DEF Row
    <3> HIDE DEF r
    <3>4. Lessens(a, r) /\ Spares(a, r)
      BY <2>1, <3>3 DEF Lessens, Spares
    <3> QED
      BY <2>1, <3>1, <3>4, MildRow
  <2>6. CASE ~reset
    <3>1. account' = [account EXCEPT ![u] = b]
      BY <1>3, <2>1, <2>3, <2>4, <2>6 DEF Recover
    <3>2. Lessens(a, b) /\ Spares(a, b)
      BY <2>1, <2>4 DEF Lessens, Spares
    <3> QED
      BY <2>1, <3>1, <3>2, MildRow
  <2> QED
    BY <2>5, <2>6
<1> QED
  BY <1>1, <1>2, <1>3 DEF CreateAdmin

LEMMA Mildly ==
    ASSUME TypeOK, Next
    PROVE  \/ Mild
           \/ \E c \in Call : EnrollTOTP(c) \/ EnrollKey(c) \/ SaveMember(c) \/ FactorReset(c)
<1>1. ASSUME NEW c \in Call, Administer(c), ~SaveMember(c), ~FactorReset(c) PROVE Mild
  BY <1>1, MildUnchanged DEF Administer, IssueReset, IssueInvite, RevokeLink
<1>2. ASSUME NEW c \in Call, Fail(c) \/ Page(c) \/ Save(c) PROVE Mild
  BY <1>2, MildUnchanged DEF Fail, Page, Save, Rendered, tables
<1>3. ASSUME NEW c \in Call, NEW op, NEW t, Begin(c, op, t) PROVE Mild
  BY <1>3, MildUnchanged DEF Begin, tables
<1>4. ASSUME Restart \/ \E t \in Token : Logout(t) PROVE Mild
  BY <1>4, MildUnchanged DEF Restart, Logout, tables
<1> QED
  BY <1>1, <1>2, <1>3, <1>4, MildLogin, MildChange, MildOutside DEF Next, Using

(* The rows that the other four make. *)
LEMMA EnrolledRow ==
    ASSUME TypeOK, NEW c \in Call, EnrollTOTP(c) \/ EnrollKey(c)
    PROVE  /\ call[c].user \in User /\ call[c].at = "enroll" /\ call[c].op \in FactorOps /\ Identity(c)
           /\ \A u \in User \ {call[c].user} : account'[u] = account[u]
           /\ Spares(account[call[c].user], account'[call[c].user])
           /\ call'[c].at = "sign"
<1> DEFINE u == call[c].user
<1>1. /\ u \in User /\ call[c].at = "enroll" /\ call[c].op \in FactorOps /\ Identity(c) /\ CanChange(u)
  BY Zenon DEF EnrollTOTP, EnrollKey, Identity, Valid, At, FactorOps
<1>2. PICK a \in Row : a = account[u] /\ a.gen < MaxGen
  BY <1>1, RowOf
<1>3. PICK b \in Row : b = Bumped(a) /\ b = [a EXCEPT !.gen = a.gen + 1]
  BY <1>2, NewRows, Zenon
<1>4. PICK r : Own(c, r) /\ r.locked = a.locked /\ r.role = a.role /\ r.enabled = a.enabled
  <2>1. CASE EnrollTOTP(c)
    <3> DEFINE n == account[u].gen + 1
    <3>1. PICK s : Own(c, [b EXCEPT !.totp = n, !.last = s, !.codes = TRUE])
      BY <1>2, <1>3, <2>1, Zenon DEF EnrollTOTP
    <3> HIDE DEF n
    <3>2. /\ [b EXCEPT !.totp = n, !.last = s, !.codes = TRUE].locked = a.locked
          /\ [b EXCEPT !.totp = n, !.last = s, !.codes = TRUE].role = a.role
          /\ [b EXCEPT !.totp = n, !.last = s, !.codes = TRUE].enabled = a.enabled
      BY <1>3 DEF Row
    <3> QED
      BY <3>1, <3>2
  <2>2. CASE EnrollKey(c)
    <3>1. PICK k : Own(c, [b EXCEPT !.keys = b.keys \cup {k}, !.codes = TRUE])
      BY <1>2, <1>3, <2>2, Zenon DEF EnrollKey
    <3>2. /\ [b EXCEPT !.keys = b.keys \cup {k}, !.codes = TRUE].locked = a.locked
          /\ [b EXCEPT !.keys = b.keys \cup {k}, !.codes = TRUE].role = a.role
          /\ [b EXCEPT !.keys = b.keys \cup {k}, !.codes = TRUE].enabled = a.enabled
      BY <1>3 DEF Row
    <3> QED
      BY <3>1, <3>2
  <2> QED
    BY <2>1, <2>2
<1>5. /\ account' = [account EXCEPT ![u] = r]
      /\ call' = [call EXCEPT ![c].next = r.gen, ![c].at = "sign"]
  BY <1>4 DEF Own
<1>6. call'[c].at = "sign"
  <2>1. [call[c] EXCEPT !.next = r.gen, !.at = "sign"].at = "sign"
    BY CallTypes DEF Handler
  <2> QED
    BY <1>5, <2>1, CallTypes
<1> HIDE DEF u
<1>7. account'[u] = r /\ \A v \in User \ {u} : account'[v] = account[v]
  BY <1>1, <1>5, AccountTypes
<1>8. Spares(account[u], account'[u])
  BY <1>2, <1>4, <1>7 DEF Spares
<1> QED
  BY <1>1, <1>6, <1>7, <1>8 DEF u

LEMMA SavedRow ==
    ASSUME TypeOK, NEW c \in Call, SaveMember(c)
    PROVE  \E u \in User, role \in {"member", "admin"}, on \in BOOLEAN :
              /\ u \in Administrators /\ ~(on /\ role = "admin") => Cardinality(Administrators) > 1
              /\ account'[u].role = role /\ account'[u].enabled = on
              /\ account'[u].locked = account[u].locked /\ Lessens(account[u], account'[u])
              /\ \A v \in User \ {u} : account'[v] = account[v]
<1>1. PICK u \in User, role \in {"member", "admin"}, on \in BOOLEAN :
        /\ CanChange(u)
        /\ u \in Administrators /\ ~(on /\ role = "admin") => Cardinality(Administrators) > 1
        /\ account' = [account EXCEPT ![u] = [Bumped(account[u]) EXCEPT !.role = role, !.enabled = on]]
  BY DEF SaveMember
<1>2. PICK a \in Row : a = account[u] /\ a.gen < MaxGen /\ a.totp \in Nat
  BY <1>1, RowOf DEF Row
<1>3. PICK b \in Row : b = Bumped(a) /\ b = [a EXCEPT !.gen = a.gen + 1]
  BY <1>2, NewRows, Zenon
<1> DEFINE r == [b EXCEPT !.role = role, !.enabled = on]
<1>4. r.role = role /\ r.enabled = on /\ r.locked = a.locked /\ r.totp = a.totp /\ r.keys = a.keys
  BY <1>3 DEF Row
<1>5. account' = [account EXCEPT ![u] = r]
  BY <1>1, <1>2, <1>3
<1> HIDE DEF r
<1>6. account'[u] = r /\ \A v \in User \ {u} : account'[v] = account[v]
  BY <1>5, AccountTypes
<1>7. Lessens(a, r)
  BY <1>2, <1>4 DEF Lessens
<1> QED
  BY <1>1, <1>2, <1>4, <1>6, <1>7

LEMMA ResetRow ==
    ASSUME TypeOK, NEW c \in Call, FactorReset(c)
    PROVE  /\ Identity(c) /\ call[c].op = "factor-reset"
           /\ \E u \in User \ {call[c].user} :
                 /\ account'[u].role = account[u].role /\ account'[u].enabled = account[u].enabled
                 /\ Lessens(account[u], account'[u])
                 /\ \A v \in User \ {u} : account'[v] = account[v]
<1>1. PICK u \in User \ {call[c].user} :
        /\ CanChange(u)
        /\ account' = [account EXCEPT ![u] = [WithoutFactors(account[u]) EXCEPT !.locked = TRUE]]
  BY DEF FactorReset
<1>2. PICK a \in Row : a = account[u] /\ a.gen < MaxGen /\ a.totp \in Nat
  BY <1>1, RowOf DEF Row
<1>3. /\ WithoutFactors(a) \in Row
      /\ WithoutFactors(a) = [a EXCEPT !.gen = a.gen + 1, !.totp = 0, !.last = 0, !.keys = {}, !.codes = FALSE]
  BY <1>2, NewRows, Zenon
<1> DEFINE r == [WithoutFactors(a) EXCEPT !.locked = TRUE]
<1>4. r.role = a.role /\ r.enabled = a.enabled /\ r.totp = 0 /\ r.keys = {}
  BY <1>3 DEF Row
<1>5. account' = [account EXCEPT ![u] = r]
  BY <1>1, <1>2
<1> HIDE DEF r
<1>6. account'[u] = r /\ \A v \in User \ {u} : account'[v] = account[v]
  BY <1>5, AccountTypes
<1>7. Lessens(a, r)
  BY <1>2, <1>4 DEF Lessens
<1>8. Identity(c) /\ call[c].op = "factor-reset"
  BY DEF FactorReset, Administers, At
<1> QED
  BY <1>2, <1>4, <1>6, <1>7, <1>8

(* To an account that has a factor, only the handler of a full session adds one:
   a handler admitted to enroll serves an account that had none, and finds that
   account's generation gone once it has. *)
THEOREM AddedSignedIn == Spec => FactorsAddedSignedIn
<1> DEFINE Adds(u) == account'[u].totp > account[u].totp \/ ~(account'[u].keys \subseteq account[u].keys)
           Served(u) == \E c \in Call : /\ call[c].user = u /\ call[c].copy.mode = "full"
                                        /\ call'[c] # call[c]
<1>1. ASSUME IInv, [Next]_vars, NEW u \in User, HasFactor(u), Adds(u) PROVE Served(u)
  <2>1. TypeOK /\ account[u].totp \in Nat
    BY <1>1, AccountTypes DEF IInv, Row
  <2>2. ~Lessens(account[u], account'[u]) /\ account'[u] # account[u]
    <3>1. ASSUME Lessens(account[u], account'[u]) PROVE FALSE
      <4>1. account'[u].totp \in Nat
        <5>1. CASE Next
          BY <1>1, <5>1, AccountStep DEF IInv, AccountsSound, AccountsStand, Row
        <5>2. CASE UNCHANGED vars
          BY <2>1, <5>2 DEF vars
        <5> QED
          BY <1>1, <5>1, <5>2
      <4> QED
        BY <1>1, <2>1, <3>1, <4>1 DEF Lessens
    <3>2. account'[u] = account[u] => Lessens(account[u], account'[u])
      BY <2>1 DEF Lessens
    <3> QED
      BY <3>1, <3>2
  <2>3. Next
    BY <1>1, <2>2 DEF vars
  <2>4. PICK c \in Call : EnrollTOTP(c) \/ EnrollKey(c) \/ SaveMember(c) \/ FactorReset(c)
    BY <2>1, <2>2, <2>3, Mildly DEF Mild
  <2>5. EnrollTOTP(c) \/ EnrollKey(c)
    BY <1>1, <2>1, <2>2, <2>4, SavedRow, ResetRow
  <2>6. /\ call[c].user = u /\ call[c].at = "enroll" /\ call[c].op \in FactorOps /\ Identity(c)
        /\ call'[c].at = "sign"
    BY <2>1, <2>2, <2>5, EnrolledRow
  <2>7. SoundCall(account, call[c])
    BY <1>1 DEF IInv
  <2>8. Counts(account, u, call[c].gen) /\ call[c].copy.who = u /\ call[c].copy.gen = call[c].gen
    BY <2>1, <2>6, <2>7, ServedUnlocked
  <2>9. call[c].copy.mode \in {"enroll", "full"} /\ call[c].copy.mode # "enroll"
    BY <1>1, <2>6, <2>7, <2>8 DEF SoundCall, Shape, Sound, HasFactor, Factored
  <2> QED
    BY <2>6, <2>9
<1>2. IInv /\ [Next]_vars
      => [\A u \in User :
             HasFactor(u) /\ (account'[u].totp > account[u].totp \/ ~(account'[u].keys \subseteq account[u].keys))
             => \E c \in Call : /\ call[c].user = u /\ call[c].copy.mode = "full"
                               /\ call'[c] # call[c]]_vars
  BY <1>1
<1> QED
  BY <1>2, Invariance, PTL DEF Spec, FactorsAddedSignedIn

(* An enabled administrator remains whatever administrators do to each other:
   the last one is neither demoted nor disabled, and the one who resets another's
   factors is enabled, is an administrator and is not locked. *)
THEOREM OneRemains == Spec => AdministratorRemains
<1> DEFINE Remains ==
        /\ Administrators # {} => Administrators' # {}
        /\ (\E u \in User : account'[u].locked /\ ~account[u].locked)
           => \E u \in Administrators' : ~account'[u].locked
<1>1. ASSUME IInv, [Next]_vars PROVE [Remains]_account
  <2>1. CASE UNCHANGED account
    BY <2>1
  <2>2. CASE Mild
    BY <2>2 DEF Mild, Spares, Administrators
  <2>3. ASSUME NEW c \in Call, EnrollTOTP(c) \/ EnrollKey(c) PROVE Remains
    <3>1. \A u \in User : account'[u] = account[u] \/ Spares(account[u], account'[u])
      BY <1>1, <2>3, EnrolledRow DEF IInv
    <3> QED
      BY <3>1 DEF Spares, Administrators
  <2>4. ASSUME NEW c \in Call, SaveMember(c) PROVE Remains
    <3>1. PICK u \in User, role \in {"member", "admin"}, on \in BOOLEAN :
            /\ u \in Administrators /\ ~(on /\ role = "admin") => Cardinality(Administrators) > 1
            /\ account'[u].role = role /\ account'[u].enabled = on
            /\ account'[u].locked = account[u].locked
            /\ \A v \in User \ {u} : account'[v] = account[v]
      BY <1>1, <2>4, SavedRow DEF IInv
    <3>2. Administrators # {} => Administrators' # {}
      <4>1. CASE \E v \in Administrators : v # u
        BY <3>1, <4>1 DEF Administrators
      <4>2. CASE Administrators = {u}
        <5>1. Cardinality(Administrators) = 1
          BY <4>2, FS_Singleton
        <5>2. on /\ role = "admin"
          BY <3>1, <4>2, <5>1
        <5> QED
          BY <3>1, <5>2 DEF Administrators
      <4> QED
        BY <4>1, <4>2
    <3>3. \A v \in User : account'[v].locked => account[v].locked
      BY <3>1
    <3> QED
      BY <3>2, <3>3
  <2>5. ASSUME NEW c \in Call, FactorReset(c) PROVE Remains
    <3>1. PICK u \in User \ {call[c].user} :
            /\ account'[u].role = account[u].role /\ account'[u].enabled = account[u].enabled
            /\ \A v \in User \ {u} : account'[v] = account[v]
      BY <1>1, <2>5, ResetRow DEF IInv
    <3>2. /\ call[c].user \in User /\ ~account[call[c].user].locked
          /\ Counts(account, call[c].user, call[c].gen) /\ call[c].op \in AdminOps
      BY <1>1, <2>5, ResetRow, ServedUnlocked DEF IInv, AdminOps
    <3>3. account[call[c].user].role = "admin" /\ account[call[c].user].enabled
      BY <1>1, <3>2 DEF IInv, SoundCall, Counts
    <3>4. call[c].user \in Administrators' /\ ~account'[call[c].user].locked
      BY <3>1, <3>2, <3>3 DEF Administrators
    <3> QED
      BY <3>4
  <2> QED
    BY <1>1, <2>1, <2>2, <2>3, <2>4, <2>5, Mildly DEF IInv, vars
<1>2. IInv /\ [Next]_vars => [Remains]_account
  BY <1>1
<1> QED
  BY <1>2, Invariance, PTL DEF Spec, AdministratorRemains
=============================================================================
