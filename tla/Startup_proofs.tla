---------------------------- MODULE Startup_proofs ----------------------------
(***************************************************************************)
(* Proofs about Startup, for any number of processes and of versions.  Two *)
(* arguments that hardly meet: what the holder of the write lock may have  *)
(* done to its copy of the schema at each of its steps, and what a process *)
(* that has gone past a key file may rely on of that file.                 *)
(***************************************************************************)
EXTENDS Startup, TLAPS

Migrates(p) == process[p].at \in {"version", "apply", "record"}
ReadsKeys(p) == process[p].at \in {"read", "count", "create", "write"}
HasKeys(p) == process[p].at \in {"control", "listen", "serve"}

(* The lock is whose migration is under way; without one, there is nothing to
   commit. *)
LockIsHeld ==
    /\ \A p \in Process : lock = p <=> Migrates(p)
    /\ lock = None => tx = schema

(* Exactly the first n migrations were applied, each once. *)
HasFirst(s, n) == \A v \in Version : s.applied[v] = IF v <= n THEN 1 ELSE 0
HolderIsTrue(p) ==
    /\ At(p, "version") => tx = schema
    /\ At(p, "apply") \/ At(p, "record") => process[p].version = tx.ledger
    /\ At(p, "apply") => HasFirst(tx, tx.ledger) /\ tx.ledger <= Supported[p]
    /\ At(p, "record") => HasFirst(tx, tx.ledger + 1) /\ tx.ledger < Supported[p]
MigrationIsTrue ==
    /\ HasFirst(schema, schema.ledger) /\ schema.ledger <= tx.ledger
    /\ \A p \in Process : HolderIsTrue(p)

(* Only servers go on, and not before the schema was brought to their version. *)
ServersAreMigrated ==
    /\ \A p \in Process : ReadsKeys(p) \/ HasKeys(p) =>
        p \in Server /\ process[p].version = Supported[p] /\ Supported[p] <= schema.ledger
    /\ \A p \in Process : socket = p => At(p, "listen") \/ At(p, "serve")

(* p has read or made the key of kind k: the account key is the last one. *)
HasKey(p, k) == HasKeys(p) \/ (ReadsKeys(p) /\ k = "delivery" /\ process[p].kind = "account")
Handles(p, stage, k) == At(p, stage) /\ process[p].kind = k
KeyIsKept(k) ==
    /\ file[k] \in Key => sealed[k] \subseteq {file[k]}
    /\ file[k] = Short => sealed[k] = {}
    /\ \A p \in Process :
        /\ HasKey(p, k) => file[k] \in Key /\ process[p].cipher[k] = file[k]
        /\ Handles(p, "create", k) /\ file[k] = Missing => sealed[k] = {}
        /\ Handles(p, "write", k) =>
            file[k] = Short /\ \A q \in Process : Handles(q, "write", k) => q = p
KeysAreKept ==
    /\ \A p \in Process : ~ReadsKeys(p) /\ ~HasKeys(p) => process[p].kind = "csrf"
    /\ \A k \in Sealing : KeyIsKept(k)

IInv == TypeOK /\ LockIsHeld /\ MigrationIsTrue /\ ServersAreMigrated /\ KeysAreKept
ProcessState == [at : Stage, version : Version \cup {0}, kind : Kind, cipher : [Kind -> Key \cup {0}]]

-----------------------------------------------------------------------------
(* A step moves one process, or none. *)
LEMMA Moved ==
    ASSUME process \in [Process -> ProcessState], NEW p \in Process, NEW stage \in Stage, Goto(p, stage)
    PROVE  /\ process' \in [Process -> ProcessState]
           /\ process'[p].at = stage /\ process'[p].version = process[p].version
           /\ process'[p].kind = process[p].kind /\ process'[p].cipher = process[p].cipher
           /\ \A q \in Process \ {p} : process'[q] = process[q]
<1>1. process[p] \in ProcessState
  OBVIOUS
<1>2. [process[p] EXCEPT !.at = stage] \in ProcessState
  BY <1>1 DEF ProcessState
<1>3. process' = [process EXCEPT ![p] = [process[p] EXCEPT !.at = stage]]
  BY DEF Goto
<1> QED
  BY <1>1, <1>2, <1>3 DEF ProcessState

LEMMA Ended ==
    ASSUME TypeOK, NEW p \in Process, Ends(p)
    PROVE  /\ process' \in [Process -> ProcessState] /\ process'[p] = Off
           /\ \A q \in Process \ {p} : process'[q] = process[q]
<1>1. Off \in ProcessState
  BY DEF Off, ProcessState, Stage, Kind
<1> QED
  BY <1>1 DEF TypeOK, ProcessState, Ends

LEMMA VersionFacts ==
    /\ Version \subseteq Nat \ {0}
    /\ \A p \in Process : Supported[p] \in Nat \ {0}
    /\ \A p \in Process, v \in Nat \ {0} : v <= Supported[p] => v \in Version
  BY SupportedAssumption DEF Version

LEMMA SchemaFacts == TypeOK => schema.ledger \in Nat /\ tx.ledger \in Nat
<1>1. TypeOK => schema \in Schema /\ tx \in Schema
  BY DEF TypeOK
<1>2. \A s \in Schema : s.ledger \in Version \cup {0}
  BY DEF Schema
<1>3. Version \cup {0} \subseteq Nat
  BY VersionFacts
<1> QED
  BY <1>1, <1>2, <1>3

LEMMA KeyFacts ==
    /\ Missing \notin Key /\ Short \notin Key /\ Missing # Short
    /\ Sealing \subseteq Kind /\ "csrf" \notin Sealing
<1>1. Missing \notin Key /\ Short \notin Key /\ Missing # Short
  BY BoundAssumption DEF Missing, Short, Key
<1>2. Sealing \subseteq Kind /\ "csrf" \notin Sealing
  BY DEF Kind, Sealing
<1> QED
  BY <1>1, <1>2

(* A key was read or made: the process has it, and goes on to the next file. *)
LEMMA KeyLoaded ==
    ASSUME process \in [Process -> ProcessState], NEW p \in Process, ReadsKeys(p),
           NEW key \in Key, Loaded(p, key)
    PROVE  /\ process' \in [Process -> ProcessState]
           /\ process'[p].version = process[p].version
           /\ At(p, "control")' \/ At(p, "read")'
           /\ \A k \in Sealing : HasKey(p, k)' =>
                \/ HasKey(p, k) /\ process'[p].cipher[k] = process[p].cipher[k]
                \/ k = process[p].kind /\ process'[p].cipher[k] = key
           /\ \A q \in Process \ {p} : process'[q] = process[q]
<1> DEFINE k0 == process[p].kind
           cipher == [process[p].cipher EXCEPT ![k0] = key]
           last == [process[p] EXCEPT !.cipher = cipher, !.at = "control"]
           more == [process[p] EXCEPT !.cipher = cipher, !.at = "read", !.kind = Following(k0)]
<1>1. process[p] \in ProcessState /\ k0 \in Kind
  BY DEF ProcessState
<1>2. cipher \in [Kind -> Key \cup {0}]
  BY <1>1 DEF ProcessState
<1>3. CASE k0 = "account"
  <2>1. Following(k0) = "none"
    BY <1>3 DEF Following
  <2>2. process' = [process EXCEPT ![p] = last]
    BY <2>1 DEF Loaded
  <2>3. last \in ProcessState
    BY <1>1, <1>2 DEF ProcessState, Stage
  <2>4. process'[p] = last /\ process' \in [Process -> ProcessState]
    BY <2>2, <2>3
  <2> QED
    BY <1>1, <1>2, <1>3, <2>2, <2>3, <2>4 DEF HasKey, HasKeys, ReadsKeys, At, ProcessState, Sealing, Kind
<1>4. CASE k0 # "account"
  <2>1. Following(k0) \in Kind /\ Following(k0) # "none" /\ (Following(k0) = "account" /\ VPNEnabled => k0 = "delivery")
    BY <1>1, <1>4, BoundAssumption DEF Following, Kind, Sealing
  <2>2. process' = [process EXCEPT ![p] = more]
    BY <2>1 DEF Loaded
  <2>3. more \in ProcessState
    BY <1>1, <1>2, <2>1 DEF ProcessState, Stage
  <2>4. process'[p] = more /\ process' \in [Process -> ProcessState]
    BY <2>2, <2>3
  <2> QED
    BY <1>1, <1>2, <1>4, <2>1, <2>2, <2>3, <2>4 DEF HasKey, HasKeys, ReadsKeys, At, ProcessState, Sealing, Kind
<1> QED
  BY <1>3, <1>4

-----------------------------------------------------------------------------
(* What a step need not look at. *)
Alone(p) == \A q \in Process \ {p} : process'[q] = process[q]

LEMMA MigrationStands ==
    ASSUME LockIsHeld, MigrationIsTrue, UNCHANGED <<schema, lock, tx>>,
           NEW p \in Process, Alone(p), ~Migrates(p), ~Migrates(p)'
    PROVE  LockIsHeld' /\ MigrationIsTrue'
<1>1. \A q \in Process : Migrates(q)' <=> Migrates(q)
  BY DEF Alone, Migrates
<1>2. \A q \in Process : Migrates(q) => process'[q] = process[q]
  BY DEF Alone
<1>3. LockIsHeld'
  BY <1>1 DEF LockIsHeld
<1>4. MigrationIsTrue'
  BY <1>1, <1>2 DEF MigrationIsTrue, HolderIsTrue, Migrates, At, HasFirst
<1> QED
  BY <1>3, <1>4

LEMMA ServersStand ==
    ASSUME ServersAreMigrated, UNCHANGED schema, NEW p \in Process, Alone(p),
           ReadsKeys(p)' \/ HasKeys(p)' =>
            (ReadsKeys(p) \/ HasKeys(p)) /\ process'[p].version = process[p].version,
           socket' \in {socket, None, p},
           socket' = p => At(p, "listen")' \/ At(p, "serve")'
    PROVE  ServersAreMigrated'
<1>1. ASSUME NEW q \in Process, ReadsKeys(q)' \/ HasKeys(q)'
      PROVE  q \in Server /\ process'[q].version = Supported[q] /\ Supported[q] <= schema'.ledger
  BY <1>1 DEF ServersAreMigrated, Alone, ReadsKeys, HasKeys
<1>2. ASSUME NEW q \in Process, socket' = q PROVE At(q, "listen")' \/ At(q, "serve")'
  BY <1>2, ProcessAssumption DEF ServersAreMigrated, Alone, At
<1> QED
  BY <1>1, <1>2 DEF ServersAreMigrated

LEMMA KeysStand ==
    ASSUME KeysAreKept, UNCHANGED <<sealed, file>>, NEW p \in Process, Alone(p),
           ~ReadsKeys(p)' /\ ~HasKeys(p)' => process'[p].kind = "csrf",
           \A k \in Sealing :
            /\ HasKey(p, k)' => file[k] \in Key /\ process'[p].cipher[k] = file[k]
            /\ Handles(p, "create", k)' => sealed[k] = {}
            /\ ~Handles(p, "write", k)'
    PROVE  KeysAreKept'
<1>1. ASSUME NEW k \in Sealing PROVE KeyIsKept(k)'
  <2>1. KeyIsKept(k)
    BY DEF KeysAreKept
  <2>2. \A q \in Process \ {p}, s \in {"create", "write"} :
            (HasKey(q, k)' <=> HasKey(q, k)) /\ (Handles(q, s, k)' <=> Handles(q, s, k))
    BY DEF Alone, HasKey, HasKeys, ReadsKeys, Handles, At
  <2> QED
    BY <2>1, <2>2 DEF KeyIsKept, Alone
<1>2. \A q \in Process : ~ReadsKeys(q)' /\ ~HasKeys(q)' => process'[q].kind = "csrf"
  BY DEF KeysAreKept, Alone, ReadsKeys, HasKeys
<1> QED
  BY <1>1, <1>2 DEF KeysAreKept

-----------------------------------------------------------------------------
(* A process that ends leaves the lock, the transaction and the socket behind as
   if it had not been. *)
LEMMA EndsKeeps ==
    ASSUME IInv, NEW p \in Process, Ends(p), UNCHANGED <<schema, sealed, file, keys>>, faults' \in 0..MaxFaults
    PROVE  IInv'
<1> USE DEF IInv
<1>1. process' \in [Process -> ProcessState] /\ process'[p] = Off /\ Alone(p)
  BY Ended DEF Alone
<1>2. ~Migrates(p)' /\ ~ReadsKeys(p)' /\ ~HasKeys(p)' /\ process'[p].kind = "csrf"
  BY <1>1 DEF Off, Migrates, ReadsKeys, HasKeys
<1>3. TypeOK'
  BY <1>1 DEF TypeOK, Ends, ProcessState
<1>4. LockIsHeld' /\ MigrationIsTrue'
  <2>1. CASE lock = p
    <3>1. lock' = None /\ tx' = schema
      BY <2>1 DEF Ends
    <3>2. \A q \in Process : ~Migrates(q)'
      BY <1>1, <1>2, <2>1 DEF LockIsHeld, Alone, Migrates
    <3>3. schema.ledger \in Nat
      BY SchemaFacts
    <3>4. LockIsHeld'
      BY <3>1, <3>2, ProcessAssumption DEF LockIsHeld
    <3>5. HasFirst(schema, schema.ledger)' /\ schema'.ledger <= tx'.ledger
      BY <3>1, <3>3 DEF MigrationIsTrue, HasFirst
    <3> QED
      BY <3>2, <3>4, <3>5 DEF MigrationIsTrue, HolderIsTrue, Migrates, At
  <2>2. CASE lock # p
    BY <1>1, <1>2, <2>2, MigrationStands DEF LockIsHeld, Ends
  <2> QED
    BY <2>1, <2>2
<1>5. ServersAreMigrated'
  BY <1>1, <1>2, ServersStand, ProcessAssumption DEF Ends
<1>6. KeysAreKept'
  BY <1>1, <1>2, KeysStand DEF HasKey, Handles, ReadsKeys, At
<1> QED
  BY <1>3, <1>4, <1>5, <1>6

LEMMA StartKeeps == ASSUME IInv, NEW p \in Process, Start(p) PROVE IInv'
<1> USE DEF IInv
<1>1. /\ process' \in [Process -> ProcessState] /\ Alone(p)
      /\ process'[p].at = "begin" /\ process'[p].kind = process[p].kind
  BY Moved DEF Start, TypeOK, ProcessState, Alone, Stage
<1>2. /\ ~Migrates(p) /\ ~ReadsKeys(p) /\ ~HasKeys(p) /\ socket # p /\ process[p].kind = "csrf"
      /\ ~Migrates(p)' /\ ~ReadsKeys(p)' /\ ~HasKeys(p)'
  BY <1>1 DEF Start, At, Migrates, ReadsKeys, HasKeys, ServersAreMigrated, KeysAreKept
<1>3. TypeOK'
  BY <1>1 DEF Start, TypeOK, ProcessState
<1>4. LockIsHeld' /\ MigrationIsTrue'
  BY <1>1, <1>2, MigrationStands DEF Start
<1>5. ServersAreMigrated'
  BY <1>1, <1>2, ServersStand DEF Start
<1>6. KeysAreKept'
  BY <1>1, <1>2, KeysStand DEF Start, HasKey, Handles, ReadsKeys, At
<1> QED
  BY <1>3, <1>4, <1>5, <1>6

-----------------------------------------------------------------------------
(* The holder of the lock works on its own copy of the schema. *)
LEMMA HolderMoves ==
    ASSUME IInv, NEW p \in Process, lock \in {None, p}, Alone(p), lock' = p, UNCHANGED schema,
           Migrates(p)', schema.ledger <= tx'.ledger, HolderIsTrue(p)'
    PROVE  LockIsHeld' /\ MigrationIsTrue'
<1>1. \A q \in Process \ {p} : ~Migrates(q)'
  BY ProcessAssumption DEF IInv, LockIsHeld, Alone, Migrates
<1>2. LockIsHeld'
  BY <1>1, ProcessAssumption DEF LockIsHeld
<1>3. \A q \in Process \ {p} : HolderIsTrue(q)'
  BY <1>1 DEF HolderIsTrue, Migrates, At
<1>4. HasFirst(schema, schema.ledger)'
  BY DEF IInv, MigrationIsTrue, HasFirst
<1> QED
  BY <1>2, <1>3, <1>4 DEF MigrationIsTrue

(* Until it has migrated, a process has read no key file. *)
LEMMA MigrationOnly ==
    ASSUME IInv, NEW p \in Process, Alone(p), At(p, "begin") \/ Migrates(p), Migrates(p)',
           process'[p].kind = process[p].kind, UNCHANGED <<schema, sealed, file, socket>>
    PROVE  ServersAreMigrated' /\ KeysAreKept'
<1>1. /\ ~ReadsKeys(p) /\ ~HasKeys(p) /\ socket # p /\ process[p].kind = "csrf"
      /\ ~ReadsKeys(p)' /\ ~HasKeys(p)'
  BY DEF IInv, At, Migrates, ReadsKeys, HasKeys, ServersAreMigrated, KeysAreKept
<1>2. ServersAreMigrated'
  BY <1>1, ServersStand DEF IInv
<1>3. KeysAreKept'
  BY <1>1, KeysStand DEF IInv, HasKey, Handles, ReadsKeys, At
<1> QED
  BY <1>2, <1>3

LEMMA BeginKeeps == ASSUME IInv, NEW p \in Process, Begin(p) PROVE IInv'
<1>1. /\ process' \in [Process -> ProcessState] /\ Alone(p)
      /\ process'[p].at = "version" /\ process'[p].kind = process[p].kind
  BY Moved DEF IInv, Begin, TypeOK, ProcessState, Alone, Stage
<1>2. At(p, "begin") /\ Migrates(p)' /\ At(p, "version")'
  BY <1>1 DEF Begin, Migrates, At
<1>3. TypeOK'
  BY <1>1 DEF IInv, Begin, TypeOK, ProcessState
<1>4. schema.ledger <= tx'.ledger /\ HolderIsTrue(p)'
  BY <1>2, SchemaFacts DEF IInv, Begin, HolderIsTrue, At
<1>5. LockIsHeld' /\ MigrationIsTrue'
  BY <1>1, <1>2, <1>4, HolderMoves DEF Begin
<1>6. ServersAreMigrated' /\ KeysAreKept'
  BY <1>1, <1>2, MigrationOnly DEF Begin
<1> QED
  BY <1>3, <1>5, <1>6 DEF IInv

LEMMA ReadVersionKeeps == ASSUME IInv, NEW p \in Process, ReadVersion(p) PROVE IInv'
<1>1. CASE Unsupported(p)
  <2>1. Ends(p) /\ UNCHANGED <<schema, sealed, file, keys>> /\ faults' = faults
    BY <1>1 DEF ReadVersion
  <2>2. faults' \in 0..MaxFaults
    BY <2>1 DEF IInv, TypeOK
  <2> QED
    BY <2>1, <2>2, EndsKeeps
<1>2. CASE ~Unsupported(p)
  <2>1. /\ At(p, "version") /\ tx = schema /\ tx.ledger <= Supported[p]
        /\ process' = [process EXCEPT ![p] = [process[p] EXCEPT !.version = tx.ledger, !.at = "apply"]]
        /\ UNCHANGED <<schema, sealed, lock, tx, file, socket, keys, faults>>
    <3>1. tx.ledger \in Nat /\ Supported[p] \in Nat
      BY SchemaFacts, VersionFacts DEF IInv
    <3>2. At(p, "version") /\ tx = schema
      BY DEF ReadVersion, IInv, MigrationIsTrue, HolderIsTrue
    <3>3. process[p] \in ProcessState /\ process \in [Process -> ProcessState]
      BY DEF IInv, TypeOK, ProcessState
    <3>4. process' = [process EXCEPT ![p].version = tx.ledger, ![p].at = "apply"]
          /\ UNCHANGED <<schema, sealed, lock, tx, file, socket, keys, faults>>
      BY <1>2 DEF ReadVersion
    <3>5. process' = [process EXCEPT ![p] = [process[p] EXCEPT !.version = tx.ledger, !.at = "apply"]]
      BY <3>3, <3>4
    <3>6. tx.ledger <= Supported[p]
      BY <1>2, <3>1 DEF Unsupported
    <3> QED
      BY <3>2, <3>4, <3>5, <3>6
  <2>2. tx.ledger \in Version \cup {0} /\ tx \in Schema
    BY DEF IInv, TypeOK, Schema
  <2>3. process[p] \in ProcessState
    BY DEF IInv, TypeOK, ProcessState
  <2>4. [process[p] EXCEPT !.version = tx.ledger, !.at = "apply"] \in ProcessState
    BY <2>2, <2>3 DEF ProcessState, Stage
  <2>5. /\ process' \in [Process -> ProcessState] /\ Alone(p)
        /\ process'[p].at = "apply" /\ process'[p].kind = process[p].kind
        /\ process'[p].version = tx.ledger
    BY <2>1, <2>3, <2>4 DEF IInv, TypeOK, Alone, ProcessState
  <2>6. Migrates(p) /\ Migrates(p)' /\ lock = p
    BY <2>1, <2>5 DEF Migrates, At, IInv, LockIsHeld
  <2>7. TypeOK'
    BY <2>1, <2>5 DEF IInv, TypeOK, ProcessState
  <2>8. schema.ledger <= tx'.ledger /\ HolderIsTrue(p)'
    BY <2>1, <2>5 DEF IInv, MigrationIsTrue, HolderIsTrue, HasFirst, At
  <2>9. LockIsHeld' /\ MigrationIsTrue'
    BY <2>1, <2>5, <2>6, <2>8, HolderMoves
  <2>10. ServersAreMigrated' /\ KeysAreKept'
    BY <2>1, <2>5, <2>6, MigrationOnly
  <2> QED
    BY <2>7, <2>9, <2>10 DEF IInv
<1> QED
  BY <1>1, <1>2

(* The next migration is one the ledger does not have, so it is applied once. *)
LEMMA ApplyKeeps == ASSUME IInv, NEW p \in Process, Apply(p) PROVE IInv'
<1> DEFINE v == process[p].version + 1
<1>1. /\ process' \in [Process -> ProcessState] /\ Alone(p) /\ process'[p].at = "record"
      /\ process'[p].kind = process[p].kind /\ process'[p].version = process[p].version
  BY Moved DEF IInv, Apply, TypeOK, ProcessState, Alone, Stage
<1>2. /\ At(p, "apply") /\ Migrates(p) /\ Migrates(p)' /\ lock = p
      /\ UNCHANGED <<schema, sealed, lock, file, socket, keys, faults>>
  BY <1>1 DEF Apply, Migrates, At, IInv, LockIsHeld
<1>3. process[p].version = tx.ledger /\ HasFirst(tx, tx.ledger) /\ schema.ledger <= tx.ledger
  BY <1>2 DEF IInv, MigrationIsTrue, HolderIsTrue
<1>4. tx.ledger \in Nat /\ v = tx.ledger + 1 /\ v <= Supported[p] /\ v \in Version
      /\ tx.ledger < Supported[p]
  BY <1>3, SchemaFacts, VersionFacts DEF Apply, IInv
<1>5. tx \in Schema /\ tx.applied[v] = 0
  BY <1>3, <1>4 DEF IInv, TypeOK, HasFirst
<1>6. tx' = [tx EXCEPT !.applied = [tx.applied EXCEPT ![v] = 1]]
  BY <1>5 DEF Apply
<1> HIDE DEF v
<1>7. tx' \in Schema /\ tx'.ledger = tx.ledger /\ tx'.applied = [tx.applied EXCEPT ![v] = 1]
  BY <1>4, <1>5, <1>6 DEF Schema
<1>8. HasFirst(tx', tx.ledger + 1)
  <2> SUFFICES ASSUME NEW u \in Version PROVE tx'.applied[u] = IF u <= tx.ledger + 1 THEN 1 ELSE 0
    BY DEF HasFirst
  <2>1. u \in Nat /\ tx.applied[u] = (IF u <= tx.ledger THEN 1 ELSE 0) /\ tx.applied \in [Version -> 0..2]
    BY <1>3, <1>5, VersionFacts DEF HasFirst, Schema
  <2>2. CASE u = v
    BY <1>4, <1>7, <2>1, <2>2
  <2>3. CASE u # v
    BY <1>4, <1>7, <2>1, <2>3
  <2> QED
    BY <2>2, <2>3
<1>9. TypeOK'
  BY <1>1, <1>2, <1>7 DEF IInv, TypeOK, ProcessState
<1>10. schema.ledger <= tx'.ledger /\ HolderIsTrue(p)'
  BY <1>1, <1>3, <1>4, <1>7, <1>8 DEF HolderIsTrue, HasFirst, At
<1>11. LockIsHeld' /\ MigrationIsTrue'
  BY <1>1, <1>2, <1>10, HolderMoves
<1>12. ServersAreMigrated' /\ KeysAreKept'
  BY <1>1, <1>2, MigrationOnly
<1> QED
  BY <1>9, <1>11, <1>12 DEF IInv

LEMMA RecordKeeps == ASSUME IInv, NEW p \in Process, Record(p) PROVE IInv'
<1> DEFINE v == process[p].version + 1
<1>1. /\ At(p, "record") /\ Migrates(p) /\ lock = p
      /\ UNCHANGED <<schema, sealed, lock, file, socket, keys, faults>>
  BY DEF Record, Migrates, At, IInv, LockIsHeld
<1>2. /\ process[p].version = tx.ledger /\ HasFirst(tx, tx.ledger + 1) /\ schema.ledger <= tx.ledger
      /\ tx.ledger < Supported[p]
  BY <1>1 DEF IInv, MigrationIsTrue, HolderIsTrue
<1>3. /\ tx.ledger \in Nat /\ schema.ledger \in Nat /\ v = tx.ledger + 1
      /\ v <= Supported[p] /\ v \in Version /\ tx \in Schema
  BY <1>2, SchemaFacts, VersionFacts DEF IInv, TypeOK
<1>4. tx' = [tx EXCEPT !.ledger = v] /\ process' = [process EXCEPT ![p] = [process[p] EXCEPT !.version = v, !.at = "apply"]]
  BY DEF Record
<1> HIDE DEF v
<1>5. tx' \in Schema /\ tx'.ledger = v /\ tx'.applied = tx.applied
  BY <1>3, <1>4 DEF Schema
<1>6. process[p] \in ProcessState
  BY DEF IInv, TypeOK, ProcessState
<1>7. [process[p] EXCEPT !.version = v, !.at = "apply"] \in ProcessState
  BY <1>3, <1>6 DEF ProcessState, Stage
<1>8. /\ process' \in [Process -> ProcessState] /\ Alone(p) /\ process'[p].at = "apply"
      /\ process'[p].kind = process[p].kind /\ process'[p].version = v
  BY <1>4, <1>6, <1>7 DEF IInv, TypeOK, Alone, ProcessState
<1>9. TypeOK'
  BY <1>1, <1>5, <1>8 DEF IInv, TypeOK, ProcessState
<1>10. schema.ledger <= tx'.ledger /\ HolderIsTrue(p)' /\ Migrates(p)'
  BY <1>2, <1>3, <1>5, <1>8 DEF HolderIsTrue, HasFirst, At, Migrates
<1>11. LockIsHeld' /\ MigrationIsTrue'
  BY <1>1, <1>8, <1>10, HolderMoves
<1>12. ServersAreMigrated' /\ KeysAreKept'
  BY <1>1, <1>8, <1>10, MigrationOnly
<1> QED
  BY <1>9, <1>11, <1>12 DEF IInv

LEMMA CommitKeeps == ASSUME IInv, NEW p \in Process, Commit(p) PROVE IInv'
<1>1. /\ At(p, "apply") /\ Migrates(p) /\ lock = p /\ lock' = None /\ schema' = tx
      /\ UNCHANGED <<sealed, tx, file, socket, keys, faults>>
  BY DEF Commit, Migrates, At, IInv, LockIsHeld
<1>2. /\ process[p].version = tx.ledger /\ HasFirst(tx, tx.ledger) /\ schema.ledger <= tx.ledger
      /\ tx.ledger = Supported[p] /\ tx.ledger \in Nat /\ schema.ledger \in Nat
  <2>1. process[p].version = tx.ledger /\ HasFirst(tx, tx.ledger) /\ schema.ledger <= tx.ledger
        /\ tx.ledger <= Supported[p]
    BY <1>1 DEF IInv, MigrationIsTrue, HolderIsTrue
  <2>2. tx.ledger \in Nat /\ schema.ledger \in Nat /\ Supported[p] \in Nat
    BY SchemaFacts, VersionFacts DEF IInv
  <2> QED
    BY <2>1, <2>2 DEF Commit
<1>3. /\ process' \in [Process -> ProcessState] /\ Alone(p) /\ process'[p].kind = "csrf"
      /\ \/ p \in Server /\ process'[p].at = "read" /\ process'[p].version = process[p].version
         \/ process'[p] = Off
  <2>1. process[p].kind = "csrf"
    BY <1>1 DEF IInv, KeysAreKept, At, ReadsKeys, HasKeys
  <2>2. CASE p \in Server
    BY <2>1, <2>2, Moved DEF IInv, Commit, TypeOK, ProcessState, Alone, Stage
  <2>3. CASE p \notin Server
    <3>1. Off \in ProcessState
      BY DEF Off, ProcessState, Stage, Kind
    <3> QED
      BY <2>3, <3>1 DEF IInv, Commit, TypeOK, ProcessState, Alone, Off
  <2> QED
    BY <2>2, <2>3
<1>4. ~Migrates(p)' /\ ~HasKeys(p)' /\ (ReadsKeys(p)' => p \in Server /\ process'[p].version = process[p].version)
      /\ process'[p].at \in {"read", "off"}
  BY <1>3 DEF Off, Migrates, ReadsKeys, HasKeys
<1>5. TypeOK'
  BY <1>1, <1>3, ProcessAssumption DEF IInv, TypeOK, ProcessState
<1>6. LockIsHeld' /\ MigrationIsTrue'
  <2>1. \A q \in Process : ~Migrates(q)'
    BY <1>1, <1>3, <1>4 DEF IInv, LockIsHeld, Alone, Migrates
  <2>2. LockIsHeld'
    BY <1>1, <2>1, ProcessAssumption DEF LockIsHeld
  <2>3. HasFirst(schema, schema.ledger)' /\ schema'.ledger <= tx'.ledger
    BY <1>1, <1>2 DEF HasFirst
  <2>4. \A q \in Process : HolderIsTrue(q)'
    BY <2>1 DEF HolderIsTrue, Migrates, At
  <2> QED
    BY <2>2, <2>3, <2>4 DEF MigrationIsTrue
<1>7. ServersAreMigrated'
  <2>1. ASSUME NEW q \in Process, q # p, ReadsKeys(q)' \/ HasKeys(q)'
        PROVE  q \in Server /\ process'[q].version = Supported[q] /\ Supported[q] <= schema'.ledger
    <3>1. q \in Server /\ process'[q].version = Supported[q] /\ Supported[q] <= schema.ledger
      BY <1>3, <2>1 DEF IInv, ServersAreMigrated, Alone, ReadsKeys, HasKeys
    <3> QED
      BY <1>1, <1>2, <3>1, VersionFacts
  <2>2. ReadsKeys(p)' \/ HasKeys(p)' =>
            p \in Server /\ process'[p].version = Supported[p] /\ Supported[p] <= schema'.ledger
    BY <1>1, <1>2, <1>4
  <2>3. ASSUME NEW q \in Process, socket' = q PROVE At(q, "listen")' \/ At(q, "serve")'
    BY <1>1, <1>3, <2>3 DEF IInv, ServersAreMigrated, Alone, At
  <2> QED
    BY <2>1, <2>2, <2>3 DEF ServersAreMigrated
<1>8. KeysAreKept'
  BY <1>1, <1>3, <1>4, KeysStand DEF IInv, HasKey, Handles, At
<1> QED
  BY <1>5, <1>6, <1>7, <1>8 DEF IInv

-----------------------------------------------------------------------------
(* Past its migration a process has nothing to do with lock and schema. *)
LEMMA KeysOnly ==
    ASSUME IInv, NEW p \in Process, Alone(p), ReadsKeys(p), ReadsKeys(p)' \/ HasKeys(p)',
           process'[p].version = process[p].version, UNCHANGED <<schema, lock, tx, socket>>
    PROVE  LockIsHeld' /\ MigrationIsTrue' /\ ServersAreMigrated'
<1>1. ~Migrates(p) /\ ~Migrates(p)' /\ socket # p
  BY DEF IInv, Migrates, ReadsKeys, HasKeys, ServersAreMigrated, At
<1>2. LockIsHeld' /\ MigrationIsTrue'
  BY <1>1, MigrationStands DEF IInv
<1>3. ServersAreMigrated'
  BY <1>1, ServersStand DEF IInv
<1> QED
  BY <1>2, <1>3

LEMMA ReadKeyKeeps == ASSUME IInv, NEW p \in Process, ReadKey(p) PROVE IInv'
<1> DEFINE k0 == process[p].kind
<1>1. ReadsKeys(p) /\ UNCHANGED <<schema, sealed, file, keys, faults>>
  BY DEF ReadKey, ReadsKeys, At
<1>2. process \in [Process -> ProcessState] /\ faults \in 0..MaxFaults /\ k0 \in Kind
  BY DEF IInv, TypeOK, ProcessState
<1>3. CASE file[k0] = Missing /\ UNCHANGED <<lock, tx, socket>> /\ Goto(p, IF k0 \in Sealing THEN "count" ELSE "create")
  <2> DEFINE s == IF k0 \in Sealing THEN "count" ELSE "create"
  <2>1. s \in Stage
    BY DEF Stage
  <2>2. /\ process' \in [Process -> ProcessState] /\ Alone(p) /\ process'[p].at = s /\ process'[p].kind = k0
        /\ process'[p].version = process[p].version /\ process'[p].cipher = process[p].cipher
    BY <1>2, <1>3, <2>1, Moved DEF Alone
  <2>3. ReadsKeys(p)' /\ ~HasKeys(p)' /\ ~HasKeys(p)
    BY <1>1, <2>2 DEF ReadsKeys, HasKeys
  <2>4. TypeOK'
    BY <1>1, <1>3, <2>2 DEF IInv, TypeOK, ProcessState
  <2>5. LockIsHeld' /\ MigrationIsTrue' /\ ServersAreMigrated'
    BY <1>1, <1>3, <2>2, <2>3, KeysOnly
  <2>6. ASSUME NEW k \in Sealing
        PROVE  /\ HasKey(p, k)' => file[k] \in Key /\ process'[p].cipher[k] = file[k]
               /\ ~Handles(p, "create", k)' /\ ~Handles(p, "write", k)'
    BY <1>1, <2>2, <2>3 DEF IInv, KeysAreKept, KeyIsKept, HasKey, Handles, At
  <2>7. KeysAreKept'
    BY <1>1, <2>2, <2>3, <2>6, KeysStand DEF IInv
  <2> QED
    BY <2>4, <2>5, <2>7 DEF IInv
<1>4. CASE Ends(p)
  BY <1>1, <1>2, <1>4, EndsKeeps
<1>5. CASE file[k0] \in Key /\ Loaded(p, file[k0]) /\ UNCHANGED <<lock, tx, socket>>
  <2>1. /\ process' \in [Process -> ProcessState] /\ Alone(p)
        /\ process'[p].version = process[p].version /\ (At(p, "control")' \/ At(p, "read")')
    BY <1>1, <1>2, <1>5, KeyLoaded DEF Alone
  <2>7. \A k \in Sealing : HasKey(p, k)' =>
            \/ HasKey(p, k) /\ process'[p].cipher[k] = process[p].cipher[k]
            \/ k = k0 /\ process'[p].cipher[k] = file[k0]
    BY <1>1, <1>2, <1>5, KeyLoaded
  <2>2. ReadsKeys(p)' \/ HasKeys(p)'
    BY <2>1 DEF ReadsKeys, HasKeys, At
  <2>3. TypeOK'
    BY <1>1, <1>5, <2>1 DEF IInv, TypeOK, ProcessState
  <2>4. LockIsHeld' /\ MigrationIsTrue' /\ ServersAreMigrated'
    BY <1>1, <1>5, <2>1, <2>2, KeysOnly
  <2>5. ASSUME NEW k \in Sealing
        PROVE  /\ HasKey(p, k)' => file[k] \in Key /\ process'[p].cipher[k] = file[k]
               /\ ~Handles(p, "create", k)' /\ ~Handles(p, "write", k)'
    BY <1>5, <2>1, <2>7 DEF IInv, KeysAreKept, KeyIsKept, Handles, At
  <2>6. KeysAreKept'
    BY <1>1, <2>1, <2>2, <2>5, KeysStand DEF IInv
  <2> QED
    BY <2>3, <2>4, <2>6 DEF IInv
<1> QED
  BY <1>3, <1>4, <1>5 DEF ReadKey

LEMMA CountSealedKeeps == ASSUME IInv, NEW p \in Process, CountSealed(p) PROVE IInv'
<1> DEFINE k0 == process[p].kind
<1>1. ReadsKeys(p) /\ UNCHANGED <<schema, sealed, file, keys, faults>>
  BY DEF CountSealed, ReadsKeys, At
<1>2. process \in [Process -> ProcessState] /\ faults \in 0..MaxFaults
  BY DEF IInv, TypeOK, ProcessState
<1>3. CASE Ends(p)
  BY <1>1, <1>2, <1>3, EndsKeeps
<1>4. CASE sealed[k0] = {} /\ Goto(p, "create") /\ UNCHANGED <<lock, tx, socket>>
  <2>1. /\ process' \in [Process -> ProcessState] /\ Alone(p) /\ process'[p].at = "create"
        /\ process'[p].kind = k0
        /\ process'[p].version = process[p].version /\ process'[p].cipher = process[p].cipher
    BY <1>2, <1>4, Moved DEF Alone, Stage
  <2>2. ReadsKeys(p)' /\ ~HasKeys(p)' /\ ~HasKeys(p)
    BY <1>1, <2>1 DEF ReadsKeys, HasKeys
  <2>3. TypeOK'
    BY <1>1, <1>4, <2>1 DEF IInv, TypeOK, ProcessState
  <2>4. LockIsHeld' /\ MigrationIsTrue' /\ ServersAreMigrated'
    BY <1>1, <1>4, <2>1, <2>2, KeysOnly
  <2>5. ASSUME NEW k \in Sealing
        PROVE  /\ HasKey(p, k)' => file[k] \in Key /\ process'[p].cipher[k] = file[k]
               /\ Handles(p, "create", k)' => sealed[k] = {}
               /\ ~Handles(p, "write", k)'
    BY <1>1, <1>4, <2>1, <2>2 DEF IInv, KeysAreKept, KeyIsKept, HasKey, Handles, At
  <2>6. KeysAreKept'
    BY <1>1, <2>1, <2>2, <2>5, KeysStand DEF IInv
  <2> QED
    BY <2>3, <2>4, <2>6 DEF IInv
<1> QED
  BY <1>3, <1>4 DEF CountSealed

(* Only the first of those that found a key missing creates its file; nothing is
   sealed, so nobody misses the key that was there. *)
LEMMA CreateKeyKeeps == ASSUME IInv, NEW p \in Process, CreateKey(p) PROVE IInv'
<1> DEFINE k0 == process[p].kind
<1>1. At(p, "create") /\ ReadsKeys(p) /\ UNCHANGED <<schema, sealed, keys, faults>>
  BY DEF CreateKey, ReadsKeys, At
<1>2. process \in [Process -> ProcessState] /\ faults \in 0..MaxFaults /\ k0 \in Kind
  BY DEF IInv, TypeOK, ProcessState
<1>3. CASE Ends(p) /\ UNCHANGED file
  BY <1>1, <1>2, <1>3, EndsKeeps
<1>4. CASE /\ ~(k0 \in Sealing /\ file[k0] # Missing) /\ file' = [file EXCEPT ![k0] = Short]
           /\ Goto(p, "write") /\ UNCHANGED <<lock, tx, socket>>
  <2>1. /\ process' \in [Process -> ProcessState] /\ Alone(p) /\ process'[p].at = "write"
        /\ process'[p].kind = k0
        /\ process'[p].version = process[p].version /\ process'[p].cipher = process[p].cipher
    BY <1>2, <1>4, Moved DEF Alone, Stage
  <2>2. ReadsKeys(p)' /\ ~HasKeys(p)' /\ ~HasKeys(p)
    BY <1>1, <2>1 DEF ReadsKeys, HasKeys
  <2>3. file \in [Kind -> Key \cup {Missing, Short}]
    BY DEF IInv, TypeOK
  <2>4. TypeOK'
    BY <1>1, <1>2, <1>4, <2>1, <2>3 DEF IInv, TypeOK, ProcessState
  <2>5. LockIsHeld' /\ MigrationIsTrue' /\ ServersAreMigrated'
    BY <1>1, <1>4, <2>1, <2>2, KeysOnly
  <2>6. ASSUME NEW k \in Sealing PROVE KeyIsKept(k)'
    <3>1. KeyIsKept(k) /\ k \in Kind
      BY KeyFacts DEF IInv, KeysAreKept
    <3>2. \A q \in Process \ {p}, s \in {"create", "write"} :
            (HasKey(q, k)' <=> HasKey(q, k)) /\ (Handles(q, s, k)' <=> Handles(q, s, k))
            /\ process'[q].cipher = process[q].cipher
      BY <2>1 DEF Alone, HasKey, HasKeys, ReadsKeys, Handles, At
    <3>3. CASE k = k0
      <4>1. file[k] = Missing /\ file'[k] = Short /\ sealed[k] = {}
        BY <1>1, <1>4, <2>3, <3>1, <3>3 DEF KeyIsKept, Handles
      <4>2. ~HasKey(p, k)' /\ \A q \in Process \ {p} : ~HasKey(q, k)' /\ ~Handles(q, "write", k)'
        BY <2>1, <2>2, <3>1, <3>2, <3>3, <4>1, KeyFacts DEF KeyIsKept, HasKey
      <4> QED
        BY <1>1, <4>1, <4>2, KeyFacts DEF KeyIsKept
    <3>4. CASE k # k0
      <4>1. file'[k] = file[k] /\ sealed'[k] = sealed[k]
        BY <1>1, <1>4, <2>3, <3>1, <3>4
      <4>2. /\ HasKey(p, k)' <=> HasKey(p, k)
            /\ ~Handles(p, "create", k)' /\ ~Handles(p, "write", k)'
        BY <1>1, <2>1, <2>2, <3>4 DEF HasKey, Handles
      <4> QED
        BY <2>1, <3>1, <3>2, <4>1, <4>2 DEF KeyIsKept
    <3> QED
      BY <3>3, <3>4
  <2>7. \A q \in Process : ~ReadsKeys(q)' /\ ~HasKeys(q)' => process'[q].kind = "csrf"
    BY <2>1, <2>2 DEF IInv, KeysAreKept, Alone, ReadsKeys, HasKeys
  <2> QED
    BY <2>4, <2>5, <2>6, <2>7 DEF IInv, KeysAreKept
<1> QED
  BY <1>3, <1>4 DEF CreateKey

LEMMA WriteKeyKeeps == ASSUME IInv, NEW p \in Process, WriteKey(p) PROVE IInv'
<1> DEFINE k0 == process[p].kind
           key == IF k0 \in Sealing THEN keys + 1 ELSE 1
<1>1. /\ At(p, "write") /\ ReadsKeys(p) /\ UNCHANGED <<schema, sealed, lock, tx, socket, faults>>
      /\ key <= MaxKeys /\ file' = [file EXCEPT ![k0] = key] /\ Loaded(p, key)
      /\ keys' = IF k0 \in Sealing THEN key ELSE keys
  BY DEF WriteKey, ReadsKeys, At
<1>2. /\ process \in [Process -> ProcessState] /\ k0 \in Kind /\ keys \in 0..MaxKeys
      /\ file \in [Kind -> Key \cup {Missing, Short}]
  BY DEF IInv, TypeOK, ProcessState
<1>3. key \in Key /\ keys' \in 0..MaxKeys
  BY <1>1, <1>2, BoundAssumption DEF Key
<1> HIDE DEF key
<1>4. /\ process' \in [Process -> ProcessState] /\ Alone(p)
      /\ process'[p].version = process[p].version /\ (At(p, "control")' \/ At(p, "read")')
  BY <1>1, <1>2, <1>3, KeyLoaded DEF Alone
<1>5. \A k \in Sealing : HasKey(p, k)' =>
        \/ HasKey(p, k) /\ process'[p].cipher[k] = process[p].cipher[k]
        \/ k = k0 /\ process'[p].cipher[k] = key
  BY <1>1, <1>2, <1>3, KeyLoaded
<1>6. ReadsKeys(p)' \/ HasKeys(p)'
  BY <1>4 DEF ReadsKeys, HasKeys, At
<1>7. TypeOK'
  BY <1>1, <1>2, <1>3, <1>4 DEF IInv, TypeOK, ProcessState
<1>8. LockIsHeld' /\ MigrationIsTrue' /\ ServersAreMigrated'
  BY <1>1, <1>4, <1>6, KeysOnly
<1>9. ASSUME NEW k \in Sealing PROVE KeyIsKept(k)'
  <2>1. KeyIsKept(k) /\ k \in Kind
    BY KeyFacts DEF IInv, KeysAreKept
  <2>2. \A q \in Process \ {p}, s \in {"create", "write"} :
          (HasKey(q, k)' <=> HasKey(q, k)) /\ (Handles(q, s, k)' <=> Handles(q, s, k))
          /\ process'[q].cipher = process[q].cipher
    BY <1>4 DEF Alone, HasKey, HasKeys, ReadsKeys, Handles, At
  <2>3. ~Handles(p, "create", k)' /\ ~Handles(p, "write", k)'
    BY <1>4 DEF Handles, At
  <2>4. CASE k = k0
    <3>1. file[k] = Short /\ file'[k] = key /\ sealed[k] = {}
          /\ \A q \in Process \ {p} : ~Handles(q, "write", k)
      BY <1>1, <1>2, <2>1, <2>4 DEF KeyIsKept, Handles
    <3>2. \A q \in Process : ~HasKey(q, k)
      BY <2>1, <3>1, KeyFacts DEF KeyIsKept
    <3>3. \A q \in Process \ {p} : ~HasKey(q, k)' /\ ~Handles(q, "write", k)'
      BY <2>2, <3>1, <3>2
    <3> QED
      BY <1>1, <1>3, <1>5, <2>3, <3>1, <3>2, <3>3, KeyFacts DEF KeyIsKept
  <2>5. CASE k # k0
    <3>1. file'[k] = file[k] /\ sealed'[k] = sealed[k]
      BY <1>1, <1>2, <2>1, <2>5
    <3>2. HasKey(p, k)' => HasKey(p, k) /\ process'[p].cipher[k] = process[p].cipher[k]
      BY <1>5, <2>5
    <3> QED
      BY <2>1, <2>2, <2>3, <3>1, <3>2 DEF KeyIsKept
  <2> QED
    BY <2>4, <2>5
<1>10. \A q \in Process : ~ReadsKeys(q)' /\ ~HasKeys(q)' => process'[q].kind = "csrf"
  BY <1>4, <1>6 DEF IInv, KeysAreKept, Alone, ReadsKeys, HasKeys
<1> QED
  BY <1>7, <1>8, <1>9, <1>10 DEF IInv, KeysAreKept

-----------------------------------------------------------------------------
(* A server that has its keys opens its listeners. *)
LEMMA ServerOpens ==
    ASSUME IInv, NEW p \in Process, NEW stage \in {"listen", "serve"}, HasKeys(p), Goto(p, stage),
           socket' \in {socket, p}, UNCHANGED <<schema, sealed, lock, tx, file, keys, faults>>,
           At(p, "control") \/ socket' = socket
    PROVE  IInv'
<1>1. /\ process' \in [Process -> ProcessState] /\ Alone(p) /\ process'[p].at = stage
      /\ process'[p].version = process[p].version /\ process'[p].cipher = process[p].cipher
  BY Moved DEF IInv, TypeOK, ProcessState, Alone, Stage
<1>2. HasKeys(p)' /\ ~Migrates(p)' /\ ~Migrates(p) /\ (At(p, "listen")' \/ At(p, "serve")')
  BY <1>1 DEF HasKeys, Migrates, At
<1>3. TypeOK'
  BY <1>1 DEF IInv, TypeOK, ProcessState, ServersAreMigrated
<1>4. LockIsHeld' /\ MigrationIsTrue'
  BY <1>1, <1>2, MigrationStands DEF IInv
<1>5. ServersAreMigrated'
  BY <1>1, <1>2, ServersStand DEF IInv
<1>6. KeysAreKept'
  BY <1>1, <1>2, KeysStand DEF IInv, HasKey, Handles, At, KeysAreKept, KeyIsKept
<1> QED
  BY <1>3, <1>4, <1>5, <1>6 DEF IInv

LEMMA ListenKeeps == ASSUME IInv, NEW p \in Process, StartControl(p) \/ Listen(p) PROVE IInv'
<1>1. HasKeys(p) /\ faults \in 0..MaxFaults
  BY DEF StartControl, Listen, HasKeys, At, IInv, TypeOK
<1>2. CASE StartControl(p)
  BY <1>1, <1>2, ServerOpens DEF StartControl
<1>3. CASE Listen(p)
  <2>1. CASE Ends(p)
    BY <1>1, <1>3, <2>1, EndsKeeps DEF Listen
  <2>2. CASE ~Ends(p)
    BY <1>1, <1>3, <2>2, ServerOpens DEF Listen
  <2> QED
    BY <2>1, <2>2
<1> QED
  BY <1>2, <1>3

(* Only what a process that serves has sealed, and what an operator takes away
   while none runs, changes the volume apart from start-up. *)
LEMMA DataKeeps ==
    ASSUME IInv, UNCHANGED <<schema, lock, tx, process, socket, keys>>, faults' \in 0..MaxFaults,
           \/ \E p \in Process, k \in Sealing : Seal(p, k) \/ Erase(p, k)
           \/ \E k \in Kind : LoseKey(k)
    PROVE  IInv'
<1>1. /\ sealed \in [Sealing -> SUBSET Key] /\ file \in [Kind -> Key \cup {Missing, Short}]
      /\ process \in [Process -> ProcessState]
  BY DEF IInv, TypeOK, ProcessState
<1>2. LockIsHeld' /\ MigrationIsTrue' /\ ServersAreMigrated'
  BY DEF IInv, LockIsHeld, Migrates, MigrationIsTrue, HolderIsTrue, HasFirst, At, ServersAreMigrated,
         ReadsKeys, HasKeys
<1>3. \A q \in Process : ~ReadsKeys(q)' /\ ~HasKeys(q)' => process'[q].kind = "csrf"
  BY DEF IInv, KeysAreKept, ReadsKeys, HasKeys
<1>4. \A k \in Sealing, q \in Process, s \in {"create", "write"} :
        (HasKey(q, k)' <=> HasKey(q, k)) /\ (Handles(q, s, k)' <=> Handles(q, s, k))
  BY DEF HasKey, HasKeys, ReadsKeys, Handles, At
<1>5. ASSUME NEW p \in Process, NEW k \in Sealing, Seal(p, k)
      PROVE  sealed' \in [Sealing -> SUBSET Key] /\ file' = file /\ \A j \in Sealing : KeyIsKept(j)'
  <2>1. HasKey(p, k) /\ KeyIsKept(k)
    BY <1>5 DEF Seal, At, HasKey, HasKeys, IInv, KeysAreKept
  <2>2. process[p].cipher[k] = file[k] /\ file[k] \in Key
    BY <2>1 DEF KeyIsKept
  <2>3. sealed' = [sealed EXCEPT ![k] = sealed[k] \cup {file[k]}] /\ file' = file
    BY <1>5, <2>2 DEF Seal
  <2>4. ASSUME NEW j \in Sealing PROVE KeyIsKept(j)'
    <3>1. KeyIsKept(j)
      BY DEF IInv, KeysAreKept
    <3>2. CASE j = k
      BY <1>1, <1>4, <2>2, <2>3, <3>1, <3>2, KeyFacts DEF KeyIsKept
    <3>3. CASE j # k
      BY <1>1, <1>4, <2>3, <3>1, <3>3 DEF KeyIsKept
    <3> QED
      BY <3>2, <3>3
  <2> QED
    BY <1>1, <2>2, <2>3, <2>4
<1>6. ASSUME NEW p \in Process, NEW k \in Sealing, Erase(p, k)
      PROVE  sealed' \in [Sealing -> SUBSET Key] /\ file' = file /\ \A j \in Sealing : KeyIsKept(j)'
  <2>1. sealed' = [sealed EXCEPT ![k] = {}] /\ file' = file
    BY <1>6 DEF Erase
  <2>2. \A j \in Sealing : sealed'[j] \subseteq sealed[j]
    BY <1>1, <2>1
  <2>3. \A j \in Sealing : KeyIsKept(j)'
    BY <1>4, <2>1, <2>2 DEF KeyIsKept, IInv, KeysAreKept
  <2> QED
    BY <1>1, <2>1, <2>3
<1>7. ASSUME NEW k \in Kind, LoseKey(k)
      PROVE  /\ sealed' = sealed /\ file' \in [Kind -> Key \cup {Missing, Short}]
             /\ \A j \in Sealing : KeyIsKept(j)'
  <2>1. file' = [file EXCEPT ![k] = Missing] /\ sealed' = sealed
    BY <1>7 DEF LoseKey
  <2>2. \A j \in Sealing, q \in Process, s \in {"create", "write"} : ~HasKey(q, j) /\ ~Handles(q, s, j)
    BY <1>7 DEF LoseKey, At, HasKey, HasKeys, ReadsKeys, Handles
  <2>3. \A j \in Sealing : file'[j] = file[j] \/ file'[j] = Missing
    BY <1>1, <2>1, KeyFacts
  <2>4. \A j \in Sealing : KeyIsKept(j)'
    BY <1>4, <2>1, <2>2, <2>3, KeyFacts DEF KeyIsKept, IInv, KeysAreKept
  <2> QED
    BY <1>1, <2>1, <2>4
<1>8. /\ sealed' \in [Sealing -> SUBSET Key] /\ file' \in [Kind -> Key \cup {Missing, Short}]
      /\ \A j \in Sealing : KeyIsKept(j)'
  BY <1>1, <1>5, <1>6, <1>7
<1>9. TypeOK'
  BY <1>8 DEF IInv, TypeOK
<1> QED
  BY <1>2, <1>3, <1>8, <1>9 DEF IInv, KeysAreKept

-----------------------------------------------------------------------------
LEMMA InitIInv == Init => IInv
<1> SUFFICES ASSUME Init PROVE IInv
  OBVIOUS
<1>1. \A p \in Process : process[p] = Off /\ lock # p /\ socket # p
  BY ProcessAssumption DEF Init
<1>2. \A p \in Process : ~Migrates(p) /\ ~ReadsKeys(p) /\ ~HasKeys(p) /\ process[p].kind = "csrf"
  <2>1. Off.at = "off" /\ Off.kind = "csrf"
    BY DEF Off
  <2> QED
    BY <1>1, <2>1 DEF Migrates, ReadsKeys, HasKeys
<1>3. TypeOK
  <2>1. Off \in ProcessState
    BY DEF Off, ProcessState, Stage, Kind
  <2>2. schema \in Schema /\ tx = schema
    BY DEF Init, Schema
  <2> QED
    BY <2>1, <2>2, BoundAssumption DEF Init, TypeOK, ProcessState
<1>4. LockIsHeld
  BY <1>1, <1>2 DEF Init, LockIsHeld
<1>5. MigrationIsTrue
  <2>1. HasFirst(schema, schema.ledger) /\ schema.ledger <= tx.ledger
    BY VersionFacts DEF Init, HasFirst
  <2> QED
    BY <1>2, <2>1 DEF MigrationIsTrue, HolderIsTrue, Migrates, At
<1>6. ServersAreMigrated
  BY <1>1, <1>2 DEF ServersAreMigrated
<1>7. KeysAreKept
  <2>1. \A k \in Sealing : sealed[k] = {}
    BY DEF Init
  <2>2. \A k \in Sealing, p \in Process, s \in {"create", "write"} : ~HasKey(p, k) /\ ~Handles(p, s, k)
    BY <1>2 DEF HasKey, Handles, ReadsKeys, At
  <2> QED
    BY <1>2, <2>1, <2>2 DEF KeysAreKept, KeyIsKept
<1> QED
  BY <1>3, <1>4, <1>5, <1>6, <1>7 DEF IInv

LEMMA NextIInv == IInv /\ [Next]_vars => IInv'
<1>1. ASSUME IInv, NEW p \in Process, Dies(p) PROVE IInv'
  <2>1. faults' \in 0..MaxFaults
    BY <1>1, BoundAssumption DEF Dies, IInv, TypeOK
  <2> QED
    BY <1>1, <2>1, EndsKeeps DEF Dies
<1>2. ASSUME IInv, NEW p \in Process, Start(p) \/ Proceed(p) PROVE IInv'
  BY <1>2, StartKeeps, BeginKeeps, ReadVersionKeeps, ApplyKeeps, RecordKeeps, CommitKeeps, ReadKeyKeeps,
     CountSealedKeeps, CreateKeyKeeps, WriteKeyKeeps, ListenKeeps
     DEF Proceed, Migrate, New
<1>3. ASSUME IInv, NEW p \in Process, NEW k \in Sealing, Seal(p, k) \/ Erase(p, k) PROVE IInv'
  BY <1>3, DataKeeps DEF Seal, Erase, IInv, TypeOK
<1>4. ASSUME IInv, NEW k \in Kind, LoseKey(k) PROVE IInv'
  <2>1. faults' \in 0..MaxFaults
    BY <1>4, BoundAssumption DEF LoseKey, IInv, TypeOK
  <2> QED
    BY <1>4, <2>1, DataKeeps DEF LoseKey
<1>5. ASSUME IInv, UNCHANGED vars PROVE IInv'
  <2> USE DEF IInv, vars
  <2>1. TypeOK'
    BY <1>5 DEF TypeOK
  <2>2. LockIsHeld' /\ MigrationIsTrue' /\ ServersAreMigrated'
    BY <1>5 DEF LockIsHeld, Migrates, MigrationIsTrue, HolderIsTrue, HasFirst, At, ServersAreMigrated,
                ReadsKeys, HasKeys
  <2>3. KeysAreKept'
    BY <1>5 DEF KeysAreKept, KeyIsKept, HasKey, HasKeys, ReadsKeys, Handles, At
  <2> QED
    BY <1>5, <2>1, <2>2, <2>3
<1> QED
  BY <1>1, <1>2, <1>3, <1>4, <1>5 DEF Next

(* The inductive invariant holds of every state of the volume and its processes. *)
THEOREM Invariance == Spec => []IInv
  BY InitIInv, NextIInv, PTL DEF Spec

(* TypeOK: no migration is ever applied a second time, and no key is out of range. *)
THEOREM TypeCorrect == Spec => []TypeOK
  BY Invariance, PTL DEF IInv

(* LedgerIsTrue: however many binaries migrate, the ledger tells what the schema
   has had. *)
THEOREM LedgerTrue == Spec => []LedgerIsTrue
<1>1. IInv => LedgerIsTrue
  BY DEF IInv, MigrationIsTrue, HasFirst, LedgerIsTrue
<1> QED
  BY <1>1, Invariance, PTL

(* OpensMigrated: listeners and the control socket open on a schema that has all
   the migrations of the binary that opens them. *)
THEOREM MigratedBeforeOpen == Spec => []OpensMigrated
<1>1. IInv => OpensMigrated
  <2> SUFFICES ASSUME IInv, NEW p \in Process, At(p, "serve") \/ socket = p
               PROVE  schema.ledger >= Supported[p] /\ process[p].version = Supported[p]
    BY DEF OpensMigrated
  <2>1. process[p].version = Supported[p] /\ Supported[p] <= schema.ledger
    BY DEF IInv, ServersAreMigrated, HasKeys, At
  <2> QED
    BY <2>1, SchemaFacts, VersionFacts DEF IInv
<1> QED
  BY <1>1, Invariance, PTL

(* SealedIsReadable: a server that has its keys can open all that was sealed. *)
THEOREM SealedReadable == Spec => []SealedIsReadable
<1>1. IInv => SealedIsReadable
  <2> SUFFICES ASSUME IInv, NEW p \in Process, HasKeys(p), NEW k \in Sealing
               PROVE  sealed[k] \subseteq {process[p].cipher[k]}
    BY DEF SealedIsReadable, HasKeys
  <2> QED
    BY DEF IInv, KeysAreKept, KeyIsKept, HasKey
<1> QED
  BY <1>1, Invariance, PTL
=============================================================================
