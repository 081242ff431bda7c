-------------------------------- MODULE Startup --------------------------------
(***************************************************************************)
(* Starting the portal: schema migrations and key files                    *)
(* (cmd/waypoint/main.go run, internal/portal/db.go Migrate, app.go New,   *)
(* initDelivery of packs.go and initSecurity of security.go).              *)
(*                                                                         *)
(* Processes of several versions share one data volume: the server, which  *)
(* is started again whenever it ends, and the migrate command.  Each       *)
(* brings the schema to its own version under SQLite's write lock, then    *)
(* the server reads or makes its key files and opens its listeners.  A     *)
(* process may end at any step; SQLite rolls its transaction back, files   *)
(* stay as they are.                                                       *)
(***************************************************************************)
EXTENDS Integers

CONSTANTS Process, Server,   \* the processes, and those that run "serve"
          Supported,         \* number of migrations a process's binary embeds
          VPNEnabled,        \* whether a delivery key is configured
          None,
          MaxKeys, MaxFaults \* bounds: keys ever drawn, processes that die

ASSUME ProcessAssumption == Server \subseteq Process /\ None \notin Process
ASSUME SupportedAssumption == Supported \in [Process -> Nat \ {0}]
ASSUME BoundAssumption == VPNEnabled \in BOOLEAN /\ MaxKeys \in Nat /\ MaxFaults \in Nat

Version == UNION {1..Supported[p] : p \in Process}
Sealing == IF VPNEnabled THEN {"delivery", "account"} ELSE {"account"}
Kind == Sealing \cup {"csrf"}
Key == 1..MaxKeys
Missing == 0
Short == -1     \* a file that was created, and its bytes not (all) written

VARIABLES
    schema,   \* committed: how often each migration was applied, and the ledger's maximum
    sealed,   \* committed: the keys that the rows of each kind were sealed with
    lock,     \* the process that holds SQLite's write lock, or None
    tx,       \* the schema as the holder's transaction sees it
    file,     \* the key file of each kind
    process,  \* what each process does next, and what it has read
    socket,   \* the process that control.sock leads to, or None
    keys, faults  \* history: keys drawn, processes that died

vars == <<schema, sealed, lock, tx, file, process, socket, keys, faults>>

Off == [at |-> "off", version |-> 0, kind |-> "csrf", cipher |-> [k \in Kind |-> 0]]
Init ==
    /\ schema = [applied |-> [v \in Version |-> 0], ledger |-> 0]
    /\ sealed = [k \in Sealing |-> {}]
    /\ lock = None /\ tx = schema
    /\ file = [k \in Kind |-> Missing]
    /\ process = [p \in Process |-> Off]
    /\ socket = None /\ keys = 0 /\ faults = 0

At(p, stage) == process[p].at = stage
Goto(p, stage) == process' = [process EXCEPT ![p].at = stage]

(* The process ends: its transaction is rolled back, its listeners close. *)
Ends(p) ==
    /\ process' = [process EXCEPT ![p] = Off]
    /\ lock' = IF lock = p THEN None ELSE lock
    /\ tx' = IF lock = p THEN schema ELSE tx
    /\ socket' = IF socket = p THEN None ELSE socket

-----------------------------------------------------------------------------
(* Migrate *)
Start(p) ==
    /\ At(p, "off") /\ Goto(p, "begin")
    /\ UNCHANGED <<schema, sealed, lock, tx, file, socket, keys, faults>>

Begin_Deferred(p) ==
    /\ At(p, "begin") /\ tx' = schema
    /\ Goto(p, "version")
    /\ UNCHANGED <<schema, sealed, lock, file, socket, keys, faults>>
(* BEGIN IMMEDIATE waits for the write lock. *)
Begin(p) ==
    /\ At(p, "begin") /\ lock = None
    /\ lock' = p /\ tx' = schema
    /\ Goto(p, "version")
    /\ UNCHANGED <<schema, sealed, file, socket, keys, faults>>

Unsupported_Never(p) == FALSE
Unsupported_UpToDate(p) == tx.ledger >= Supported[p]
Unsupported(p) == tx.ledger > Supported[p]
ReadVersion(p) ==
    /\ At(p, "version")
    /\ IF Unsupported(p) THEN Ends(p)
       ELSE /\ process' = [process EXCEPT ![p].version = tx.ledger, ![p].at = "apply"]
            /\ UNCHANGED <<lock, tx, socket>>
    /\ UNCHANGED <<schema, sealed, file, keys, faults>>

Apply(p) ==
    LET v == process[p].version + 1
    IN  /\ At(p, "apply") /\ v <= Supported[p]
        /\ tx' = [tx EXCEPT !.applied[v] = @ + 1]
        /\ Goto(p, "record")
        /\ UNCHANGED <<schema, sealed, lock, file, socket, keys, faults>>

Record(p) ==
    LET v == process[p].version + 1
    IN  /\ At(p, "record")
        /\ tx' = [tx EXCEPT !.ledger = v]
        /\ process' = [process EXCEPT ![p].version = v, ![p].at = "apply"]
        /\ UNCHANGED <<schema, sealed, lock, file, socket, keys, faults>>

Commit_NotWritten(p) ==
    /\ At(p, "apply") /\ process[p].version >= Supported[p]
    /\ lock' = None
    /\ IF p \in Server THEN Goto(p, "read") ELSE process' = [process EXCEPT ![p] = Off]
    /\ UNCHANGED <<schema, sealed, tx, file, socket, keys, faults>>
Commit(p) ==
    /\ At(p, "apply") /\ process[p].version >= Supported[p]
    /\ schema' = tx /\ lock' = None
    /\ IF p \in Server THEN Goto(p, "read") ELSE process' = [process EXCEPT ![p] = Off]
    /\ UNCHANGED <<sealed, tx, file, socket, keys, faults>>

-----------------------------------------------------------------------------
(* Key files: csrf.key, then delivery.key, then account.key *)
Following(k) == CASE k = "csrf" /\ VPNEnabled -> "delivery"
                  [] k = "csrf" /\ ~VPNEnabled -> "account"
                  [] k = "delivery" -> "account"
                  [] OTHER -> "none"
Loaded(p, key) ==
    LET k == process[p].kind
        loaded == [process[p] EXCEPT !.cipher[k] = key]
    IN  process' = [process EXCEPT ![p] =
            IF Following(k) = "none" THEN [loaded EXCEPT !.at = "control"]
            ELSE [loaded EXCEPT !.at = "read", !.kind = Following(k)]]

ReadKey(p) ==
    LET k == process[p].kind
    IN  /\ At(p, "read")
        /\ \/ file[k] = Missing /\ UNCHANGED <<lock, tx, socket>>
              /\ Goto(p, IF k \in Sealing THEN "count" ELSE "create")
           \/ file[k] = Short /\ Ends(p)
           \/ file[k] \in Key /\ Loaded(p, file[k]) /\ UNCHANGED <<lock, tx, socket>>
        /\ UNCHANGED <<schema, sealed, file, keys, faults>>

(* A key is made only while nothing was sealed with a lost one. *)
CountSealed(p) ==
    /\ At(p, "count")
    /\ IF sealed[process[p].kind] # {} THEN Ends(p)
       ELSE Goto(p, "create") /\ UNCHANGED <<lock, tx, socket>>
    /\ UNCHANGED <<schema, sealed, file, keys, faults>>

CreateKey_Overwrites(p) ==
    /\ At(p, "create")
    /\ file' = [file EXCEPT ![process[p].kind] = Short]
    /\ Goto(p, "write")
    /\ UNCHANGED <<schema, sealed, lock, tx, socket, keys, faults>>
(* O_EXCL, except for csrf.key *)
CreateKey(p) ==
    LET k == process[p].kind
    IN  /\ At(p, "create")
        /\ IF k \in Sealing /\ file[k] # Missing THEN Ends(p) /\ UNCHANGED file
           ELSE /\ file' = [file EXCEPT ![k] = Short]
                /\ Goto(p, "write") /\ UNCHANGED <<lock, tx, socket>>
        /\ UNCHANGED <<schema, sealed, keys, faults>>

(* Nothing asks which CSRF key it is: it counts as the first. *)
WriteKey(p) ==
    LET k == process[p].kind
        key == IF k \in Sealing THEN keys + 1 ELSE 1
    IN  /\ At(p, "write") /\ key <= MaxKeys
        /\ keys' = IF k \in Sealing THEN key ELSE keys
        /\ file' = [file EXCEPT ![k] = key]
        /\ Loaded(p, key)
        /\ UNCHANGED <<schema, sealed, lock, tx, socket, faults>>

-----------------------------------------------------------------------------
(* StartVPNControl replaces the socket it finds. *)
StartControl(p) ==
    /\ At(p, "control")
    /\ socket' = IF VPNEnabled THEN p ELSE socket
    /\ Goto(p, "listen")
    /\ UNCHANGED <<schema, sealed, lock, tx, file, keys, faults>>

(* The address is bound last; a second server finds it taken and ends. *)
Listen(p) ==
    /\ At(p, "listen")
    /\ IF \E q \in Process : At(q, "serve") THEN Ends(p)
       ELSE Goto(p, "serve") /\ UNCHANGED <<lock, tx, socket>>
    /\ UNCHANGED <<schema, sealed, file, keys, faults>>

(* While it serves, rows are sealed, and erased. *)
Seal(p, k) ==
    /\ At(p, "serve") /\ lock = None
    /\ sealed' = [sealed EXCEPT ![k] = @ \cup {process[p].cipher[k]}]
    /\ UNCHANGED <<schema, lock, tx, file, process, socket, keys, faults>>
Erase(p, k) ==
    /\ At(p, "serve") /\ lock = None
    /\ sealed' = [sealed EXCEPT ![k] = {}]
    /\ UNCHANGED <<schema, lock, tx, file, process, socket, keys, faults>>

-----------------------------------------------------------------------------
(* A process is stopped, is killed, or fails in a step (a lock it waited for *)
(* too long, a failing statement, a full disk).                              *)
Dies(p) ==
    /\ ~At(p, "off") /\ faults < MaxFaults
    /\ faults' = faults + 1 /\ Ends(p)
    /\ UNCHANGED <<schema, sealed, file, keys>>

(* While nothing runs, the operator brings up volumes without a key file. *)
LoseKey(k) ==
    /\ \A p \in Process : At(p, "off")
    /\ file[k] # Missing /\ faults < MaxFaults
    /\ faults' = faults + 1 /\ file' = [file EXCEPT ![k] = Missing]
    /\ UNCHANGED <<schema, sealed, lock, tx, process, socket, keys>>

Migrate(p) == Begin(p) \/ ReadVersion(p) \/ Apply(p) \/ Record(p) \/ Commit(p)
New(p) == ReadKey(p) \/ CountSealed(p) \/ CreateKey(p) \/ WriteKey(p)
Proceed(p) == Migrate(p) \/ New(p) \/ StartControl(p) \/ Listen(p)

Next ==
    \/ \E p \in Process : Start(p) \/ Proceed(p) \/ Dies(p) \/ \E k \in Sealing : Seal(p, k) \/ Erase(p, k)
    \/ \E k \in Kind : LoseKey(k)

Spec == Init /\ [][Next]_vars
(* A process goes on, a waiting transaction gets the lock sooner or later, and *)
(* the server is started again whenever it ends (compose.yaml:33).             *)
FairSpec ==
    /\ Spec
    /\ \A p \in Process : WF_vars(Proceed(p)) /\ SF_vars(Begin(p))
    /\ \A p \in Server : WF_vars(Start(p))

-----------------------------------------------------------------------------
Stage == {"off", "begin", "version", "apply", "record", "read", "count", "create", "write",
          "control", "listen", "serve"}
Schema == [applied : [Version -> 0..2], ledger : Version \cup {0}]
(* The volume and every process hold values of their types. *)
TypeOK ==
    /\ schema \in Schema /\ tx \in Schema
    /\ sealed \in [Sealing -> SUBSET Key]
    /\ lock \in Process \cup {None} /\ socket \in Server \cup {None}
    /\ file \in [Kind -> Key \cup {Missing, Short}]
    /\ process \in [Process -> [at : Stage, version : Version \cup {0}, kind : Kind,
                                cipher : [Kind -> Key \cup {0}]]]
    /\ keys \in 0..MaxKeys /\ faults \in 0..MaxFaults

(* However many processes migrate at once, and wherever one dies, the ledger  *)
(* tells exactly which migrations the committed schema has had, each of them  *)
(* once (db.go:51-55, operations.md:7: transactional, no partial changes).    *)
LedgerIsTrue ==
    \A v \in Version : schema.applied[v] = IF v <= schema.ledger THEN 1 ELSE 0

(* No listener and no control socket opens on a schema that lacks a migration *)
(* of the binary that opens it, or that had more of them than it knows when   *)
(* it had the lock (security.md:68).                                          *)
OpensMigrated ==
    \A p \in Process : At(p, "serve") \/ socket = p =>
        schema.ledger >= Supported[p] /\ process[p].version = Supported[p]

(* A server that has its keys can open whatever is sealed in the tables,      *)
(* through deaths while a key file was made, lost key volumes and servers     *)
(* started side by side (accounts-email.md:46, vpn.md:67: start-up fails      *)
(* rather than generating a replacement).                                     *)
SealedIsReadable ==
    \A p \in Process : process[p].at \in {"control", "listen", "serve"} =>
        \A k \in Sealing : sealed[k] \subseteq {process[p].cipher[k]}

(* The portal comes up and comes up again, unless starting is refused for     *)
(* good: only newer binaries fit the schema, a key is lost that rows were     *)
(* sealed with, or a server died while it made a key file.                    *)
Refused ==
    \/ \A p \in Server : schema.ledger > Supported[p]
    \/ \E k \in Kind : file[k] = Short
    \/ \E k \in Sealing : file[k] = Missing /\ sealed[k] # {}
ComesUp == <>[]Refused \/ []<>(\E p \in Server : At(p, "serve"))
=============================================================================
