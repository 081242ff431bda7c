--------------------------- MODULE MailOutbox_proofs ---------------------------
(***************************************************************************)
(* Proofs about MailOutbox, for any number of messages, crashes and        *)
(* retries.  What makes them go through is that the lease is held by the   *)
(* attempt in progress and by no other, so that the worker's copy of a row *)
(* is the row; and that what barred a message ever since its claim can     *)
(* only be what its attempt has still to ask about.                        *)
(***************************************************************************)
EXTENDS MailOutbox, TLAPS

Attempt == [step : Reason \cup {"send", "record"}, message : Message, ok : BOOLEAN,
            attempts : Nat, payload : BOOLEAN]
WorkerOK == worker \in {Idle, [step |-> "claim"]} \cup Attempt
Working(m) == worker.step \notin {"idle", "claim"} /\ worker.message = m
Delivered(m) == Working(m) /\ worker.step = "record"

(* The attempt in progress, and no other, holds the lease of its message, and
   nobody writes a row that is leased. *)
LeaseIsOwn(m) ==
    /\ row[m].lease = "held" => Working(m)
    /\ Working(m) => /\ row[m].state = "sending" /\ row[m].lease = "held"
                     /\ worker.attempts = row[m].attempts /\ worker.payload = row[m].payload

(* The row counts the deliveries tried, but for the one that is to be recorded,
   and a message that is to be sent has not used them up. *)
TriesAreCounted(m) ==
    /\ row[m].state \in {"none", "queued", "sending"} => row[m].attempts < MaxAttempts
    /\ tried[m] <= IF Delivered(m) THEN row[m].attempts + 1 ELSE row[m].attempts
    /\ Delivered(m) => tried[m] >= 1
    /\ accepted[m] = IF row[m].state = "sent" \/ (Delivered(m) /\ worker.ok) THEN 1 ELSE 0

SecretIsKept(m) ==
    /\ row[m].state \in {"sent", "cancelled"} => ~row[m].payload
    /\ row[m].state \in {"queued", "sending", "failed"} => row[m].payload = Sealed(m)

(* What an attempt has still to ask about. *)
ToAsk(step) ==
    CASE step = "member" -> Reason
      [] step = "address" -> Reason \ {"member"}
      [] step = "content" -> {"content", "link"}
      [] step = "link" -> {"link"}
      [] OTHER -> {}
ChecksHaveHeld ==
    \A m \in Message : Working(m) => barred \subseteq bars[m] /\ barred \subseteq ToAsk(worker.step)

RowIsRight(m) == LeaseIsOwn(m) /\ TriesAreCounted(m) /\ SecretIsKept(m)
IInv == TypeOK /\ WorkerOK /\ (\A m \in Message : RowIsRight(m)) /\ ChecksHaveHeld

RowState == [state : {"none", "queued", "sending", "sent", "failed", "cancelled"},
             attempts : 0..MaxAttempts, payload : BOOLEAN, lease : {"none", "held", "lost"}]

-----------------------------------------------------------------------------
(* The worker is idle, about to claim, or at an attempt on some message. *)
LEMMA WorkerFacts ==
    ASSUME WorkerOK
    PROVE  /\ worker = Idle \/ worker = [step |-> "claim"] \/ (worker \in Attempt /\ Working(worker.message))
           /\ worker.step \in Reason \cup {"idle", "claim", "send", "record"}
           /\ worker.step \notin {"idle", "claim"} => worker.message \in Message
           /\ worker.step = "idle" => worker = Idle
           /\ worker.step = "claim" => worker = [step |-> "claim"]
  BY DEF WorkerOK, Idle, Attempt, Working, Reason

LEMMA RowFacts ==
    ASSUME TypeOK, NEW m \in Message
    PROVE  /\ row[m] \in RowState /\ row[m].attempts \in Nat /\ row[m].attempts <= MaxAttempts
           /\ MaxAttempts \in Nat /\ tried[m] \in Nat /\ accepted[m] \in Nat
<1>1. row[m] \in RowState /\ tried[m] \in Nat /\ accepted[m] \in Nat
  BY DEF TypeOK, RowState
<1>2. row[m].attempts \in 0..MaxAttempts
  BY <1>1 DEF RowState
<1> QED
  BY <1>1, <1>2, BoundAssumption

LEMMA FaultFacts == TypeOK /\ Fault => faults' \in Nat
  BY DEF TypeOK, Fault

(* What a step need not look at: a row, its counts, and the checks. *)
LEMMA RowStands ==
    ASSUME NEW m \in Message, RowIsRight(m), row'[m] = row[m], tried'[m] = tried[m], accepted'[m] = accepted[m],
           worker' = worker \/ (~Working(m) /\ ~Working(m)')
    PROVE  RowIsRight(m)'
<1>1. LeaseIsOwn(m)'
  BY DEF RowIsRight, LeaseIsOwn, Working
<1>2. TriesAreCounted(m)'
  BY DEF RowIsRight, TriesAreCounted, Delivered, Working
<1>3. SecretIsKept(m)'
  BY DEF RowIsRight, SecretIsKept
<1> QED
  BY <1>1, <1>2, <1>3 DEF RowIsRight

LEMMA ChecksStand ==
    ASSUME ChecksHaveHeld, worker' = worker \/ worker'.step \in {"idle", "claim"}, UNCHANGED <<bars, barred>>
    PROVE  ChecksHaveHeld'
  BY DEF ChecksHaveHeld, Working

-----------------------------------------------------------------------------
(* The result of an attempt is written by the attempt that holds the lease. *)
LEMMA FinishKeeps ==
    ASSUME IInv, NEW state \in {"queued", "sent", "failed", "cancelled"}, NEW clear \in BOOLEAN,
           Finish(state, clear), worker.step \notin {"idle", "claim"}, UNCHANGED history, faults' \in Nat,
           clear <=> state \in {"sent", "cancelled"},
           state = "queued" => worker.attempts < MaxAttempts - 1,
           state = "sent" <=> worker.step = "record" /\ worker.ok
    PROVE  IInv'
<1>0. PICK m \in Message : m = worker.message
  BY WorkerFacts DEF IInv
<1> DEFINE new == [state |-> state, attempts |-> row[m].attempts + 1,
                   payload |-> row[m].payload /\ ~clear, lease |-> "none"]
<1>1. m = worker.message /\ Working(m) /\ worker' = Idle /\ UNCHANGED <<env, retries, barred>>
      /\ ready' = [ready EXCEPT ![m] = FALSE]
  BY <1>0 DEF Working, Finish
<1>2. row[m].lease = "held" /\ row[m].state = "sending" /\ worker.payload = row[m].payload
      /\ worker.attempts = row[m].attempts /\ row[m].attempts < MaxAttempts
  BY <1>1 DEF IInv, RowIsRight, LeaseIsOwn, TriesAreCounted
<1>3. row[m] \in RowState /\ row[m].attempts \in Nat /\ MaxAttempts \in Nat /\ tried[m] \in Nat
  BY <1>1, RowFacts DEF IInv
<1>4. row' = [row EXCEPT ![m] = new]
  BY <1>1, <1>2 DEF Finish
<1>5. row[m].payload = Sealed(m) /\ row[m].payload \in BOOLEAN
  BY <1>1, <1>2, <1>3 DEF IInv, RowIsRight, SecretIsKept, RowState
<1>6. new \in RowState
  BY <1>2, <1>3, <1>5 DEF RowState
<1>7. row \in [Message -> RowState] /\ ready \in [Message -> BOOLEAN]
  BY DEF IInv, TypeOK, RowState
<1>8. row' \in [Message -> RowState] /\ row'[m] = new /\ \A n \in Message \ {m} : row'[n] = row[n]
  BY <1>1, <1>4, <1>6, <1>7
<1>9. TypeOK' /\ WorkerOK'
  <2>1. worker' = Idle /\ worker'.step = "idle"
    BY <1>1 DEF Idle
  <2> QED
    BY <1>1, <1>7, <1>8, <2>1 DEF IInv, TypeOK, RowState, WorkerOK, env, history
<1>10. \A n \in Message : ~Working(n)'
  BY <1>1 DEF Working, Idle
<1>11. RowIsRight(m)'
  <2>0. row'[m].state = state /\ row'[m].attempts = row[m].attempts + 1 /\ row'[m].lease = "none"
    BY <1>8
  <2>1. LeaseIsOwn(m)'
    BY <1>10, <2>0 DEF LeaseIsOwn
  <2>2. SecretIsKept(m)'
    <3>1. row'[m].payload = (row[m].payload /\ ~clear)
      BY <1>8
    <3>2. CASE clear
      BY <2>0, <3>1, <3>2 DEF SecretIsKept
    <3>3. CASE ~clear
      BY <1>5, <2>0, <3>1, <3>3 DEF SecretIsKept, Sealed
    <3> QED
      BY <3>2, <3>3
  <2>3. /\ tried[m] <= row[m].attempts + 1
        /\ accepted[m] = IF worker.step = "record" /\ worker.ok THEN 1 ELSE 0
    BY <1>1, <1>2, <1>3 DEF IInv, RowIsRight, TriesAreCounted, Delivered
  <2>4. TriesAreCounted(m)'
    BY <1>1, <1>2, <1>3, <1>10, <2>0, <2>3 DEF TriesAreCounted, Delivered, history
  <2> QED
    BY <2>1, <2>2, <2>4 DEF RowIsRight
<1>12. \A n \in Message \ {m} : RowIsRight(n)'
  BY <1>1, <1>8, <1>10, RowStands DEF IInv, Working, history
<1>13. ChecksHaveHeld'
  BY <1>10 DEF ChecksHaveHeld
<1> QED
  BY <1>9, <1>11, <1>12, <1>13 DEF IInv

LEMMA CheckPasses ==
    ASSUME IInv, NEW r \in Reason, worker.step = r, r \notin bars[worker.message], Step(After(r)),
           UNCHANGED <<env, row, ready, faults, retries, history, barred>>
    PROVE  IInv'
<1> DEFINE m == worker.message
<1>1. /\ worker \in Attempt /\ m \in Message /\ Working(m)
      /\ r \notin {"idle", "claim", "record"} /\ After(r) \in (Reason \cup {"send"}) \ {"idle", "claim", "record"}
  BY WorkerFacts DEF IInv, Working, Reason, After, Idle
<1>2. /\ worker' \in Attempt /\ worker'.step = After(r) /\ worker'.message = m /\ worker'.ok = worker.ok
      /\ worker'.attempts = worker.attempts /\ worker'.payload = worker.payload
  BY <1>1 DEF Step, Attempt
<1>3. TypeOK' /\ WorkerOK'
  BY <1>1, <1>2 DEF IInv, TypeOK, WorkerOK, env, history
<1>4. \A n \in Message : (Working(n)' <=> Working(n)) /\ ~Delivered(n)' /\ ~Delivered(n)
  BY <1>1, <1>2 DEF Working, Delivered
<1>5. \A n \in Message : RowIsRight(n)'
  <2> SUFFICES ASSUME NEW n \in Message PROVE RowIsRight(n)'
    OBVIOUS
  <2>1. LeaseIsOwn(n)'
    BY <1>2, <1>4 DEF IInv, RowIsRight, LeaseIsOwn
  <2>2. TriesAreCounted(n)' /\ SecretIsKept(n)'
    BY <1>4 DEF IInv, RowIsRight, TriesAreCounted, SecretIsKept, history
  <2> QED
    BY <2>1, <2>2 DEF RowIsRight
<1>6. ChecksHaveHeld'
  <2>1. barred \subseteq bars[m] /\ barred \subseteq ToAsk(r)
    BY <1>1 DEF IInv, ChecksHaveHeld
  <2>2. barred \subseteq ToAsk(After(r))
    BY <2>1 DEF ToAsk, After, Reason
  <2> QED
    BY <1>1, <1>2, <2>1, <2>2 DEF ChecksHaveHeld, Working, env
<1> QED
  BY <1>3, <1>5, <1>6 DEF IInv

LEMMA ChecksKeep ==
    ASSUME IInv, NEW r \in Reason, Check(r) \/ QueryFails(r) PROVE IInv'
<1>1. worker.step = r /\ worker.step \notin {"idle", "claim", "record"}
  BY DEF Check, QueryFails, Reason
<1>2. CASE Check(r) /\ r \in bars[worker.message]
  <2>1. Finish("cancelled", TRUE) /\ UNCHANGED history /\ faults' \in Nat
    BY <1>2 DEF Check, IInv, TypeOK
  <2> QED
    BY <1>1, <2>1, FinishKeeps
<1>3. CASE Check(r) /\ r \notin bars[worker.message]
  BY <1>1, <1>3, CheckPasses DEF Check
<1>4. CASE QueryFails(r)
  <2>1. Finish("cancelled", TRUE) /\ UNCHANGED history
    BY <1>4 DEF QueryFails
  <2> QED
    BY <1>1, <1>4, <2>1, FaultFacts, FinishKeeps DEF QueryFails, IInv
<1> QED
  BY <1>2, <1>3, <1>4

-----------------------------------------------------------------------------
LEMMA EnqueueKeeps == ASSUME IInv, NEW m \in Message, Enqueue(m) PROVE IInv'
<1> DEFINE new == [row[m] EXCEPT !.state = "queued", !.payload = Sealed(m)]
<1>1. /\ row[m].state = "none" /\ ready' = [ready EXCEPT ![m] = TRUE]
      /\ UNCHANGED <<env, worker, faults, retries, history, barred>>
  BY DEF Enqueue
<1>2. row[m] \in RowState /\ row \in [Message -> RowState]
  BY RowFacts DEF IInv, TypeOK, RowState
<1>3. Sealed(m) \in BOOLEAN
  BY DEF Sealed
<1>4. row' = [row EXCEPT ![m] = new]
  BY <1>2 DEF Enqueue
<1>5. /\ new \in RowState /\ new.state = "queued" /\ new.payload = Sealed(m) /\ new.lease = row[m].lease
      /\ new.attempts = row[m].attempts
  BY <1>2, <1>3 DEF RowState
<1> HIDE DEF new
<1>6. row' \in [Message -> RowState] /\ row'[m] = new /\ \A n \in Message \ {m} : row'[n] = row[n]
  BY <1>2, <1>4, <1>5
<1>7. TypeOK' /\ WorkerOK'
  BY <1>1, <1>6 DEF IInv, TypeOK, RowState, WorkerOK, env, history
<1>8. RowIsRight(m)'
  <2>1. LeaseIsOwn(m)'
    BY <1>1, <1>5, <1>6 DEF IInv, RowIsRight, LeaseIsOwn, Working
  <2>2. TriesAreCounted(m)'
    BY <1>1, <1>5, <1>6 DEF IInv, RowIsRight, LeaseIsOwn, TriesAreCounted, Delivered, Working, history
  <2>3. SecretIsKept(m)'
    BY <1>5, <1>6 DEF SecretIsKept, Sealed
  <2> QED
    BY <2>1, <2>2, <2>3 DEF RowIsRight
<1>9. \A n \in Message \ {m} : RowIsRight(n)'
  BY <1>1, <1>6, RowStands DEF IInv, history
<1>10. ChecksHaveHeld'
  BY <1>1, ChecksStand DEF IInv, env
<1> QED
  BY <1>7, <1>8, <1>9, <1>10 DEF IInv

(* A retry starts the count of a failed message anew; its secret is still there. *)
LEMMA RetryKeeps == ASSUME IInv, NEW m \in Message, Retry(m) PROVE IInv'
<1> DEFINE new == [row[m] EXCEPT !.state = "queued", !.attempts = 0]
<1>1. /\ row[m].state = "failed" /\ ready' = [ready EXCEPT ![m] = TRUE]
      /\ tried' = [tried EXCEPT ![m] = 0] /\ retries' = retries + 1
      /\ UNCHANGED <<env, worker, faults, accepted, barred>>
  BY DEF Retry, Requeued
<1>2. row[m] \in RowState /\ row \in [Message -> RowState] /\ tried \in [Message -> Nat] /\ retries \in Nat
  BY RowFacts DEF IInv, TypeOK, RowState
<1>3. row' = [row EXCEPT ![m] = new]
  BY <1>2 DEF Retry, Requeued
<1>4. /\ new \in RowState /\ new.state = "queued" /\ new.payload = row[m].payload /\ new.lease = row[m].lease
      /\ new.attempts = 0
  <2>1. 0 \in 0..MaxAttempts
    BY BoundAssumption
  <2> QED
    BY <1>2, <2>1 DEF RowState
<1> HIDE DEF new
<1>5. /\ row' \in [Message -> RowState] /\ row'[m] = new /\ \A n \in Message \ {m} : row'[n] = row[n]
      /\ tried' \in [Message -> Nat] /\ tried'[m] = 0 /\ \A n \in Message \ {m} : tried'[n] = tried[n]
  BY <1>1, <1>2, <1>3, <1>4
<1>6. TypeOK' /\ WorkerOK'
  BY <1>1, <1>2, <1>5 DEF IInv, TypeOK, RowState, WorkerOK, env
<1>7. RowIsRight(m)'
  <2>1. LeaseIsOwn(m)' /\ ~Working(m) /\ ~Working(m)'
    BY <1>1, <1>4, <1>5 DEF IInv, RowIsRight, LeaseIsOwn, Working
  <2>2. TriesAreCounted(m)'
    BY <1>1, <1>4, <1>5, <2>1, BoundAssumption DEF IInv, RowIsRight, TriesAreCounted, Delivered
  <2>3. SecretIsKept(m)'
    BY <1>1, <1>4, <1>5 DEF IInv, RowIsRight, SecretIsKept
  <2> QED
    BY <2>1, <2>2, <2>3 DEF RowIsRight
<1>8. \A n \in Message \ {m} : RowIsRight(n)'
  BY <1>1, <1>5, RowStands DEF IInv
<1>9. ChecksHaveHeld'
  BY <1>1, ChecksStand DEF IInv, env
<1> QED
  BY <1>6, <1>7, <1>8, <1>9 DEF IInv

(* A bar that comes or goes is noted for the message that is at work. *)
LEMMA ForbidKeeps ==
    ASSUME IInv, NEW m \in Message, NEW B \in SUBSET Reason, Forbid(m, B) PROVE IInv'
<1>1. bars' = [bars EXCEPT ![m] = B] /\ UNCHANGED <<mailOn, row, ready, worker, faults, retries, history>>
  BY DEF Forbid
<1>2. bars \in [Message -> SUBSET Reason] /\ barred \in SUBSET Reason
  BY DEF IInv, TypeOK
<1>3. /\ bars' \in [Message -> SUBSET Reason] /\ bars'[m] = B
      /\ \A n \in Message \ {m} : bars'[n] = bars[n]
  BY <1>1, <1>2
<1>4. barred' = IF Working(m) THEN barred \cap B ELSE barred
  BY DEF Forbid, Working
<1>5. TypeOK' /\ WorkerOK'
  BY <1>1, <1>2, <1>3, <1>4 DEF IInv, TypeOK, WorkerOK, history
<1>6. \A n \in Message : RowIsRight(n)'
  BY <1>1, RowStands DEF IInv, history
<1>7. ChecksHaveHeld'
  <2> SUFFICES ASSUME NEW n \in Message, Working(n)
               PROVE  barred' \subseteq bars'[n] /\ barred' \subseteq ToAsk(worker.step)
    BY <1>1 DEF ChecksHaveHeld, Working
  <2>1. barred \subseteq bars[n] /\ barred \subseteq ToAsk(worker.step)
    BY DEF IInv, ChecksHaveHeld
  <2>2. n = m => barred' = barred \cap B
    BY <1>4
  <2>3. n # m => barred' = barred
    BY <1>4 DEF Working
  <2> QED
    BY <1>3, <2>1, <2>2, <2>3
<1> QED
  BY <1>5, <1>6, <1>7 DEF IInv

(* The settings, the clock and the worker's own tick touch no message. *)
LEMMA ElseKeeps ==
    ASSUME IInv, UNCHANGED <<bars, row, faults, retries, history, barred>>, mailOn' \in BOOLEAN,
           ready' \in [Message -> BOOLEAN],
           worker' = worker \/ (worker = Idle /\ worker' = [step |-> "claim"])
    PROVE  IInv'
<1>1. worker' = worker \/ (worker.step = "idle" /\ worker'.step = "claim")
  BY DEF Idle
<1>2. TypeOK' /\ WorkerOK'
  BY <1>1 DEF IInv, TypeOK, WorkerOK, history
<1>3. \A n \in Message : RowIsRight(n)'
  BY <1>1, RowStands DEF IInv, Working, history
<1>4. ChecksHaveHeld'
  BY <1>1, ChecksStand DEF IInv
<1> QED
  BY <1>2, <1>3, <1>4 DEF IInv

-----------------------------------------------------------------------------
(* When the worker claims, no lease is held: the messages whose leases ran out
   are those of attempts that were cut off. *)
LEMMA ClaimKeeps == ASSUME IInv, Claim PROVE IInv'
<1>1. worker.step = "claim" /\ \A n \in Message : ~Working(n) /\ row[n].lease # "held"
  BY DEF Claim, Working, IInv, RowIsRight, LeaseIsOwn
<1>2. CASE Due = {}
  <2>1. worker' = Idle /\ worker'.step = "idle" /\ UNCHANGED <<env, row, ready, faults, retries, history, barred>>
    BY <1>2 DEF Claim, Idle
  <2>2. TypeOK' /\ WorkerOK'
    BY <2>1 DEF IInv, TypeOK, WorkerOK, env, history
  <2>3. \A n \in Message : RowIsRight(n)'
    BY <1>1, <2>1, RowStands DEF IInv, Working, history
  <2>4. ChecksHaveHeld'
    BY <2>1, ChecksStand DEF IInv, env
  <2> QED
    BY <2>2, <2>3, <2>4 DEF IInv
<1>3. CASE Due # {}
  <2>1. PICK m \in Due :
            /\ row' = [n \in Message |->
                        IF n = m THEN [row[n] EXCEPT !.state = "sending", !.lease = "held"]
                        ELSE IF n \in Orphans THEN [row[n] EXCEPT !.state = "queued", !.lease = "none"]
                        ELSE row[n]]
            /\ ready' = [ready EXCEPT ![m] = FALSE]
            /\ worker' = [step |-> "member", message |-> m, ok |-> FALSE,
                          attempts |-> row[m].attempts, payload |-> row[m].payload]
            /\ barred' = bars[m]
    BY <1>3 DEF Claim
  <2>2. /\ m \in Message /\ row[m].state \in {"queued", "sending"}
        /\ \A n \in Orphans : n \in Message /\ row[n].state = "sending"
        /\ UNCHANGED <<env, faults, retries, history>>
    BY <2>1 DEF Due, Orphans, Claim
  <2>3. \A n \in Message : row[n] \in RowState
    BY RowFacts DEF IInv
  <2>4. \A n \in Message :
          /\ row'[n] \in RowState /\ row'[n].attempts = row[n].attempts /\ row'[n].payload = row[n].payload
          /\ n = m => row'[n].state = "sending" /\ row'[n].lease = "held"
          /\ n # m /\ n \in Orphans => row'[n].state = "queued" /\ row'[n].lease = "none"
          /\ n # m /\ n \notin Orphans => row'[n] = row[n]
    BY <2>1, <2>3 DEF RowState
  <2>5. row' \in [Message -> RowState]
    BY <2>1, <2>4
  <2>6. /\ worker' \in Attempt /\ worker'.step = "member" /\ worker'.message = m
        /\ worker'.attempts = row[m].attempts /\ worker'.payload = row[m].payload
    <3>1. row[m].attempts \in Nat /\ row[m].payload \in BOOLEAN
      BY <2>2, <2>3, RowFacts DEF IInv, RowState
    <3> QED
      BY <2>1, <2>2, <3>1 DEF Attempt, Reason
  <2>7. \A n \in Message : (Working(n)' <=> n = m) /\ ~Delivered(n)' /\ ~Delivered(n)
    BY <1>1, <2>2, <2>6 DEF Working, Delivered
  <2>8. TypeOK' /\ WorkerOK'
    BY <2>1, <2>2, <2>5, <2>6 DEF IInv, TypeOK, RowState, WorkerOK, Reason, env, history
  <2>9. ASSUME NEW n \in Message PROVE RowIsRight(n)'
    <3>1. LeaseIsOwn(n)'
      BY <1>1, <2>4, <2>6, <2>7 DEF LeaseIsOwn
    <3>2. /\ row[n].state \in {"queued", "sending"} /\ row'[n].state \in {"queued", "sending"}
          \/ row'[n].state = row[n].state
      BY <2>2, <2>4
    <3>3. TriesAreCounted(n)'
      BY <2>2, <2>4, <2>7, <3>2 DEF IInv, RowIsRight, TriesAreCounted, history
    <3>4. SecretIsKept(n)'
      BY <2>4, <3>2 DEF IInv, RowIsRight, SecretIsKept
    <3> QED
      BY <3>1, <3>3, <3>4 DEF RowIsRight
  <2>10. ChecksHaveHeld'
    BY <2>1, <2>2, <2>6, <2>7 DEF ChecksHaveHeld, ToAsk, IInv, TypeOK, env
  <2> QED
    BY <2>8, <2>9, <2>10 DEF IInv
<1> QED
  BY <1>2, <1>3

-----------------------------------------------------------------------------
LEMMA SendKeeps == ASSUME IInv, Send PROVE IInv'
<1>1. PICK m \in Message : m = worker.message
  BY WorkerFacts DEF IInv, Send
<1>2. PICK ok \in BOOLEAN :
        /\ worker' = [worker EXCEPT !.step = "record", !.ok = ok]
        /\ tried' = [tried EXCEPT ![m] = @ + 1]
        /\ accepted' = [accepted EXCEPT ![m] = IF ok THEN @ + 1 ELSE @]
  BY <1>1 DEF Send
<1>3. worker.step = "send" /\ UNCHANGED <<env, row, ready, faults, retries, barred>>
  BY DEF Send
<1>4. worker \in Attempt
  BY <1>3, WorkerFacts DEF IInv, Idle
<1>5. /\ worker' \in Attempt /\ worker'.step = "record" /\ worker'.message = m /\ worker'.ok = ok
      /\ worker'.attempts = worker.attempts /\ worker'.payload = worker.payload
  BY <1>1, <1>2, <1>4 DEF Attempt
<1>6. /\ Working(m) /\ Working(m)' /\ ~Delivered(m) /\ Delivered(m)'
      /\ \A n \in Message \ {m} : ~Working(n) /\ ~Working(n)'
  BY <1>1, <1>3, <1>5 DEF Working, Delivered
<1>7. tried[m] \in Nat /\ accepted[m] \in Nat /\ row[m].attempts \in Nat
      /\ tried \in [Message -> Nat] /\ accepted \in [Message -> Nat]
  BY RowFacts DEF IInv, TypeOK
<1>8. /\ tried' \in [Message -> Nat] /\ accepted' \in [Message -> Nat] /\ tried'[m] = tried[m] + 1
      /\ accepted'[m] = IF ok THEN accepted[m] + 1 ELSE accepted[m]
      /\ \A n \in Message \ {m} : tried'[n] = tried[n] /\ accepted'[n] = accepted[n]
  BY <1>2, <1>7
<1>9. TypeOK' /\ WorkerOK'
  BY <1>3, <1>5, <1>8 DEF IInv, TypeOK, WorkerOK, env
<1>10. RowIsRight(m)'
  <2>1. LeaseIsOwn(m)' /\ row[m].state = "sending"
    BY <1>3, <1>5, <1>6 DEF IInv, RowIsRight, LeaseIsOwn
  <2>2. tried[m] <= row[m].attempts /\ accepted[m] = 0 /\ row[m].attempts < MaxAttempts
    BY <1>6, <2>1 DEF IInv, RowIsRight, TriesAreCounted
  <2>3. TriesAreCounted(m)'
    BY <1>3, <1>5, <1>6, <1>7, <1>8, <2>1, <2>2 DEF TriesAreCounted
  <2>4. SecretIsKept(m)'
    BY <1>3 DEF IInv, RowIsRight, SecretIsKept
  <2> QED
    BY <2>1, <2>3, <2>4 DEF RowIsRight
<1>11. \A n \in Message \ {m} : RowIsRight(n)'
  BY <1>3, <1>6, <1>8, RowStands DEF IInv
<1>12. ChecksHaveHeld'
  <2>1. barred \subseteq bars[m] /\ barred \subseteq {}
    BY <1>3, <1>6 DEF IInv, ChecksHaveHeld, ToAsk
  <2> QED
    BY <1>3, <1>6, <2>1 DEF ChecksHaveHeld, env
<1> QED
  BY <1>9, <1>10, <1>11, <1>12 DEF IInv

LEMMA RecordKeeps == ASSUME IInv, Record PROVE IInv'
<1>1. worker.step = "record" /\ UNCHANGED history /\ faults' \in Nat
  BY DEF Record, IInv, TypeOK
<1>2. worker.ok \in BOOLEAN /\ worker.attempts \in Nat
  BY <1>1, WorkerFacts DEF IInv, Idle, Attempt
<1>3. CASE worker.ok
  BY <1>1, <1>3, FinishKeeps DEF Record
<1>4. CASE ~worker.ok /\ LastAttempt
  BY <1>1, <1>4, FinishKeeps DEF Record
<1>5. CASE ~worker.ok /\ ~LastAttempt
  <2>1. worker.attempts < MaxAttempts - 1
    BY <1>2, <1>5, BoundAssumption DEF LastAttempt
  <2>2. Finish("queued", FALSE)
    BY <1>5 DEF Record
  <2> QED
    BY <1>1, <1>5, <2>1, <2>2, FinishKeeps
<1> QED
  BY <1>3, <1>4, <1>5

LEMMA UnsealKeeps == ASSUME IInv, CannotUnseal PROVE IInv'
<1>1. worker.step = "content" /\ Finish("failed", FALSE) /\ UNCHANGED history
  BY DEF CannotUnseal
<1>2. faults' \in Nat
  BY FaultFacts DEF CannotUnseal, IInv
<1> QED
  BY <1>1, <1>2, FinishKeeps

(* An attempt that is cut off takes its counts with it, and loses the lease. *)
LEMMA AbandonKeeps == ASSUME IInv, Abandon PROVE IInv'
<1>1. /\ worker.step # "idle" /\ worker' = Idle /\ worker'.step = "idle" /\ faults' \in Nat
      /\ UNCHANGED <<env, ready, retries, barred>>
  BY FaultFacts DEF Abandon, IInv, Idle
<1>2. ChecksHaveHeld' /\ WorkerOK' /\ \A n \in Message : ~Working(n)' /\ ~Delivered(n)'
  BY <1>1 DEF ChecksHaveHeld, WorkerOK, Working, Delivered
<1>3. CASE worker.step = "claim"
  <2>1. UNCHANGED <<row, history>>
    BY <1>3 DEF Abandon
  <2>2. TypeOK'
    BY <1>1, <2>1 DEF IInv, TypeOK, env, history
  <2>3. \A n \in Message : RowIsRight(n)'
    BY <1>2, <1>3, <2>1, RowStands DEF IInv, Working, history
  <2> QED
    BY <1>2, <2>2, <2>3 DEF IInv
<1>4. CASE worker.step # "claim"
  <2> DEFINE sent == worker.step = "record"
  <2>1. PICK m \in Message : m = worker.message
    BY <1>1, <1>4, WorkerFacts DEF IInv
  <2>2. /\ row' = [row EXCEPT ![m].lease = "lost"]
        /\ tried' = [tried EXCEPT ![m] = IF sent THEN @ - 1 ELSE @]
        /\ accepted' = [accepted EXCEPT ![m] = IF sent /\ worker.ok THEN @ - 1 ELSE @]
    BY <1>4, <2>1 DEF Abandon
  <2>3. /\ Working(m) /\ (Delivered(m) <=> sent) /\ \A n \in Message \ {m} : ~Working(n)
        /\ row[m].state = "sending"
    BY <1>1, <1>4, <2>1 DEF Working, Delivered, IInv, RowIsRight, LeaseIsOwn
  <2>4. /\ tried[m] \in Nat /\ accepted[m] \in Nat /\ row[m].attempts \in Nat /\ row[m] \in RowState
        /\ row \in [Message -> RowState] /\ tried \in [Message -> Nat] /\ accepted \in [Message -> Nat]
    BY RowFacts DEF IInv, TypeOK, RowState
  <2>5. /\ row[m].attempts < MaxAttempts /\ tried[m] <= IF sent THEN row[m].attempts + 1 ELSE row[m].attempts
        /\ sent => tried[m] >= 1
        /\ accepted[m] = IF sent /\ worker.ok THEN 1 ELSE 0
    BY <2>3 DEF IInv, RowIsRight, TriesAreCounted
  <2> HIDE DEF sent
  <2>6. /\ tried' \in [Message -> Nat] /\ tried'[m] <= row[m].attempts
        /\ \A n \in Message \ {m} : tried'[n] = tried[n]
    BY <2>2, <2>4, <2>5
  <2>7. /\ accepted' \in [Message -> Nat] /\ accepted'[m] = 0
        /\ \A n \in Message \ {m} : accepted'[n] = accepted[n]
    BY <2>2, <2>4, <2>5
  <2>8. /\ row' \in [Message -> RowState] /\ row'[m].state = row[m].state /\ row'[m].lease = "lost"
        /\ row'[m].attempts = row[m].attempts /\ row'[m].payload = row[m].payload
        /\ \A n \in Message \ {m} : row'[n] = row[n]
    BY <2>2, <2>4 DEF RowState
  <2>9. TypeOK'
    BY <1>1, <2>6, <2>7, <2>8 DEF IInv, TypeOK, RowState, env
  <2>10. RowIsRight(m)'
    <3>1. LeaseIsOwn(m)'
      BY <1>2, <2>8 DEF LeaseIsOwn
    <3>2. TriesAreCounted(m)'
      BY <1>2, <2>3, <2>5, <2>6, <2>7, <2>8 DEF TriesAreCounted
    <3>3. SecretIsKept(m)'
      BY <2>8 DEF IInv, RowIsRight, SecretIsKept
    <3> QED
      BY <3>1, <3>2, <3>3 DEF RowIsRight
  <2>11. \A n \in Message \ {m} : RowIsRight(n)'
    BY <1>2, <2>3, <2>6, <2>7, <2>8, RowStands DEF IInv
  <2> QED
    BY <1>2, <2>9, <2>10, <2>11 DEF IInv
<1> QED
  BY <1>3, <1>4

-----------------------------------------------------------------------------
LEMMA InitIInv == Init => IInv
<1> SUFFICES ASSUME Init PROVE IInv
  OBVIOUS
<1>1. worker = Idle /\ worker.step = "idle"
  BY DEF Init, Idle
<1>2. row \in [Message -> RowState] /\ \A m \in Message :
        row[m].state = "none" /\ row[m].attempts = 0 /\ row[m].lease = "none"
  <2>1. 0 \in 0..MaxAttempts
    BY BoundAssumption
  <2> QED
    BY <2>1 DEF Init, RowState
<1>3. TypeOK /\ WorkerOK
  BY <1>1, <1>2 DEF Init, TypeOK, RowState, WorkerOK
<1>4. \A m \in Message : ~Working(m) /\ ~Delivered(m)
  BY <1>1 DEF Working, Delivered
<1>5. ASSUME NEW m \in Message PROVE RowIsRight(m)
  <2>1. /\ row[m].state = "none" /\ row[m].attempts = 0 /\ row[m].lease = "none"
        /\ tried[m] = 0 /\ accepted[m] = 0
    BY <1>2 DEF Init
  <2>2. LeaseIsOwn(m) /\ SecretIsKept(m)
    BY <1>4, <2>1 DEF LeaseIsOwn, SecretIsKept
  <2>3. TriesAreCounted(m)
    BY <1>4, <2>1, BoundAssumption DEF TriesAreCounted
  <2> QED
    BY <2>2, <2>3 DEF RowIsRight
<1>6. ChecksHaveHeld
  BY <1>4 DEF ChecksHaveHeld
<1> QED
  BY <1>3, <1>5, <1>6 DEF IInv

LEMMA NextIInv == IInv /\ [Next]_vars => IInv'
<1> SUFFICES ASSUME IInv, [Next]_vars PROVE IInv'
  OBVIOUS
<1>1. mailOn \in BOOLEAN /\ ready \in [Message -> BOOLEAN] /\ bars \in [Message -> SUBSET Reason]
  BY DEF IInv, TypeOK
<1>2. CASE Tick
  <2>1. worker = Idle /\ worker' = [step |-> "claim"]
    BY <1>2, WorkerFacts DEF IInv, Tick, Step, Idle
  <2> QED
    BY <1>1, <1>2, <2>1, ElseKeeps DEF Tick, env
<1>3. ASSUME NEW on \in BOOLEAN, SetMail(on) PROVE IInv'
  BY <1>1, <1>3, ElseKeeps DEF SetMail
<1>4. ASSUME NEW m \in Message, TimeComes(m) PROVE IInv'
  BY <1>1, <1>4, ElseKeeps DEF TimeComes, env
<1>5. CASE UNCHANGED vars
  BY <1>1, <1>5, ElseKeeps DEF vars, env
<1>6. ASSUME NEW m \in Message, NEW r \in Reason, BarAppears(m, r) \/ BarGoes(m, r) PROVE IInv'
  <2>1. bars[m] \cup {r} \in SUBSET Reason /\ bars[m] \ {r} \in SUBSET Reason
    BY <1>1
  <2> QED
    BY <1>6, <2>1, ForbidKeeps DEF BarAppears, BarGoes
<1> QED
  BY <1>2, <1>3, <1>4, <1>5, <1>6, EnqueueKeeps, RetryKeeps, ClaimKeeps, ChecksKeep, SendKeeps, RecordKeeps,
     UnsealKeeps, AbandonKeeps
     DEF Next, WorkerStep

(* The inductive invariant holds of every state of the outbox. *)
THEOREM Invariance == Spec => []IInv
  BY InitIInv, NextIInv, PTL DEF Spec

(* TypeOK: in particular no message is ever counted beyond its attempts. *)
THEOREM TypeCorrect == Spec => []TypeOK
  BY Invariance, PTL DEF IInv

(* DuplicatesAreExplained: a message is accepted once, apart from acceptances of
   which the worker lost the news. *)
THEOREM AcceptedOnce == Spec => []DuplicatesAreExplained
<1>1. IInv => DuplicatesAreExplained
  <2> SUFFICES ASSUME IInv, NEW m \in Message
               PROVE  tried[m] <= MaxAttempts /\ accepted[m] <= 1 /\ (row[m].state = "sent" => accepted[m] = 1)
    BY DEF DuplicatesAreExplained
  <2>1. row[m].attempts \in Nat /\ row[m].attempts <= MaxAttempts /\ MaxAttempts \in Nat /\ tried[m] \in Nat
    BY RowFacts DEF IInv
  <2>2. TriesAreCounted(m) /\ (Delivered(m) => row[m].state = "sending")
    BY DEF IInv, RowIsRight, LeaseIsOwn, Delivered
  <2> QED
    BY <2>1, <2>2 DEF TriesAreCounted
<1> QED
  BY <1>1, Invariance, PTL

(* SecretsLiveAsLongAsNeeded: a message's secret goes when the message is over,
   and not before. *)
THEOREM SecretsLive == Spec => []SecretsLiveAsLongAsNeeded
<1>1. IInv => SecretsLiveAsLongAsNeeded
  BY DEF IInv, RowIsRight, SecretIsKept, SecretsLiveAsLongAsNeeded
<1> QED
  BY <1>1, Invariance, PTL

(* BarredIsNotSent: the four checks are queries of their own, and yet what barred
   the message all along is met by the one that asks about it. *)
LEMMA OnlySendTries ==
    ASSUME IInv, [Next]_vars, NEW m \in Message, tried'[m] > tried[m]
    PROVE  Send
<1>1. tried \in [Message -> Nat] /\ tried[m] \in Nat
  BY DEF IInv, TypeOK
<1>2. tried' # tried
  BY <1>1
<1>3. ASSUME NEW n \in Message, Retry(n) PROVE FALSE
  <2>1. tried' = [tried EXCEPT ![n] = 0]
    BY <1>3 DEF Retry, Requeued
  <2> QED
    BY <1>1, <2>1
<1>4. ASSUME Abandon PROVE FALSE
  <2>1. \/ tried' = tried
        \/ tried' = [tried EXCEPT ![worker.message] = IF worker.step = "record" THEN @ - 1 ELSE @]
    BY <1>4 DEF Abandon, history
  <2> QED
    BY <1>1, <2>1
<1> QED
  BY <1>2, <1>3, <1>4
     DEF Next, WorkerStep, Tick, Claim, Check, Record, QueryFails, CannotUnseal, SetMail, Enqueue, TimeComes,
         BarAppears, BarGoes, Forbid, vars, history

(* BarredIsNotSent: a delivery is tried only if none of the checks' reasons has
   held ever since the message was claimed. *)
THEOREM BarredNotSent == Spec => BarredIsNotSent
<1>1. IInv /\ [Next]_vars => [\A m \in Message : tried'[m] > tried[m] => barred = {}]_vars
  <2> SUFFICES ASSUME IInv, [Next]_vars, NEW m \in Message, tried'[m] > tried[m] PROVE barred = {}
    OBVIOUS
  <2>1. worker.step = "send" /\ worker.message \in Message
    BY OnlySendTries, WorkerFacts DEF Send, IInv
  <2> QED
    BY <2>1 DEF IInv, ChecksHaveHeld, Working, ToAsk
<1> QED
  BY <1>1, Invariance, PTL DEF Spec, BarredIsNotSent
===============================================================================
