------------------------------ MODULE MailOutbox ------------------------------
(***************************************************************************)
(* The mail outbox (internal/portal/email.go, the triggers of              *)
(* security.sql): handlers queue messages in their own transactions, one   *)
(* worker claims them in the order of their ids, checks that each may      *)
(* still be sent, hands it to the SMTP server and records the result.      *)
(*                                                                         *)
(* Every query of the worker is a step of its own.  Times are compared     *)
(* with the clock only to see whether they have come, so a message is      *)
(* ready or not.  Each message is to a member of its own.                  *)
(***************************************************************************)
EXTENDS Naturals

CONSTANTS Message,      \* ids of mail_outbox rows
          KindOf,       \* what a message is for
          MaxAttempts,  \* deliveries tried before a message has failed (5)
          MaxFaults, MaxRetries  \* bounds on crashes and on administrators' retries

Kind == {"invite", "reset", "verify", "test", "notification", "security"}

ASSUME MessageAssumption == Message \subseteq Nat /\ KindOf \in [Message -> Kind]
ASSUME BoundAssumption == MaxAttempts \in Nat \ {0} /\ MaxFaults \in Nat /\ MaxRetries \in Nat

VARIABLES
    mailOn,   \* mail_settings.enabled
    row,      \* mail_outbox: state "none" before the insert; a lease is held
              \* by the worker, or lost with the attempt that held it
    ready,    \* available has come
    bars,     \* what forbids a message now
    worker,   \* deliverOne: its next step, its message and what it read of it
    faults, retries,
    tried,     \* history: deliveries tried since the message was (re)queued, but
              \* for those that were cut off before they were counted
    accepted,  \* history: times the SMTP server accepted the message, but for
              \* those of which the worker lost or never got the news
    barred    \* history: what has forbidden the claimed message ever since the claim

env == <<mailOn, bars>>
history == <<tried, accepted>>
vars == <<env, row, ready, worker, faults, retries, history, barred>>

-----------------------------------------------------------------------------
(* Why a message may not be sent, in the order of the checks: its member is
   disabled; the address is no longer verified or mail is unwanted; the
   notification is no longer visible; the link is consumed or expired. *)
Reason == {"member", "address", "content", "link"}
After(r) ==
    CASE r = "member" -> "address" [] r = "address" -> "content"
      [] r = "content" -> "link" [] r = "link" -> "send"
Linked(m) == KindOf[m] \in {"invite", "reset", "verify"}
Sealed(m) == KindOf[m] \in {"invite", "reset", "verify", "test"}
CanBar(m, r) ==
    \/ r = "member" /\ KindOf[m] # "invite"
    \/ r = "address" /\ KindOf[m] \in {"notification", "security"}
    \/ r = "content" /\ KindOf[m] = "notification"
    \/ r = "link" /\ Linked(m)

Idle == [step |-> "idle"]
Step(s) == worker' = [worker EXCEPT !.step = s]
Fault == faults < MaxFaults /\ faults' = faults + 1

Init ==
    /\ mailOn = TRUE /\ bars = [m \in Message |-> {}]
    /\ row = [m \in Message |-> [state |-> "none", attempts |-> 0, payload |-> FALSE, lease |-> "none"]]
    /\ ready = [m \in Message |-> FALSE] /\ worker = Idle /\ faults = 0 /\ retries = 0
    /\ tried = [m \in Message |-> 0] /\ accepted = [m \in Message |-> 0] /\ barred = {}

-----------------------------------------------------------------------------
(* queueMail and the two triggers, inside the transaction that makes the link,
   the notification or the change; ids are given in order. *)
Enqueue(m) ==
    /\ mailOn /\ row[m].state = "none" /\ \A n \in Message : n < m => row[n].state # "none"
    /\ row' = [row EXCEPT ![m].state = "queued", ![m].payload = Sealed(m)]
    /\ ready' = [ready EXCEPT ![m] = TRUE]
    /\ UNCHANGED <<env, worker, faults, retries, history, barred>>

(* Members are disabled and enabled, change address and preference, lose and get
   back sight of a service; a consumed or expired link stays so. *)
Forbid(m, B) ==
    /\ bars' = [bars EXCEPT ![m] = B]
    /\ barred' = IF worker.step \notin {"idle", "claim"} /\ worker.message = m THEN barred \cap B ELSE barred
    /\ UNCHANGED <<mailOn, row, ready, worker, faults, retries, history>>
BarAppears(m, r) == CanBar(m, r) /\ row[m].state # "none" /\ Forbid(m, bars[m] \cup {r})
BarGoes(m, r) == r \in bars[m] \ {"link"} /\ Forbid(m, bars[m] \ {r})

(* emailAdmin: settings, and the retry of a failed message. *)
SetMail(on) == mailOn' = on /\ UNCHANGED <<bars, row, ready, worker, faults, retries, history, barred>>
Requeued(m) ==
    /\ retries < MaxRetries /\ retries' = retries + 1
    /\ row' = [row EXCEPT ![m].state = "queued", ![m].attempts = 0]
    /\ ready' = [ready EXCEPT ![m] = TRUE]
    /\ tried' = [tried EXCEPT ![m] = 0]
    /\ UNCHANGED <<env, worker, faults, accepted, barred>>
Retry_AnyEnd(m) == row[m].state \in {"failed", "sent"} /\ Requeued(m)
Retry(m) == row[m].state = "failed" /\ Requeued(m)

(* The backoff of a queued message, or the lease of a claimed one, is over. *)
TimeComes(m) ==
    /\ row[m].state \in {"queued", "sending"} /\ ~ready[m] /\ ready' = [ready EXCEPT ![m] = TRUE]
    /\ UNCHANGED <<env, row, worker, faults, retries, history, barred>>

-----------------------------------------------------------------------------
(* Every five seconds, unless mail is switched off. *)
Tick == worker.step = "idle" /\ mailOn /\ Step("claim")
        /\ UNCHANGED <<env, row, ready, faults, retries, history, barred>>

Orphans_None == {}
Orphans == {m \in Message : row[m].state = "sending" /\ ready[m]}
Due == {m \in Message : row[m].state = "queued" /\ ready[m]} \cup Orphans
(* Messages of lost attempts are queued again; the first that is due is claimed. *)
Claim ==
    /\ worker.step = "claim"
    /\ IF Due = {} THEN worker' = Idle /\ UNCHANGED <<row, ready, barred>>
       ELSE \E m \in Due :
            /\ \A n \in Due : m <= n
            /\ row' = [n \in Message |->
                        IF n = m THEN [row[n] EXCEPT !.state = "sending", !.lease = "held"]
                        ELSE IF n \in Orphans THEN [row[n] EXCEPT !.state = "queued", !.lease = "none"]
                        ELSE row[n]]
            /\ ready' = [ready EXCEPT ![m] = FALSE]
            /\ worker' = [step |-> "member", message |-> m, ok |-> FALSE,
                          attempts |-> row[m].attempts, payload |-> row[m].payload]
            /\ barred' = bars[m]
    /\ UNCHANGED <<env, faults, retries, history>>

(* finish: only the holder of the lease writes its result. *)
Finish_KeepsPayload(state, clear) ==
    LET m == worker.message IN
    /\ row' = [row EXCEPT ![m] = IF @.lease # "held" THEN @ ELSE
                [state |-> state, attempts |-> @.attempts + 1, payload |-> worker.payload, lease |-> "none"]]
    /\ ready' = [ready EXCEPT ![m] = FALSE] /\ worker' = Idle
    /\ UNCHANGED <<env, retries, barred>>
Finish(state, clear) ==
    LET m == worker.message IN
    /\ row' = [row EXCEPT ![m] = IF @.lease # "held" THEN @ ELSE
                [state |-> state, attempts |-> @.attempts + 1,
                 payload |-> worker.payload /\ ~clear, lease |-> "none"]]
    /\ ready' = [ready EXCEPT ![m] = FALSE] /\ worker' = Idle
    /\ UNCHANGED <<env, retries, barred>>

Check_LinkNotAsked(r) ==
    /\ worker.step = r
    /\ IF r \in bars[worker.message] \ {"link"} THEN Finish("cancelled", TRUE)
       ELSE Step(After(r)) /\ UNCHANGED <<env, row, ready, retries, barred>>
    /\ UNCHANGED <<faults, history>>
Check(r) ==
    /\ worker.step = r
    /\ IF r \in bars[worker.message] THEN Finish("cancelled", TRUE)
       ELSE Step(After(r)) /\ UNCHANGED <<env, row, ready, retries, barred>>
    /\ UNCHANGED <<faults, history>>
(* The query of a check fails, which reads as a no. *)
QueryFails(r) == worker.step = r /\ CanBar(worker.message, r) /\ Fault
                 /\ Finish("cancelled", TRUE) /\ UNCHANGED history
(* The payload was sealed with another key. *)
CannotUnseal == worker.step = "content" /\ Sealed(worker.message) /\ Fault
                /\ Finish("failed", FALSE) /\ UNCHANGED history

(* SMTP may have accepted a message although the client reports an error: such an
   acceptance is no news, and is not counted as one. *)
Send ==
    LET m == worker.message IN
    /\ worker.step = "send"
    /\ \E ok \in BOOLEAN :
        /\ worker' = [worker EXCEPT !.step = "record", !.ok = ok]
        /\ tried' = [tried EXCEPT ![m] = @ + 1]
        /\ accepted' = [accepted EXCEPT ![m] = IF ok THEN @ + 1 ELSE @]
    /\ UNCHANGED <<env, row, ready, faults, retries, barred>>

LastAttempt_Late == worker.attempts >= MaxAttempts
LastAttempt == worker.attempts >= MaxAttempts - 1
Record ==
    /\ worker.step = "record"
    /\ IF worker.ok THEN Finish("sent", TRUE)
       ELSE Finish(IF LastAttempt THEN "failed" ELSE "queued", FALSE)
    /\ UNCHANGED <<faults, history>>

(* The process dies, or an update of finish fails: what the worker knew is lost. *)
Abandon ==
    /\ worker.step # "idle" /\ Fault /\ worker' = Idle
    /\ IF worker.step = "claim" THEN UNCHANGED <<row, history>>
       ELSE LET m == worker.message  sent == worker.step = "record" IN
            /\ row' = [row EXCEPT ![m].lease = "lost"]
            /\ tried' = [tried EXCEPT ![m] = IF sent THEN @ - 1 ELSE @]
            /\ accepted' = [accepted EXCEPT ![m] = IF sent /\ worker.ok THEN @ - 1 ELSE @]
    /\ UNCHANGED <<env, ready, retries, barred>>

-----------------------------------------------------------------------------
WorkerStep == Tick \/ Claim \/ (\E r \in Reason : Check(r)) \/ Send \/ Record
Next ==
    \/ WorkerStep \/ (\E r \in Reason : QueryFails(r)) \/ CannotUnseal \/ Abandon
    \/ \E on \in BOOLEAN : SetMail(on)
    \/ \E m \in Message : Enqueue(m) \/ Retry(m) \/ TimeComes(m)
    \/ \E m \in Message, r \in Reason : BarAppears(m, r) \/ BarGoes(m, r)

Spec == Init /\ [][Next]_vars
FairSpec == Spec /\ WF_vars(WorkerStep) /\ \A m \in Message : WF_vars(TimeComes(m))

-----------------------------------------------------------------------------
TypeOK ==
    /\ mailOn \in BOOLEAN
    /\ row \in [Message -> [state : {"none", "queued", "sending", "sent", "failed", "cancelled"},
                            attempts : 0..MaxAttempts, payload : BOOLEAN, lease : {"none", "held", "lost"}]]
    /\ ready \in [Message -> BOOLEAN]
    /\ bars \in [Message -> SUBSET Reason] /\ barred \in SUBSET Reason
    /\ worker.step \in Reason \cup {"idle", "claim", "send", "record"}
    /\ tried \in [Message -> Nat] /\ accepted \in [Message -> Nat]
    /\ faults \in Nat /\ retries \in Nat

Settled(m) == row[m].state \in {"sent", "failed", "cancelled"}

(* A message is tried no more than MaxAttempts times, apart from attempts cut off
   before they were counted, and accepted by the server a second time only if the
   news of an earlier acceptance was lost; a recorded one stands
   (docs/accounts-email.md:40, 42; email.go:370-389). *)
DuplicatesAreExplained ==
    \A m \in Message :
        /\ tried[m] <= MaxAttempts
        /\ accepted[m] <= 1
        /\ row[m].state = "sent" => accepted[m] = 1

(* Secrets of messages that are over are gone, even from the copy the worker held,
   and those of messages that can still be sent or retried are there
   (docs/accounts-email.md:42; email.go:313-319). *)
SecretsLiveAsLongAsNeeded ==
    \A m \in Message :
        /\ row[m].state \in {"sent", "cancelled"} => ~row[m].payload
        /\ row[m].state \in {"queued", "sending", "failed"} => row[m].payload = Sealed(m)

(* A message is not sent if something has forbidden it all the time since it was
   claimed, whatever else changed between the checks (docs/accounts-email.md:40;
   email.go:320-368). *)
BarredIsNotSent ==
    [][\A m \in Message : tried'[m] > tried[m] => barred = {}]_vars

(* A queued message comes to an end while mail is on, although others before it
   fail, attempts are lost and nobody asks (email.go:300-309). *)
MessagesSettle ==
    \A m \in Message : row[m].state \in {"queued", "sending"} ~> Settled(m) \/ ~mailOn

=============================================================================
