-------------------------------- MODULE Outbox --------------------------------
(***************************************************************************)
(* The email queue: the outbox worker of server/src/email/outbox-worker.ts,*)
(* the SMTP attempt of server/src/email/service.ts, the email_outbox rows  *)
(* of the store, and the release of an account's address                   *)
(* (server/src/users/service.ts), which must not be overtaken by mail to   *)
(* the old owner.                                                          *)
(*                                                                         *)
(* All messages go to one address, which one account holds at first.  A    *)
(* worker claims one row at a time, authorizes it against the account and  *)
(* hands it to the relay; the relay's acceptance and the row's             *)
(* acknowledgement are two writes to two systems.  A claim is named by the *)
(* worker that made it, which has one claim in hand at a time.             *)
(*                                                                         *)
(* Time: next_attempt_at has passed or not (due); the row has been         *)
(* untouched for OUTBOX_STALE_AFTER_MS or not (old).  A row does not grow  *)
(* old within its send window: the window is OUTBOX_SEND_BUDGET_MS from    *)
(* the moment the row was refreshed, one fifth of that, and is enforced.   *)
(***************************************************************************)
EXTENDS Naturals

CONSTANTS
    Messages,     \* outbox rows that may be enqueued
    Bound,        \* those bound to the account; the others name the address only
    Priority,     \* the delivery lane of a message
    Workers,      \* outbox workers, one per portal instance
    Releasers,    \* runs of releaseAddress()
    NoProc,       \* no process
    NoMessage,    \* no message
    MaxAttempts,  \* OUTBOX_MAX_ATTEMPTS
    BatchSize,    \* OUTBOX_BATCH_SIZE
    MaxLapses,    \* crashes, stalls and lease takeovers in one behaviour
    MaxErrors     \* failed statements and cut-off sends in one behaviour

ASSUME OutboxAssumption ==
    /\ Bound \subseteq Messages
    /\ Priority \in [Messages -> Nat]
    /\ Workers \cap Releasers = {}
    /\ NoProc \notin Workers \cup Releasers
    /\ NoMessage \notin Messages
    /\ MaxAttempts \in Nat \ {0}
    /\ BatchSize \in Nat \ {0}
    /\ MaxLapses \in Nat
    /\ MaxErrors \in Nat

VARIABLES
    row,        \* row[m]: the email_outbox row
    early,      \* early[m]: m was written while the account had the address
    copies,     \* copies[m]: how often the relay accepted m
    address,    \* whose the address is: the account's, nobody's, a newcomer's
    smtp,       \* a relay is configured
    lease,      \* whose token the mail-handoff lease of the account carries
    held,       \* the processes that are inside the handoff section
    pc,         \* pc[p]: the await p is at
    mine,       \* mine[w]: the message worker w has claimed
    taken,      \* taken[w]: rows worker w has taken in this tick
    lapses,     \* crashes, stalls and takeovers so far
    errors      \* failed statements and cut-off sends so far

locks == <<lease, held>>
mishaps == <<lapses, errors>>
vars == <<row, early, copies, address, smtp, lease, held, pc, mine, taken,
          lapses, errors>>

Procs == Workers \cup Releasers
NoRow == [st |-> "absent", gen |-> NoProc, att |-> 0, due |-> FALSE, old |-> FALSE]

OutboxTypeOK ==
    /\ row \in [Messages -> [st : {"absent", "pending", "sending", "sent", "failed"},
                             gen : Workers \cup {NoProc},
                             att : 0..(MaxAttempts + MaxLapses + MaxErrors),
                             due : BOOLEAN, old : BOOLEAN]]
    /\ early \in [Messages -> BOOLEAN]
    /\ copies \in [Messages -> Nat]
    /\ address \in {"ours", "released", "reused"}
    /\ smtp \in BOOLEAN
    /\ lease \in Procs \cup {NoProc}
    /\ held \in SUBSET Procs
    /\ pc \in [Procs -> {"idle", "tick", "keys", "auth", "window", "sent",
                         "retry", "again", "fail", "park", "rkey", "release",
                         "done"}]
    /\ mine \in [Workers -> Messages \cup {NoMessage}]
    /\ taken \in [Workers -> 0..BatchSize]
    /\ lapses \in 0..MaxLapses
    /\ errors \in 0..MaxErrors
    /\ \A p \in held : pc[p] \notin {"idle", "tick", "keys", "rkey", "done"}

Init ==
    /\ row = [m \in Messages |-> NoRow]
    /\ early = [m \in Messages |-> FALSE]
    /\ copies = [m \in Messages |-> 0]
    /\ address = "ours"
    /\ smtp = FALSE
    /\ lease = NoProc
    /\ held = {}
    /\ pc = [p \in Procs |-> "idle"]
    /\ mine = [w \in Workers |-> NoMessage]
    /\ taken = [w \in Workers |-> 0]
    /\ lapses = 0
    /\ errors = 0

-----------------------------------------------------------------------------
Goto(p, label) == pc' = [pc EXCEPT ![p] = label]

Lapse == lapses < MaxLapses /\ lapses' = lapses + 1 /\ UNCHANGED errors
Error == errors < MaxErrors /\ errors' = errors + 1 /\ UNCHANGED lapses

Row(w) == row[mine[w]]

(* Slip: a settling write matches the row by its id alone. *)
Owns_ById(w) == TRUE

(* A settling write lands on the claim it was issued for, or nowhere. *)
Owns(w) == Row(w).st = "sending" /\ Row(w).gen = w

(* The transaction fence on the handoff lease. *)
FenceHolds(p) == p \in held => lease = p

(* The handoff section is entered: the lease is free or its holder is dead, *)
(* or a running holder has stalled past its TTL.                            *)
TakeHandoff(p) ==
    /\ \/ lease \notin held /\ UNCHANGED mishaps
       \/ lease \in held /\ Lapse
    /\ lease' = p
    /\ held' = held \cup {p}

ReleaseHandoff(p) ==
    /\ lease' = IF p \in held /\ lease = p THEN NoProc ELSE lease
    /\ held' = held \ {p}

-----------------------------------------------------------------------------
(* enqueue: mail bound to an account that no longer has the address is     *)
(* recorded as failed.                                                     *)
Enqueue(m) ==
    /\ row[m].st = "absent"
    /\ row' = [row EXCEPT ![m] =
                 [NoRow EXCEPT !.st = IF m \in Bound /\ address # "ours"
                                      THEN "failed" ELSE "pending",
                               !.due = (m \notin Bound \/ address = "ours")]]
    /\ early' = [early EXCEPT ![m] = address = "ours"]
    /\ UNCHANGED <<copies, address, smtp, locks, pc, mine, taken, mishaps>>

(* next_attempt_at passes. *)
BecomesDue(m) ==
    /\ row[m].st = "pending" /\ ~ row[m].due
    /\ row' = [row EXCEPT ![m].due = TRUE]
    /\ UNCHANGED <<early, copies, address, smtp, locks, pc, mine, taken, mishaps>>

(* w is delivering m; Window: m is with the relay, within the send budget. *)
Delivering(w, m) == pc[w] \notin {"idle", "tick"} /\ mine[w] = m
Window(w, m) == pc[w] = "window" /\ mine[w] = m

(* A claim stays untouched past the threshold: its worker is gone or has   *)
(* moved on, or it has stalled.                                            *)
GetsOld(m) ==
    /\ row[m].st = "sending" /\ ~ row[m].old
    /\ \/ ~ Delivering(row[m].gen, m) /\ UNCHANGED mishaps
       \/ Delivering(row[m].gen, m) /\ ~ Window(row[m].gen, m) /\ Lapse
    /\ row' = [row EXCEPT ![m].old = TRUE]
    /\ UNCHANGED <<early, copies, address, smtp, locks, pc, mine, taken>>

(* An administrator fills in the relay's settings.  Clearing them again    *)
(* would only stop ticks from starting.                                    *)
SetSmtp ==
    /\ ~ smtp
    /\ smtp' = TRUE
    /\ UNCHANGED <<row, early, copies, address, locks, pc, mine, taken, mishaps>>

-----------------------------------------------------------------------------
(* Slip: stale claims are never put back. *)
Released_Never(m) == row[m]

(* releaseStale: the claim's generation stays until the next claim. *)
Released(m) ==
    IF row[m].st = "sending" /\ row[m].old
    THEN [row[m] EXCEPT !.st = "pending", !.due = TRUE, !.old = FALSE]
    ELSE row[m]

(* A tick starts: release stale claims, failing or not, and go on if there *)
(* is a relay to talk to.                                                  *)
Tick(w) ==
    /\ pc[w] = "idle"
    /\ \/ row' = [m \in Messages |-> Released(m)] /\ UNCHANGED mishaps
       \/ UNCHANGED row /\ Error
    /\ Goto(w, IF smtp THEN "tick" ELSE "idle")
    /\ UNCHANGED <<early, copies, address, smtp, locks, mine, taken>>

Due == {m \in Messages : row[m].st = "pending" /\ row[m].due}

Claimed(w, m) ==
    [row[m] EXCEPT !.st = IF m \in Bound /\ address # "ours"
                          THEN "failed" ELSE "sending",
                   !.gen = w, !.att = @ + 1, !.due = FALSE, !.old = FALSE]

(* claimDue with limit 1, highest lane first.  A row whose account has     *)
(* lost the address is failed instead, and then the tick is over.          *)
Claim(w, m) ==
    /\ pc[w] = "tick" /\ taken[w] < BatchSize
    /\ m \in Due /\ \A n \in Due : Priority[n] <= Priority[m]
    /\ row' = [row EXCEPT ![m] = Claimed(w, m)]
    /\ \/ /\ Claimed(w, m).st = "sending" /\ UNCHANGED mishaps
          /\ mine' = [mine EXCEPT ![w] = m]
          /\ Goto(w, "keys") /\ UNCHANGED taken
       \/ /\ \/ Claimed(w, m).st = "failed" /\ UNCHANGED mishaps
             \/ Error
          /\ Goto(w, "idle") /\ UNCHANGED mine
          /\ taken' = [taken EXCEPT ![w] = 0]
    /\ UNCHANGED <<early, copies, address, smtp, locks>>

(* Nothing is due, the batch is full, or the claim failed without effect. *)
EndTick(w) ==
    /\ pc[w] = "tick"
    /\ \/ (Due = {} \/ taken[w] = BatchSize) /\ UNCHANGED mishaps
       \/ Error
    /\ Goto(w, "idle")
    /\ taken' = [taken EXCEPT ![w] = 0]
    /\ UNCHANGED <<row, early, copies, address, smtp, locks, mine>>

(* Slip: an attempt that ends keeps the account locked. *)
Leave_KeepsHandoff(w) ==
    /\ UNCHANGED locks
    /\ Goto(w, "tick")
    /\ mine' = [mine EXCEPT ![w] = NoMessage]
    /\ taken' = [taken EXCEPT ![w] = @ + 1]

(* The attempt of w on its row is over, however it went. *)
Leave(w) ==
    /\ ReleaseHandoff(w)
    /\ Goto(w, "tick")
    /\ mine' = [mine EXCEPT ![w] = NoMessage]
    /\ taken' = [taken EXCEPT ![w] = @ + 1]

(* deliver: an account that may be concerned is locked for the attempt. *)
EnterHandoff(w) ==
    /\ w \in Workers /\ pc[w] = "keys"
    /\ \/ (mine[w] \in Bound \/ address = "ours") /\ TakeHandoff(w)
       \/ mine[w] \notin Bound /\ address # "ours" /\ UNCHANGED <<locks, mishaps>>
    /\ Goto(w, "auth")
    /\ UNCHANGED <<row, early, copies, address, smtp, mine, taken>>

(* The lookup or the wait for the key fails: the row is left to releaseStale. *)
HandoffFails(w) ==
    /\ w \in Workers /\ pc[w] = "keys"
    /\ Error
    /\ Leave(w)
    /\ UNCHANGED <<row, early, copies, address, smtp>>

(* authorize: one transaction under the handoff and lifecycle leases.      *)
Ineligible(w) == mine[w] \in Bound /\ address # "ours"

Authorized(w) ==
    [row EXCEPT ![mine[w]] =
       [@ EXCEPT !.st = IF Ineligible(w) THEN "failed" ELSE "sending",
                 !.old = FALSE]]

Authorize(w) ==
    /\ pc[w] = "auth" /\ FenceHolds(w) /\ Owns(w)
    /\ row' = Authorized(w)
    /\ \/ /\ ~ Ineligible(w) /\ Goto(w, "window")
          /\ UNCHANGED <<locks, mine, taken, mishaps>>
       \/ Ineligible(w) /\ Leave(w) /\ UNCHANGED mishaps
       \/ Error /\ Leave(w)
    /\ UNCHANGED <<early, copies, address, smtp>>

(* The claim moved on, the lease was lost, or the transaction failed. *)
AuthorizeFails(w) ==
    /\ pc[w] = "auth"
    /\ \/ ~ (FenceHolds(w) /\ Owns(w)) /\ UNCHANGED mishaps
       \/ Error
    /\ Leave(w)
    /\ UNCHANGED <<row, early, copies, address, smtp>>

-----------------------------------------------------------------------------
(* The send window.  A stall past the deadline before SMTP starts, and a   *)
(* seal that does not open (an altered row, a rotated key), end the        *)
(* attempt before the relay is contacted.                                  *)
HandoffExpired(w) ==
    /\ pc[w] = "window"
    /\ Lapse
    /\ Goto(w, "again")
    /\ UNCHANGED <<row, early, copies, address, smtp, locks, mine, taken>>

SealUnreadable(w) ==
    /\ pc[w] = "window"
    /\ Goto(w, "fail")
    /\ UNCHANGED <<row, early, copies, address, smtp, locks, mine, taken, mishaps>>

Accept(w) == copies' = [copies EXCEPT ![mine[w]] = @ + 1]

RelayAccepts(w) ==
    /\ pc[w] = "window"
    /\ Accept(w)
    /\ Goto(w, "sent")
    /\ UNCHANGED <<row, early, address, smtp, locks, mine, taken, mishaps>>

(* The relay answers with a refusal, or the body never got there whole. *)
RelayRefuses(w) ==
    /\ pc[w] = "window"
    /\ Goto(w, IF Row(w).att >= MaxAttempts THEN "fail" ELSE "retry")
    /\ UNCHANGED <<row, early, copies, address, smtp, locks, mine, taken, mishaps>>

(* No answer after the whole body was written: the relay may have it.      *)
CutOff(w) ==
    /\ pc[w] = "window"
    /\ Error
    /\ Accept(w) \/ UNCHANGED copies
    /\ Goto(w, "park")
    /\ UNCHANGED <<row, early, address, smtp, locks, mine, taken>>

(* markSent, reschedule, markFailed. *)
Settled(w) ==
    [row EXCEPT ![mine[w]] =
       [@ EXCEPT !.st = CASE pc[w] = "sent" -> "sent"
                          [] pc[w] \in {"fail", "park"} -> "failed"
                          [] pc[w] \in {"retry", "again"} -> "pending",
                 !.due = (pc[w] = "again"),
                 !.old = FALSE]]

Settle(w) ==
    /\ pc[w] \in {"sent", "retry", "again", "fail", "park"}
    /\ row' = IF Owns(w) THEN Settled(w) ELSE row
    /\ Leave(w)
    /\ UNCHANGED <<early, copies, address, smtp, mishaps>>

(* Slip: a message that could not be marked sent is tried again. *)
AfterFailedWrite_Retries(w) ==
    IF pc[w] = "sent"
    THEN Goto(w, "retry") /\ UNCHANGED <<locks, mine, taken>>
    ELSE Leave(w)

(* An acknowledgement that fails parks the row; any other write that fails *)
(* leaves it to releaseStale.                                              *)
AfterFailedWrite(w) ==
    IF pc[w] = "sent"
    THEN Goto(w, "park") /\ UNCHANGED <<locks, mine, taken>>
    ELSE Leave(w)

(* The settling write fails, or lands without its answer. *)
SettleFails(w) ==
    /\ pc[w] \in {"sent", "retry", "again", "fail", "park"}
    /\ Error
    /\ \/ UNCHANGED row
       \/ Owns(w) /\ row' = Settled(w)
    /\ AfterFailedWrite(w)
    /\ UNCHANGED <<early, copies, address, smtp>>

(* The process of w dies; what the relay was being handed may have arrived. *)
Crash(w) ==
    /\ w \in Workers /\ pc[w] # "idle"
    /\ Lapse
    /\ \/ UNCHANGED copies
       \/ pc[w] = "window" /\ Accept(w)
    /\ Goto(w, "idle")
    /\ held' = held \ {w}
    /\ mine' = [mine EXCEPT ![w] = NoMessage]
    /\ taken' = [taken EXCEPT ![w] = 0]
    /\ UNCHANGED <<row, early, address, smtp, lease>>

-----------------------------------------------------------------------------
(* releaseAddress, of an account that meets its other conditions.          *)
ReleaseStart(a) ==
    /\ a \in Releasers /\ pc[a] = "idle"
    /\ Goto(a, "rkey")
    /\ UNCHANGED <<row, early, copies, address, smtp, locks, mine, taken, mishaps>>

ReleaseKeys(a) ==
    /\ pc[a] = "rkey"
    /\ TakeHandoff(a)
    /\ Goto(a, "release")
    /\ UNCHANGED <<row, early, copies, address, smtp, mine, taken>>

(* Slip: mail already being sent does not stop the release. *)
MayRelease_WhileSending(a) == FenceHolds(a) /\ address = "ours"

(* Mail that is being sent refuses the release. *)
MayRelease(a) ==
    /\ FenceHolds(a) /\ address = "ours"
    /\ \A m \in Messages : row[m].st # "sending"

(* cancelForReleasedAddress fails what is queued, in the same transaction. *)
Cancelled(m) ==
    IF row[m].st = "pending"
    THEN [row[m] EXCEPT !.st = "failed", !.gen = NoProc, !.due = FALSE]
    ELSE row[m]

ReleaseCommit(a) ==
    /\ pc[a] = "release" /\ MayRelease(a)
    /\ address' = "released"
    /\ row' = [m \in Messages |-> Cancelled(m)]
    /\ UNCHANGED mishaps \/ Error
    /\ ReleaseHandoff(a)
    /\ Goto(a, "done")
    /\ UNCHANGED <<early, copies, smtp, mine, taken>>

(* The key is not to be had, the release is refused, or it fails. *)
ReleaseFails(a) ==
    /\ \/ pc[a] = "rkey" /\ Error
       \/ pc[a] = "release" /\ ~ MayRelease(a) /\ UNCHANGED mishaps
       \/ pc[a] = "release" /\ Error
    /\ ReleaseHandoff(a)
    /\ Goto(a, "done")
    /\ UNCHANGED <<row, early, copies, address, smtp, mine, taken>>

(* Somebody else registers the released address. *)
Reregister ==
    /\ address = "released"
    /\ address' = "reused"
    /\ UNCHANGED <<row, early, copies, smtp, locks, pc, mine, taken, mishaps>>

-----------------------------------------------------------------------------
WorkerStep(w) ==
    \/ Tick(w) \/ EndTick(w) \/ \E m \in Messages : Claim(w, m)
    \/ EnterHandoff(w) \/ HandoffFails(w) \/ Authorize(w) \/ AuthorizeFails(w)
    \/ HandoffExpired(w) \/ SealUnreadable(w)
    \/ RelayAccepts(w) \/ RelayRefuses(w) \/ CutOff(w)
    \/ Settle(w) \/ SettleFails(w)

ReleaserStep(a) ==
    ReleaseStart(a) \/ ReleaseKeys(a) \/ ReleaseCommit(a) \/ ReleaseFails(a)

Next ==
    \/ \E w \in Workers : WorkerStep(w) \/ Crash(w)
    \/ \E a \in Releasers : ReleaserStep(a)
    \/ \E m \in Messages : Enqueue(m) \/ BecomesDue(m) \/ GetsOld(m)
    \/ SetSmtp \/ Reregister

Spec == Init /\ [][Next]_vars

(* The poll timer fires, every await settles, time passes.  Nobody has to  *)
(* enqueue, to release an address or to configure a relay.                 *)
Fairness ==
    /\ \A w \in Workers : WF_vars(WorkerStep(w))
    /\ \A a \in Releasers : WF_vars(pc[a] # "idle" /\ ReleaserStep(a))
    /\ \A m \in Messages : /\ WF_vars(BecomesDue(m))
                           /\ WF_vars(GetsOld(m) /\ UNCHANGED mishaps)

FairSpec == Spec /\ Fairness

-----------------------------------------------------------------------------
(* Mail written for the account never reaches the relay once the address   *)
(* is no longer the account's, whatever claims, leases and workers lapsed  *)
(* in between: "a release cannot overtake a live handoff to the old        *)
(* address" (lib/keyed-serializer.ts, userMailHandoffLockKey).             *)
NoMailAfterRelease ==
    [][\A m \in Messages :
         (copies'[m] # copies[m] /\ early[m]) => address = "ours"]_vars

(* A second copy goes out only if a worker died or stalled, or if two      *)
(* things failed: one failed acknowledgement, or one attempt cut off after *)
(* the body was written, never duplicates a message (outbox-worker.ts, on  *)
(* at-least-once delivery).                                                *)
CopiesAreAccountedFor ==
    \A m \in Messages : copies[m] <= 1 + lapses + (errors \div 2)

(* A settled row is never resurrected by a claim that was superseded. *)
SettledIsFinal ==
    [][\A m \in Messages :
         row[m].st \in {"sent", "failed"} => row'[m].st = row[m].st]_vars

(* Once a relay is configured the queue drains: every message is sent or   *)
(* given up on, whatever was abandoned on the way.                         *)
QueueDrains ==
    <>smtp => []<>(\A m \in Messages : row[m].st \notin {"pending", "sending"})
=============================================================================
