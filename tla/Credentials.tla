----------------------------- MODULE Credentials -----------------------------
(***************************************************************************)
(* The credentials of one gateway consumer, of one type: issue, rotate,    *)
(* revoke, reconcile and teardown (server/src/credentials/service.ts), and *)
(* the revocation a password reset owes (credentials/account-recovery.ts). *)
(*                                                                         *)
(* The gateway keeps the working secrets in an array and gives them no     *)
(* name: an entry is deleted by its index, and the index comes from the    *)
(* credential rows, in the order of their ordinals.  Array and rows are    *)
(* two systems.  An entry is modelled by the secret itself, which no code  *)
(* can read back; a secret is named by the operation that minted it.       *)
(*                                                                         *)
(* Every operation runs inside the section of its consumer.  That the      *)
(* section is exclusive is KeyedSerializer's business: here a lease is     *)
(* lost only with the process that holds it.                               *)
(***************************************************************************)
EXTENDS Naturals, Sequences, FiniteSets

CONSTANTS
    Initial,    \* credentials that exist at first
    Legacy,     \* those of them that may have no ordinal
    Ops,        \* operations; each mints at most one secret
    Runners,    \* runs of runAccountRecovery: inline and the worker's
    NoProc,     \* no process
    Cap,        \* maxCredentialsPerType
    BlockingAttempts, \* ACCOUNT_RECOVERY_BLOCKING_ATTEMPTS
    MaxEvents,  \* password resets and disables of the account, together
    Faults,     \* the kinds of fault that happen
    Solo,       \* those of them that no other fault comes with
    MaxFaults   \* how many of the others happen in one behaviour

AllFaults == {"refuse", "lost", "read", "tx", "ack", "crash", "stale"}

ASSUME CredentialsAssumption ==
    /\ Legacy \subseteq Initial /\ Solo \subseteq Faults
    /\ IsFiniteSet(Initial) /\ IsFiniteSet(Ops)
    /\ Initial \cap Ops = {} /\ Ops \cap Runners = {}
    /\ NoProc \notin Initial \cup Ops \cup Runners
    /\ Cap \in Nat \ {0} /\ Cardinality(Initial) <= Cap
    /\ BlockingAttempts \in Nat \ {0}
    /\ MaxEvents \in Nat /\ MaxFaults \in Nat
    /\ Faults \subseteq AllFaults

VARIABLES
    shown,      \* reads of the consumer show this type (not so for basicauth)
    entries,    \* the gateway's array
    row,        \* row[c]: the credential_metadata row; late, the last generation
                \* of the recovery that had stopped blocking when it was created
    noted,      \* secrets a credential.append_rollback row tells of
    delivered,  \* secrets that were handed to the client
    job,        \* the account_recovery_jobs row; its generation is resets
    opened,     \* the last generation with an unblocked_at
    enabled,    \* the account's status
    torn,       \* a teardown has completed since the account was disabled
    lease,      \* who is inside the consumer's section
    pc,         \* pc[p]: the await p is at
    op,         \* op[p]: what p is doing and what it has read
    todo,       \* todo[r]: the page of rows runner r is going through
    resets, flips, faults,
    blind,      \* history: secrets whose operation died, or could not leave a note
    emptied,    \* history: the array was wiped and the rows still say otherwise
    withdrawn   \* history: rows that were made active again since the last reset

account == <<enabled, torn, flips>>
recovery == <<job, opened, resets, todo>>
history == <<noted, delivered, blind, emptied, withdrawn>>
outside == <<shown, account, recovery>>     \* no operation writes these
vars == <<shown, entries, row, noted, delivered, job, opened, enabled, torn, lease, pc,
          op, todo, resets, flips, faults, blind, emptied, withdrawn>>

Secrets == Initial \cup Ops
Procs == Ops \cup Runners
NoRow == [st |-> "none", ord |-> 0, late |-> 0]
NoOp == [kind |-> "none", target |-> NoProc, len |-> 0, pos |-> 0,
         whole |-> FALSE, why |-> "none", tries |-> 0, phase |-> 1, cutoff |-> 0]
NoJob == [st |-> "none", by |-> NoProc, att |-> 0]
Kinds == {"issue", "rotate", "revoke", "clear", "reconcile", "teardown", "recover"}
Working == {entries[i] : i \in DOMAIN entries}

CredentialsTypeOK ==
    /\ shown \in BOOLEAN
    /\ entries \in Seq(Secrets) /\ Len(entries) <= Cap
    /\ \A i, j \in DOMAIN entries : entries[i] = entries[j] => i = j
    /\ row \in [Secrets -> [st : {"none", "active", "retiring", "revoked"},
                            ord : 0..Cardinality(Secrets), late : 0..MaxEvents]]
    /\ noted \subseteq Secrets /\ delivered \subseteq Secrets /\ blind \subseteq Secrets
    /\ emptied \in BOOLEAN /\ withdrawn \subseteq Secrets
    /\ job \in [st : {"none", "pending", "sending"}, by : Runners \cup {NoProc},
                att : 0..BlockingAttempts]
    /\ opened \in 0..resets
    /\ enabled \in BOOLEAN /\ torn \in BOOLEAN
    /\ lease \in Procs \cup {NoProc}
    /\ pc \in [Procs -> {"idle", "key", "check", "get", "settle", "place", "gate",
                         "intent", "delete", "probe", "unretire", "retired", "close",
                         "pend", "append", "unpend", "mirror", "reclaim", "withdraw",
                         "reread", "unlist", "reactivate", "note", "rotated", "wipe",
                         "clearrows", "list", "barrier", "rdone", "rfail", "done"}]
    /\ \A p \in Procs : op[p].kind \in Kinds \cup {"none"}
    /\ \A p \in Procs : lease = p => pc[p] \notin {"idle", "key", "list", "barrier",
                                                    "rdone", "rfail", "done"}
    /\ todo \in [Runners -> SUBSET Secrets]
    /\ resets + flips \in 0..MaxEvents /\ faults \in 0..MaxFaults

(* The two agree at first.  Rows from before the counter have no ordinal; they *)
(* come first, in an order nothing records.                                    *)
Init ==
    /\ shown \in BOOLEAN
    /\ \E order \in [1..Cardinality(Initial) -> Initial], unplaced \in {{}, Legacy} :
          /\ \A i, j \in DOMAIN order : order[i] = order[j] => i = j
          /\ \A i, j \in DOMAIN order :
                order[i] \in unplaced /\ order[j] \notin unplaced => i < j
          /\ entries = order
          /\ row = [c \in Secrets |->
                      IF c \in Initial
                      THEN [st |-> "active", late |-> 0,
                            ord |-> IF c \in unplaced THEN 0
                                    ELSE CHOOSE i \in DOMAIN order : order[i] = c]
                      ELSE NoRow]
    /\ noted = {} /\ delivered = Initial /\ blind = {} /\ emptied = FALSE /\ withdrawn = {}
    /\ job = NoJob /\ opened = 0 /\ resets = 0
    /\ enabled = TRUE /\ torn = FALSE /\ flips = 0
    /\ lease = NoProc
    /\ pc = [p \in Procs |-> "idle"]
    /\ op = [p \in Procs |-> NoOp]
    /\ todo = [r \in Runners |-> {}]
    /\ faults = 0

-----------------------------------------------------------------------------
Goto(p, label) == pc' = [pc EXCEPT ![p] = label]

Fault(kind) ==
    /\ kind \in Faults
    /\ IF kind \in Solo THEN faults = 0 /\ faults' = MaxFaults
       ELSE faults < MaxFaults /\ faults' = faults + 1
NoFault == UNCHANGED faults

Live(c) == row[c].st \in {"active", "retiring"}
LiveRows == {c \in Secrets : Live(c)}
Retiring == {c \in Secrets : row[c].st = "retiring"}

(* liveRows: NULL ordinals first, then by ordinal. *)
Index(c) == 1 + Cardinality({d \in LiveRows : row[d].ord < row[c].ord})

(* The store gives a new row the next ordinal of the pair. *)
NextOrdinal == 1 + CHOOSE n \in {row[c].ord : c \in Secrets} :
                     \A c \in Secrets : row[c].ord <= n

SetStatus(c, st) == row' = [row EXCEPT ![c].st = st]
NewRow(c, st) == row' = [row EXCEPT ![c] = [st |-> st, ord |-> NextOrdinal,
                                            late |-> opened]]

(* edgeArrayLength: of basicauth the rows are all there is to count. *)
ArrayLength == IF shown THEN Len(entries) ELSE Cardinality(LiveRows)

(* assertNoPendingRecovery. *)
Blocks == job.st # "none" /\ opened < resets

-----------------------------------------------------------------------------
(* Inside p's section, at a label; and the end of the section. *)
At(p, label) == pc[p] = label /\ lease = p

(* Slip: an error leaves without giving the key back. *)
Leave_KeepsKey(p, ok) ==
    /\ lease' = IF lease = p /\ ok THEN NoProc ELSE lease
    /\ Goto(p, IF p \in Ops THEN "done" ELSE IF ok THEN "list" ELSE "rfail")

Leave(p, ok) ==
    /\ lease' = IF lease = p THEN NoProc ELSE lease
    /\ Goto(p, IF p \in Ops THEN "done" ELSE IF ok THEN "list" ELSE "rfail")

Step(p, label) == Goto(p, label) /\ UNCHANGED lease

(* An answer that does not come: a read, or the wait for the key, throws. *)
ReadFails(p) == Fault("read") /\ Leave(p, FALSE)

(* A database write, then the label next.  It may fail, or commit without   *)
(* an acknowledgement; both throw, and Leave or the label orelse follows.   *)
Write(p, effect, next, orelse) ==
    \/ effect /\ Step(p, next) /\ NoFault
    \/ UNCHANGED row /\ Fault("tx") /\ Step(p, orelse)
    \/ effect /\ Fault("ack") /\ Step(p, orelse)

WriteOrLeave(p, effect, next) ==
    \/ effect /\ Step(p, next) /\ NoFault
    \/ UNCHANGED row /\ Fault("tx") /\ Leave(p, FALSE)
    \/ effect /\ Fault("ack") /\ Leave(p, FALSE)

(* The last write of a section, that decides only whether it throws. *)
WriteAndLeave(p, effect) ==
    \/ effect /\ NoFault /\ Leave(p, TRUE)
    \/ UNCHANGED row /\ Fault("tx") /\ Leave(p, FALSE)
    \/ effect /\ Fault("ack") /\ Leave(p, FALSE)

-----------------------------------------------------------------------------
(* A request arrives.  issue and rotate refuse at once while a recovery is  *)
(* owed; rotate and revoke load their target first.                         *)
Begin(p, k, t) ==
    /\ pc[p] = "idle"
    /\ k \in {"issue", "rotate"} => ~ Blocks /\ enabled
    /\ k = "teardown" => ~ enabled
    /\ k = "clear" => ~ shown
    /\ IF k \in {"rotate", "revoke", "clear"} THEN t \in LiveRows ELSE t = NoProc
    /\ op' = [op EXCEPT ![p] = [NoOp EXCEPT !.kind = k, !.target = t]]
    /\ Goto(p, "key")
    /\ NoFault /\ UNCHANGED <<entries, row, history, lease, outside>>

Enter(p) ==
    /\ pc[p] = "key"
    /\ \/ lease = NoProc /\ lease' = p /\ Goto(p, "check") /\ NoFault
       \/ ReadFails(p)
    /\ UNCHANGED <<entries, row, history, op, outside>>

(* What is read again inside the key: the owner's status, the target's row. *)
(* Slip: the owner is not read again inside the key. *)
Check_TrustsRoute(p) ==
    /\ At(p, "check")
    /\ LET k == op[p].kind
           live == op[p].target \in LiveRows
           refused == (k = "rotate" /\ ~ live) \/ (k = "teardown" /\ enabled)
           nothing == k \in {"revoke", "clear", "recover"} /\ ~ live
       IN  \/ /\ NoFault
              /\ IF refused \/ nothing
                 THEN Leave(p, nothing)
                 ELSE Step(p, IF k \in {"reconcile", "teardown"} THEN "wipe" ELSE "get")
           \/ ReadFails(p)
    /\ UNCHANGED <<entries, row, history, op, outside>>

Check(p) ==
    /\ At(p, "check")
    /\ LET k == op[p].kind
           live == op[p].target \in LiveRows
           refused == \/ k \in {"issue", "rotate"} /\ ~ enabled
                      \/ k = "rotate" /\ ~ live
                      \/ k = "teardown" /\ enabled
           nothing == k \in {"revoke", "clear", "recover"} /\ ~ live
       IN  \/ /\ NoFault
              /\ IF refused \/ nothing
                 THEN Leave(p, nothing)
                 ELSE Step(p, IF k \in {"reconcile", "teardown"} THEN "wipe" ELSE "get")
           \/ ReadFails(p)
    /\ UNCHANGED <<entries, row, history, op, outside>>

(* The consumer and the live rows; then settleLostRetirement when they are  *)
(* one apart and one row is retiring.                                       *)
(* Slip: a retiring row is settled whatever the array's length. *)
Get_SettlesAnyRetirement(p) ==
    /\ At(p, "get")
    /\ \/ /\ NoFault
          /\ op' = [op EXCEPT ![p].len = ArrayLength]
          /\ Step(p, IF Cardinality(Retiring) = 1 THEN "settle" ELSE "place")
       \/ ReadFails(p) /\ UNCHANGED op
    /\ UNCHANGED <<entries, row, history, outside>>

Get(p) ==
    /\ At(p, "get")
    /\ \/ /\ NoFault
          /\ op' = [op EXCEPT ![p].len = ArrayLength]
          /\ Step(p, IF /\ Cardinality(LiveRows) = ArrayLength + 1
                        /\ Cardinality(Retiring) = 1
                     THEN "settle" ELSE "place")
       \/ ReadFails(p) /\ UNCHANGED op
    /\ UNCHANGED <<entries, row, history, outside>>

SettleLostRetirement(p) ==
    /\ At(p, "settle")
    /\ \E c \in Retiring : WriteOrLeave(p, SetStatus(c, "revoked"), "place")
    /\ UNCHANGED <<entries, history, op, outside>>

-----------------------------------------------------------------------------
(* assertPositionsConfirmed, and the refusals of resolveCredentialIndex. *)
Confirmed == shown \/ Retiring = {}
Aligned(p) == Cardinality(LiveRows) = op[p].len
(* Slip: a row with no ordinal is placed by the order it is listed in. *)
Ambiguous_Never(t) == FALSE

Ambiguous(t) == row[t].ord = 0 /\ \E d \in LiveRows \ {t} : row[d].ord = 0

(* revokePosition, for the target t of p. *)
Position(p, t) ==
    LET others == LiveRows \ {t}
        whole == IF shown THEN ~ Aligned(p) /\ others = {}
                 ELSE \/ op[p].kind = "clear"
                      \/ \A d \in others : row[d].st # "active"
        placed == Aligned(p) /\ Confirmed /\ ~ Ambiguous(t)
    IN  CASE t \notin LiveRows -> "notlive"
          [] t \in LiveRows /\ whole -> "whole"
          [] t \in LiveRows /\ ~ whole /\ placed -> "index"
          [] OTHER -> "refused"

(* Issued after the runner's cutoff, the unblocked_at it claimed with. *)
Spared(r, c) == op[r].cutoff > 0 /\ row[c].late >= op[r].cutoff

(* Where the operation acts, or that it refuses.  A recovery that cannot be  *)
(* placed empties the type, unless that would take a key issued after it    *)
(* stopped blocking.                                                        *)
Place(p) ==
    /\ At(p, "place")
    /\ NoFault
    /\ LET t == op[p].target
           where == Position(p, t)
           fallback == /\ op[p].kind = "recover"
                       /\ \A d \in LiveRows : ~ Spared(p, d)
           to(label, pos, whole) ==
              /\ Step(p, label)
              /\ op' = [op EXCEPT ![p] = [@ EXCEPT !.pos = pos, !.whole = whole]]
           refuse == Leave(p, FALSE) /\ UNCHANGED op
       IN  CASE op[p].kind = "issue" ->
                  IF Confirmed /\ Cardinality(LiveRows) < Cap
                  THEN to("gate", 0, FALSE) ELSE refuse
             [] op[p].kind = "rotate" ->
                  IF /\ Confirmed /\ t \in LiveRows
                     /\ Aligned(p) /\ ~ Ambiguous(t)
                  THEN to("gate", Index(t), FALSE) ELSE refuse
             [] OTHER ->
                  CASE where = "notlive" -> to("close", 0, FALSE)
                    [] where = "whole" -> to("intent", 0, TRUE)
                    [] where = "index" -> to("intent", Index(t), FALSE)
                    [] OTHER -> IF fallback THEN to("intent", 0, TRUE) ELSE refuse
    /\ UNCHANGED <<entries, row, history, outside>>

(* A rotation at the cap deletes first; any other appends first. *)
DeleteFirst(p) == op[p].kind = "rotate" /\ op[p].len >= Cap
AppendFirst(p) == op[p].kind = "rotate" /\ op[p].len < Cap
AppendIndex(p) == IF DeleteFirst(p) THEN op[p].len - 1 ELSE op[p].len
ToAppend == IF shown THEN "append" ELSE "pend"

(* assertNoPendingRecovery again, inside the key. *)
Gate(p) ==
    /\ At(p, "gate")
    /\ \/ /\ NoFault
          /\ IF Blocks THEN Leave(p, FALSE)
             ELSE Step(p, IF DeleteFirst(p) THEN "intent" ELSE ToAppend)
       \/ ReadFails(p)
    /\ UNCHANGED <<entries, row, history, op, outside>>

-----------------------------------------------------------------------------
(* The intent before the act: the row is retiring before the delete.  A     *)
(* rotation that has appended takes its append back when this fails.        *)
Intent(p) ==
    /\ At(p, "intent")
    /\ LET effect == SetStatus(op[p].target, "retiring")
       IN  IF AppendFirst(p)
           THEN /\ Write(p, effect, "delete", "reclaim")
                /\ op' = [op EXCEPT ![p].why = "swap"]
           ELSE WriteOrLeave(p, effect, "delete") /\ UNCHANGED op
    /\ UNCHANGED <<entries, history, outside>>

(* A gateway delete: applied and answered, refused, or applied with the      *)
(* answer lost.                                                             *)
Without(i) == SubSeq(entries, 1, i - 1) \o SubSeq(entries, i + 1, Len(entries))

EdgeDelete(p, result, next, orelse) ==
    \/ entries' = result /\ NoFault /\ Step(p, next)
    \/ UNCHANGED entries /\ Fault("refuse") /\ Step(p, orelse)
    \/ entries' = result /\ Fault("lost") /\ Step(p, orelse)

(* removeAt: by index, or the whole type. *)
Delete(p) ==
    /\ At(p, "delete")
    /\ LET next == IF DeleteFirst(p) THEN "retired"
                   ELSE IF AppendFirst(p) THEN "rotated" ELSE "close"
           orelse == IF AppendFirst(p) THEN "reclaim" ELSE "probe"
       IN  IF op[p].whole \/ op[p].pos \in DOMAIN entries
           THEN EdgeDelete(p, IF op[p].whole THEN <<>> ELSE Without(op[p].pos), next, orelse)
           ELSE UNCHANGED entries /\ NoFault /\ Step(p, orelse)
    /\ UNCHANGED <<row, history, op, outside>>

(* deleteDidNotApply: an array still as long as before was not touched. *)
Probe(p) ==
    /\ At(p, "probe")
    /\ \/ /\ NoFault
          /\ IF shown /\ Len(entries) = op[p].len THEN Step(p, "unretire") ELSE Leave(p, FALSE)
       \/ ReadFails(p)
    /\ UNCHANGED <<entries, row, history, op, outside>>

(* The row of t, if the step makes it active again, is one a sweep may      *)
(* have missed in both of its listings.                                     *)
GivenBack(t) == withdrawn' = IF row' = row THEN withdrawn ELSE withdrawn \cup {t}

(* withdrawRetirement: three attempts, and the caller's error either way.   *)
(* A commit whose acknowledgement is lost is found by its audit row.        *)
WithdrawRetirement(p) ==
    /\ At(p, "unretire")
    /\ LET t == op[p].target
       IN  \/ /\ row' = [row EXCEPT ![t].st = IF @ = "retiring" THEN "active" ELSE @]
              /\ (NoFault \/ Fault("ack"))
              /\ Leave(p, FALSE) /\ UNCHANGED op
           \/ /\ Fault("tx") /\ UNCHANGED row
              /\ op' = [op EXCEPT ![p].tries = @ + 1]
              /\ IF op[p].tries < 2 THEN Step(p, "unretire") ELSE Leave(p, FALSE)
    /\ GivenBack(op[p].target)
    /\ UNCHANGED <<entries, noted, delivered, blind, emptied, outside>>

(* A rotation at the cap settles the old row as soon as its entry is gone. *)
Retired(p) ==
    /\ At(p, "retired")
    /\ WriteOrLeave(p, SetStatus(op[p].target, "revoked"), ToAppend)
    /\ UNCHANGED <<entries, history, op, outside>>

(* The end of a revocation: the target, and what a whole-type delete took. *)
Revoked(c) == [row[c] EXCEPT !.st = IF @ \in {"active", "retiring"} THEN "revoked" ELSE @]
RevokeAll == row' = [c \in Secrets |-> Revoked(c)]

Close(p) ==
    /\ At(p, "close")
    /\ WriteAndLeave(p, IF op[p].whole THEN RevokeAll ELSE SetStatus(op[p].target, "revoked"))
    /\ UNCHANGED <<entries, history, op, outside>>

-----------------------------------------------------------------------------
(* basicauth writes its row first, as retiring: no read could find the      *)
(* entry afterwards.                                                        *)
Pend(p) ==
    /\ At(p, "pend")
    /\ WriteOrLeave(p, NewRow(p, "retiring"), "append")
    /\ UNCHANGED <<entries, history, op, outside>>

(* addCredential.  The gateway has a cap of its own.  Only a definite 4xx    *)
(* proves that nothing was appended; a refusal may also answer like a lost   *)
(* acknowledgement.                                                          *)
AppendEntry(p) ==
    /\ At(p, "append")
    /\ LET room == Len(entries) < Cap
       IN  \/ /\ room /\ entries' = Append(entries, p)
              /\ NoFault /\ Step(p, "mirror") /\ UNCHANGED op
           \/ /\ UNCHANGED entries
              /\ IF room THEN Fault("refuse") ELSE NoFault
              /\ \/ Step(p, IF shown THEN "reclaim" ELSE "unpend")
                 \/ room /\ ~shown /\ Step(p, "note")
              /\ op' = [op EXCEPT ![p].why = "post"]
           \/ /\ room /\ entries' = Append(entries, p)
              /\ Fault("lost")
              /\ Step(p, IF shown THEN "reclaim" ELSE "note")
              /\ op' = [op EXCEPT ![p].why = "post"]
    /\ UNCHANGED <<row, history, outside>>

Unpend(p) ==
    /\ At(p, "unpend")
    /\ \/ row' = [row EXCEPT ![p] = NoRow] /\ (NoFault \/ Fault("ack"))
       \/ UNCHANGED row /\ Fault("tx")
    /\ Leave(p, FALSE)
    /\ UNCHANGED <<entries, history, op, outside>>

(* The client is answered, with the secret. *)
Deliver(p) == delivered' = delivered \cup {p} /\ Leave(p, TRUE)

(* The row of the entry: created, or, for basicauth, activated. *)
Mirror(p) ==
    /\ At(p, "mirror")
    /\ LET effect == IF shown THEN NewRow(p, "active")
                     ELSE row' = [row EXCEPT ![p].st = IF @ = "retiring" THEN "active" ELSE @]
       IN  \/ /\ effect /\ NoFault /\ UNCHANGED op
              /\ IF AppendFirst(p) THEN Step(p, "intent") /\ UNCHANGED delivered
                 ELSE Deliver(p)
           \/ /\ \/ UNCHANGED row /\ Fault("tx")
                 \/ effect /\ Fault("ack")
              /\ Step(p, IF shown THEN "reclaim" ELSE "note")
              /\ op' = [op EXCEPT ![p].why = "row"]
              /\ UNCHANGED delivered
    /\ UNCHANGED <<entries, noted, blind, emptied, withdrawn, outside>>

-----------------------------------------------------------------------------
(* withdrawAppendedEntry takes the entry back when the array is exactly as   *)
(* the append left it; reclaimUnacknowledgedAppend records nothing for one   *)
(* that never grew.                                                         *)
(* Slip: an array that cannot be read is taken for one that never grew. *)
Reclaim_UnreadableIsClean(p) ==
    /\ At(p, "reclaim")
    /\ LET n == AppendIndex(p)
       IN  \/ /\ NoFault
              /\ IF shown /\ Len(entries) = n + 1 THEN Step(p, "withdraw")
                 ELSE IF shown /\ op[p].why = "post" /\ Len(entries) = n
                      THEN Leave(p, FALSE)
                 ELSE Step(p, "note")
           \/ shown /\ ReadFails(p)
    /\ UNCHANGED <<entries, row, history, op, outside>>

Reclaim(p) ==
    /\ At(p, "reclaim")
    /\ LET n == AppendIndex(p)
       IN  \/ /\ NoFault
              /\ IF shown /\ Len(entries) = n + 1 THEN Step(p, "withdraw")
                 ELSE IF shown /\ op[p].why = "post" /\ Len(entries) = n
                      THEN Leave(p, FALSE)
                 ELSE Step(p, "note")
           \/ shown /\ Fault("read") /\ Step(p, "note")
    /\ UNCHANGED <<entries, row, history, op, outside>>

AfterWithdrawal(p) == IF op[p].why = "swap" THEN "unlist" ELSE "note"

Withdraw(p) ==
    /\ At(p, "withdraw")
    /\ EdgeDelete(p, Without(AppendIndex(p) + 1), AfterWithdrawal(p), "reread")
    /\ UNCHANGED <<row, history, op, outside>>

(* A delete that threw is looked at again. *)
Reread(p) ==
    /\ At(p, "reread")
    /\ LET n == AppendIndex(p)
       IN  \/ /\ NoFault
              /\ Step(p, CASE Len(entries) = n -> AfterWithdrawal(p)
                           [] Len(entries) = n + 1 /\ op[p].why = "swap" -> "reactivate"
                           [] OTHER -> "note")
           \/ Fault("read") /\ Step(p, "note")
    /\ UNCHANGED <<entries, row, history, op, outside>>

(* A failed swap: the replacement's row goes with its entry, and the old    *)
(* row is active again.  Neither failure is reported.                       *)
Unlist(p) ==
    /\ At(p, "unlist")
    /\ Write(p, row' = [row EXCEPT ![p] = NoRow], "reactivate", "reactivate")
    /\ UNCHANGED <<entries, history, op, outside>>

Reactivate(p) ==
    /\ At(p, "reactivate")
    /\ Write(p, SetStatus(op[p].target, "active"), "note", "note")
    /\ GivenBack(op[p].target)
    /\ UNCHANGED <<entries, noted, delivered, blind, emptied, op, outside>>

(* recordAppendRollback, best effort; then the caller's error. *)
Note(p) ==
    /\ At(p, "note")
    /\ \/ noted' = noted \cup {p} /\ NoFault /\ UNCHANGED blind
       \/ blind' = blind \cup {p} /\ Fault("tx") /\ UNCHANGED noted
    /\ Leave(p, FALSE)
    /\ UNCHANGED <<entries, row, delivered, emptied, withdrawn, op, outside>>

(* The end of a rotation that appended first. *)
Rotated(p) ==
    /\ At(p, "rotated")
    /\ LET effect == SetStatus(op[p].target, "revoked")
       IN  \/ effect /\ NoFault /\ Deliver(p)
           \/ /\ \/ UNCHANGED row /\ Fault("tx")
                 \/ effect /\ Fault("ack")
              /\ Step(p, "note") /\ UNCHANGED delivered
    /\ UNCHANGED <<entries, noted, blind, emptied, withdrawn, op, outside>>

-----------------------------------------------------------------------------
(* reconcile and the teardown of a disabled account: the gateway first, then *)
(* every live row.                                                          *)
Wipe(p) ==
    /\ At(p, "wipe")
    /\ \/ entries' = <<>> /\ emptied' = TRUE /\ NoFault /\ Step(p, "clearrows")
       \/ UNCHANGED <<entries, emptied>> /\ Fault("refuse") /\ Leave(p, FALSE)
       \/ entries' = <<>> /\ emptied' = TRUE /\ Fault("lost") /\ Leave(p, FALSE)
    /\ UNCHANGED <<row, noted, delivered, blind, withdrawn, op, outside>>

ClearRows(p) ==
    /\ At(p, "clearrows")
    /\ WriteAndLeave(p, RevokeAll)
    /\ torn' = (torn \/ (op[p].kind = "teardown" /\ ~ enabled /\ faults' = faults))
    /\ emptied' = (row' = row /\ LiveRows # {})
    /\ UNCHANGED <<entries, noted, delivered, blind, withdrawn, op, shown, enabled, flips, recovery>>

-----------------------------------------------------------------------------
(* resetPassword, when the reset is a trusted proof: the job is owed again,  *)
(* blocking, under a new generation.                                        *)
Reset ==
    /\ resets + flips < MaxEvents /\ enabled
    /\ resets' = resets + 1
    /\ job' = [st |-> "pending", by |-> NoProc, att |-> 0]
    /\ withdrawn' = {}
    /\ NoFault
    /\ UNCHANGED <<entries, row, noted, delivered, blind, emptied, shown, account, opened, todo,
                   lease, pc, op>>

(* claimDue or claimPending. *)
Claim(r) ==
    /\ pc[r] = "idle" /\ job.st = "pending"
    /\ job' = [job EXCEPT !.st = "sending", !.by = r,
                          !.att = IF @ < BlockingAttempts THEN @ + 1 ELSE @]
    /\ op' = [op EXCEPT ![r] = [NoOp EXCEPT !.kind = "recover",
                                            !.cutoff = IF opened = resets THEN resets ELSE 0]]
    /\ Goto(r, "list")
    /\ NoFault
    /\ UNCHANGED <<entries, row, history, shown, account, opened, resets, todo, lease>>

(* sweepForAccountRecovery, twice, with the empty section of                *)
(* revokeForAccountRecovery between: active rows, then retiring rows, each  *)
(* listed until nothing is left to revoke.                                  *)
ListedStatus(r) == IF op[r].phase \in {1, 4} THEN "active" ELSE "retiring"
Listed(r) == {c \in Secrets : row[c].st = ListedStatus(r) /\ ~ Spared(r, c)}

List(r) ==
    /\ pc[r] = "list" /\ todo[r] = {}
    /\ \/ /\ NoFault
          /\ IF op[r].phase = 3 THEN Goto(r, "barrier") /\ UNCHANGED <<op, todo>>
             ELSE IF Listed(r) # {}
                  THEN todo' = [todo EXCEPT ![r] = Listed(r)] /\ UNCHANGED <<op, pc>>
             ELSE /\ op' = [op EXCEPT ![r].phase = @ + 1]
                  /\ Goto(r, IF op[r].phase = 5 THEN "rdone" ELSE "list")
                  /\ UNCHANGED todo
       \/ Fault("read") /\ Goto(r, "rfail") /\ UNCHANGED <<op, todo>>
    /\ UNCHANGED <<entries, row, history, shown, account, job, opened, resets, lease>>

(* The next row of the page. *)
RevokeNext(r) ==
    /\ pc[r] = "list"
    /\ \E c \in todo[r] :
          /\ todo' = [todo EXCEPT ![r] = @ \ {c}]
          /\ op' = [op EXCEPT ![r] = [NoOp EXCEPT !.kind = "recover", !.target = c,
                                      !.phase = op[r].phase, !.cutoff = op[r].cutoff]]
    /\ Goto(r, "key")
    /\ NoFault
    /\ UNCHANGED <<entries, row, history, shown, account, job, opened, resets, lease>>

(* Slip: the second sweep does not wait for the section under way. *)
Barrier_NoWait(r) ==
    /\ pc[r] = "barrier"
    /\ NoFault
    /\ op' = [op EXCEPT ![r].phase = 4]
    /\ Goto(r, "list")
    /\ UNCHANGED <<entries, row, history, lease, outside>>

Barrier(r) ==
    /\ pc[r] = "barrier"
    /\ \/ /\ lease = NoProc /\ NoFault
          /\ op' = [op EXCEPT ![r].phase = 4]
          /\ Goto(r, "list")
       \/ Fault("read") /\ Goto(r, "rfail") /\ UNCHANGED op
    /\ UNCHANGED <<entries, row, history, lease, outside>>

Holds(r) == job.st = "sending" /\ job.by = r

(* deleteClaimed. *)
Finish(r) ==
    /\ pc[r] = "rdone"
    /\ \/ /\ NoFault
          /\ IF Holds(r) THEN job' = NoJob /\ Goto(r, "idle")
             ELSE Goto(r, "rfail") /\ UNCHANGED job
       \/ Fault("tx") /\ Goto(r, "rfail") /\ UNCHANGED job
    /\ UNCHANGED <<entries, row, history, shown, account, opened, resets, todo, lease, op>>

(* The catch of runAccountRecovery: reschedule, and markUnblocked once the   *)
(* threshold is reached.  A failed write leaves SENDING for releaseStale.    *)
Fail(r) ==
    /\ pc[r] = "rfail"
    /\ \/ /\ NoFault
          /\ IF Holds(r)
             THEN /\ job' = [job EXCEPT !.st = "pending"]
                  /\ opened' = IF job.att >= BlockingAttempts THEN resets ELSE opened
             ELSE UNCHANGED <<job, opened>>
       \/ Fault("tx") /\ UNCHANGED <<job, opened>>
    /\ Goto(r, "idle")
    /\ todo' = [todo EXCEPT ![r] = {}]
    /\ op' = [op EXCEPT ![r] = NoOp]
    /\ UNCHANGED <<entries, row, history, shown, account, resets, lease>>

(* releaseStale: after a restart or a lost write, or under a slow runner. *)
ReleaseStale ==
    /\ job.st = "sending"
    /\ IF pc[job.by] = "idle" THEN NoFault ELSE Fault("stale")
    /\ job' = [job EXCEPT !.st = "pending", !.by = NoProc]
    /\ UNCHANGED <<entries, row, history, shown, account, opened, resets, todo, lease, pc, op>>

-----------------------------------------------------------------------------
(* The process stops; its lease runs out.  What it had appended and not yet *)
(* mirrored nobody records.                                                 *)
Crash(p) ==
    /\ pc[p] \notin {"idle", "done"}
    /\ Fault("crash")
    /\ lease' = IF lease = p THEN NoProc ELSE lease
    /\ pc' = [pc EXCEPT ![p] = IF p \in Ops THEN "done" ELSE "idle"]
    /\ op' = [op EXCEPT ![p] = NoOp]
    /\ todo' = [r \in Runners |-> IF r = p THEN {} ELSE todo[r]]
    /\ blind' = IF p \in Ops THEN blind \cup {p} ELSE blind
    /\ UNCHANGED <<entries, row, noted, delivered, emptied, withdrawn, shown, account, job, opened,
                   resets>>

Disable ==
    /\ enabled /\ resets + flips < MaxEvents
    /\ enabled' = FALSE /\ flips' = flips + 1
    /\ NoFault
    /\ UNCHANGED <<entries, row, history, shown, torn, recovery, lease, pc, op>>

Enable ==
    /\ ~ enabled
    /\ enabled' = TRUE /\ torn' = FALSE
    /\ NoFault
    /\ UNCHANGED <<entries, row, history, shown, flips, recovery, lease, pc, op>>

(* Every operation has had its turn and no recovery is owed. *)
Finished ==
    /\ \A p \in Ops : pc[p] = "done"
    /\ \A r \in Runners : pc[r] = "idle"
    /\ job.st = "none"
    /\ UNCHANGED vars

-----------------------------------------------------------------------------
Requests == \E p \in Ops, k \in Kinds \ {"recover"}, t \in Secrets \cup {NoProc} :
              Begin(p, k, t)

(* One step of a section. *)
SectionStep(p) ==
    \/ Enter(p) \/ Check(p) \/ Get(p) \/ SettleLostRetirement(p) \/ Place(p) \/ Gate(p)
    \/ Intent(p) \/ Delete(p) \/ Probe(p) \/ WithdrawRetirement(p) \/ Retired(p) \/ Close(p)
    \/ Pend(p) \/ AppendEntry(p) \/ Unpend(p) \/ Mirror(p)
    \/ Reclaim(p) \/ Withdraw(p) \/ Reread(p) \/ Unlist(p) \/ Reactivate(p) \/ Note(p)
    \/ Rotated(p) \/ Wipe(p) \/ ClearRows(p)

RunnerStep(r) ==
    Claim(r) \/ List(r) \/ RevokeNext(r) \/ Barrier(r) \/ Finish(r) \/ Fail(r)

Next ==
    \/ Requests
    \/ \E p \in Procs : SectionStep(p)
    \/ \E r \in Runners : RunnerStep(r)
    \/ ReleaseStale \/ Reset \/ Disable \/ Enable
    \/ \E p \in Procs : Crash(p)
    \/ Finished

Spec == Init /\ [][Next]_vars

-----------------------------------------------------------------------------
(* A row says revoked only when its secret works no more: the gateway goes   *)
(* first in every revocation, and a settlement finds what is really gone.    *)
(* Not so of basicauth once a wipe left rows behind: no read can tell that   *)
(* the positions of the rows have become those of later keys.                *)
RevokedIsDead ==
    shown \/ ~ emptied => \A c \in Secrets : row[c].st = "revoked" => c \notin Working

(* A secret a client was given is taken from the gateway only by the         *)
(* operation that retires it, or by one that empties the whole type: a       *)
(* positional delete never lands on another key.                            *)
EmptiesType(p) ==
    \/ pc[p] = "wipe"
    \/ pc[p] = "delete" /\ op[p].whole
KeyLost ==
    \E c \in delivered :
        /\ c \in Working /\ c \notin Working'
        /\ row[c].st # "retiring"
        /\ ~ \E p \in Procs : lease = p /\ EmptiesType(p)
NoLiveKeyLost == [][shown \/ ~ emptied => ~ KeyLost]_vars

(* The same with no exception for basicauth after a wipe: what the code and  *)
(* docs say of every destructive call.                                      *)
PositionsAreConfirmed == [][~ KeyLost]_vars

(* A secret that works and has no live row is in the hands of a running      *)
(* operation, or named by a rollback row, or its operation died before it    *)
(* could write one; for basicauth, where nothing could find it later, there  *)
(* is always a row, with the exception above.                               *)
SecretsAreAccountedFor ==
    shown \/ ~ emptied =>
      \A c \in Working \ LiveRows :
        /\ shown
        /\ c \in noted \cup blind \/ (c \in Ops /\ pc[c] # "done")

(* When a recovery's job is deleted, no key of before the reset is live,     *)
(* except one that another operation began to retire and gave back while     *)
(* the sweeps ran: one being appended while they listed is caught behind the *)
(* barrier.                                                                 *)
SettlesRecovery == job.st = "sending" /\ job'.st = "none"
Kept(c) == opened = resets /\ row[c].late = resets
RecoveryRevokesAll ==
    [][SettlesRecovery => \A c \in LiveRows \ withdrawn : Kept(c)]_vars

(* Once a teardown completed, the account holds no working secret until it   *)
(* is enabled: an issue that was queued behind it is refused inside the key. *)
TornDownHoldsNothing == torn => Working = {}
=============================================================================
