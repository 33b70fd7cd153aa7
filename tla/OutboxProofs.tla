----------------------------- MODULE OutboxProofs -----------------------------
(***************************************************************************)
(* Theorems about Outbox, for any messages, workers and releases, any      *)
(* batch size and number of attempts, and any number of mishaps.           *)
(***************************************************************************)
EXTENDS Outbox, TLAPS

Labels == {"idle", "tick", "keys", "auth", "window", "sent", "retry", "again",
           "fail", "park", "rkey", "release", "done"}
States == {"absent", "pending", "sending", "sent", "failed"}
Rows == [st : States, gen : Workers \cup {NoProc}, att : Nat,
         due : BOOLEAN, old : BOOLEAN]

(* The types without the bound on attempts, and what each await says of    *)
(* its process: a worker at an attempt has a message and room in its batch.*)
WellFormed ==
    /\ row \in [Messages -> Rows]
    /\ early \in [Messages -> BOOLEAN]
    /\ copies \in [Messages -> Nat]
    /\ address \in {"ours", "released", "reused"}
    /\ smtp \in BOOLEAN
    /\ lease \in Procs \cup {NoProc}
    /\ held \in SUBSET Procs
    /\ pc \in [Procs -> Labels]
    /\ mine \in [Workers -> Messages \cup {NoMessage}]
    /\ taken \in [Workers -> 0..BatchSize]
    /\ lapses \in 0..MaxLapses
    /\ errors \in 0..MaxErrors
    /\ \A p \in held : pc[p] \notin {"idle", "tick", "keys", "rkey", "done"}
    /\ \A w \in Workers :
         /\ pc[w] \notin {"rkey", "release", "done"}
         /\ pc[w] \notin {"idle", "tick"} => mine[w] \in Messages /\ taken[w] < BatchSize
    /\ \A a \in Releasers : pc[a] \in {"idle", "rkey", "release", "done"}

(* Updating fields of a row gives a row. *)
LEMMA RowUpdates ==
  ASSUME NEW r \in Rows, NEW s \in States, NEW g \in Workers \cup {NoProc},
         NEW n \in Nat, NEW d \in BOOLEAN, NEW o \in BOOLEAN
  PROVE  /\ [r EXCEPT !.st = s, !.due = d] \in Rows
         /\ [r EXCEPT !.st = s, !.old = o] \in Rows
         /\ [r EXCEPT !.st = s, !.due = d, !.old = o] \in Rows
         /\ [r EXCEPT !.st = s, !.gen = g, !.due = d] \in Rows
         /\ [r EXCEPT !.st = s, !.gen = g, !.att = n, !.due = d, !.old = o] \in Rows
  BY Zenon DEF Rows

(* What the rows become: each of the operators that rewrite one gives a row. *)
LEMMA RewrittenRows ==
  ASSUME WellFormed
  PROVE  /\ NoRow \in Rows
         /\ \A m \in Messages : Released(m) \in Rows /\ Cancelled(m) \in Rows
         /\ \A m \in Messages, w \in Workers : Claimed(w, m) \in Rows
         /\ \A w \in Workers :
              mine[w] \in Messages => Authorized(w) \in [Messages -> Rows]
         /\ \A w \in Workers :
              mine[w] \in Messages /\ pc[w] \in {"sent", "retry", "again", "fail", "park"}
                => Settled(w) \in [Messages -> Rows]
  <1>1. NoRow \in Rows
    BY DEF NoRow, Rows, States
  <1>2. ASSUME NEW m \in Messages PROVE Released(m) \in Rows /\ Cancelled(m) \in Rows
    <2>1. row[m] \in Rows /\ "pending" \in States /\ "failed" \in States
      BY DEF WellFormed, States
    <2>2. Released(m) \in Rows
      BY <2>1, RowUpdates, Zenon DEF Released
    <2>3. Cancelled(m) \in Rows
      BY <2>1, RowUpdates, Zenon DEF Cancelled
    <2> QED
      BY <2>2, <2>3
  <1>3. ASSUME NEW m \in Messages, NEW w \in Workers PROVE Claimed(w, m) \in Rows
    <2> DEFINE s == IF m \in Bound /\ address # "ours" THEN "failed" ELSE "sending"
    <2>1. row[m] \in Rows /\ s \in States
      BY DEF WellFormed, States
    <2>2. row[m].att + 1 \in Nat
      BY <2>1 DEF Rows
    <2> QED
      BY <2>1, <2>2, RowUpdates, Zenon DEF Claimed
  <1>4. ASSUME NEW w \in Workers, mine[w] \in Messages
        PROVE  Authorized(w) \in [Messages -> Rows]
    <2> DEFINE s == IF Ineligible(w) THEN "failed" ELSE "sending"
               r == [row[mine[w]] EXCEPT !.st = s, !.old = FALSE]
    <2>1. row \in [Messages -> Rows] /\ row[mine[w]] \in Rows /\ s \in States
      BY <1>4 DEF WellFormed, States
    <2>2. r \in Rows
      BY <2>1, RowUpdates, Zenon
    <2>3. Authorized(w) = [row EXCEPT ![mine[w]] = r]
      BY DEF Authorized
    <2> QED
      BY <1>4, <2>1, <2>2, <2>3, Zenon
  <1>5. ASSUME NEW w \in Workers, mine[w] \in Messages,
               pc[w] \in {"sent", "retry", "again", "fail", "park"}
        PROVE  Settled(w) \in [Messages -> Rows]
    <2> DEFINE s == CASE pc[w] = "sent" -> "sent"
                      [] pc[w] \in {"fail", "park"} -> "failed"
                      [] pc[w] \in {"retry", "again"} -> "pending"
               r == [row[mine[w]] EXCEPT !.st = s, !.due = (pc[w] = "again"), !.old = FALSE]
    <2>1. row \in [Messages -> Rows] /\ row[mine[w]] \in Rows /\ s \in States
      BY <1>5 DEF WellFormed, States
    <2>2. r \in Rows
      BY <2>1, RowUpdates, Zenon
    <2>3. Settled(w) = [row EXCEPT ![mine[w]] = r]
      BY DEF Settled
    <2> QED
      BY <1>5, <2>1, <2>2, <2>3, Zenon
  <1> QED
    BY <1>1, <1>2, <1>3, <1>4, <1>5

LEMMA WellFormedInit == Init => WellFormed
  <1> SUFFICES ASSUME Init PROVE WellFormed
    OBVIOUS
  <1>1. NoRow \in Rows
    BY DEF NoRow, Rows, States
  <1>2. row \in [Messages -> Rows]
    BY <1>1 DEF Init
  <1>3. 0 \in 0..BatchSize /\ 0 \in 0..MaxLapses /\ 0 \in 0..MaxErrors
    BY OutboxAssumption
  <1> QED
    BY <1>2, <1>3 DEF Init, WellFormed, Labels, Procs

(* What a step of the section and the end of an attempt do to the types. *)
LEMMA LeaveKeepsForm ==
  ASSUME WellFormed, NEW w \in Workers, pc[w] \notin {"idle", "tick"}, Leave(w)
  PROVE  /\ lease' \in Procs \cup {NoProc}
         /\ held' \in SUBSET Procs
         /\ pc' \in [Procs -> Labels]
         /\ mine' \in [Workers -> Messages \cup {NoMessage}]
         /\ taken' \in [Workers -> 0..BatchSize]
         /\ \A p \in held' : pc'[p] \notin {"idle", "tick", "keys", "rkey", "done"}
         /\ \A v \in Workers :
              /\ pc'[v] \notin {"rkey", "release", "done"}
              /\ pc'[v] \notin {"idle", "tick"} => mine'[v] \in Messages /\ taken'[v] < BatchSize
         /\ \A a \in Releasers : pc'[a] \in {"idle", "rkey", "release", "done"}
  BY OutboxAssumption
  DEF WellFormed, Leave, ReleaseHandoff, Goto, Procs, Labels

LEMMA WellFormedStep == WellFormed /\ [Next]_vars => WellFormed'
  <1> SUFFICES ASSUME WellFormed, [Next]_vars PROVE WellFormed'
    OBVIOUS
  <1> USE OutboxAssumption DEF Procs, Labels, Goto, Lapse, Error,
          locks, mishaps, Row
  <1>1. ASSUME NEW w \in Workers, Tick(w) PROVE WellFormed'
    BY <1>1, RewrittenRows DEF Tick, WellFormed
  <1>2. ASSUME NEW w \in Workers, EndTick(w) PROVE WellFormed'
    BY <1>2 DEF EndTick, WellFormed
  <1>3. ASSUME NEW w \in Workers, NEW m \in Messages, Claim(w, m) PROVE WellFormed'
    <2>1. row' \in [Messages -> Rows]
      BY <1>3, RewrittenRows DEF Claim, WellFormed
    <2> QED
      BY <1>3, <2>1 DEF Claim, WellFormed
  <1>4. ASSUME NEW w \in Workers, EnterHandoff(w) PROVE WellFormed'
    BY <1>4 DEF EnterHandoff, TakeHandoff, WellFormed
  <1>5. ASSUME NEW w \in Workers, HandoffFails(w) PROVE WellFormed'
    BY <1>5, LeaveKeepsForm DEF HandoffFails, WellFormed
  <1>6. ASSUME NEW w \in Workers, Authorize(w) PROVE WellFormed'
    <2>1. row' \in [Messages -> Rows]
      BY <1>6, RewrittenRows DEF Authorize, WellFormed
    <2>2. CASE Leave(w)
      BY <1>6, <2>1, <2>2, LeaveKeepsForm DEF Authorize, WellFormed
    <2> QED
      BY <1>6, <2>1, <2>2 DEF Authorize, WellFormed
  <1>7. ASSUME NEW w \in Workers, AuthorizeFails(w) PROVE WellFormed'
    BY <1>7, LeaveKeepsForm DEF AuthorizeFails, WellFormed
  <1>8. ASSUME NEW w \in Workers,
               HandoffExpired(w) \/ SealUnreadable(w) \/ RelayRefuses(w)
        PROVE  WellFormed'
    BY <1>8 DEF HandoffExpired, SealUnreadable, RelayRefuses, WellFormed
  <1>9. ASSUME NEW w \in Workers, RelayAccepts(w) \/ CutOff(w) PROVE WellFormed'
    BY <1>9 DEF RelayAccepts, CutOff, Accept, WellFormed
  <1>10. ASSUME NEW w \in Workers, Settle(w) PROVE WellFormed'
    <2>1. Settled(w) \in [Messages -> Rows]
      BY <1>10, RewrittenRows DEF Settle, WellFormed
    <2> QED
      BY <1>10, <2>1, LeaveKeepsForm DEF Settle, WellFormed
  <1>11. ASSUME NEW w \in Workers, SettleFails(w) PROVE WellFormed'
    <2>1. Settled(w) \in [Messages -> Rows]
      BY <1>11, RewrittenRows DEF SettleFails, WellFormed
    <2>2. CASE Leave(w)
      BY <1>11, <2>1, <2>2, LeaveKeepsForm DEF SettleFails, WellFormed
    <2> QED
      BY <1>11, <2>1, <2>2 DEF SettleFails, AfterFailedWrite, WellFormed
  <1>12. ASSUME NEW w \in Workers, Crash(w) PROVE WellFormed'
    BY <1>12 DEF Crash, Accept, WellFormed
  <1>13. ASSUME NEW a \in Releasers, ReleaseStart(a) \/ ReleaseKeys(a) PROVE WellFormed'
    BY <1>13 DEF ReleaseStart, ReleaseKeys, TakeHandoff, WellFormed
  <1>14. ASSUME NEW a \in Releasers, ReleaseCommit(a) PROVE WellFormed'
    <2>1. row' \in [Messages -> Rows]
      BY <1>14, RewrittenRows DEF ReleaseCommit, WellFormed
    <2> QED
      BY <1>14, <2>1 DEF ReleaseCommit, ReleaseHandoff, WellFormed
  <1>15. ASSUME NEW a \in Releasers, ReleaseFails(a) PROVE WellFormed'
    BY <1>15 DEF ReleaseFails, ReleaseHandoff, WellFormed
  <1>16. ASSUME NEW m \in Messages, Enqueue(m) \/ BecomesDue(m) \/ GetsOld(m)
         PROVE  WellFormed'
    <2>1. row[m] \in Rows /\ NoRow \in Rows
      BY RewrittenRows DEF WellFormed
    <2>2. row' \in [Messages -> Rows]
      <3>1. CASE Enqueue(m)
        <4> DEFINE s == IF m \in Bound /\ address # "ours" THEN "failed" ELSE "pending"
                   d == (m \notin Bound \/ address = "ours")
                   r == [NoRow EXCEPT !.st = s, !.due = d]
        <4>1. s \in States /\ d \in BOOLEAN
          BY DEF States
        <4>2. r \in Rows
          BY <2>1, <4>1, RowUpdates, Zenon
        <4>3. row' = [row EXCEPT ![m] = r]
          BY <3>1 DEF Enqueue
        <4> QED
          BY <4>2, <4>3, Zenon DEF WellFormed
      <3>2. CASE BecomesDue(m)
        <4>1. [row[m] EXCEPT !.due = TRUE] \in Rows
          BY <2>1 DEF Rows
        <4>2. row' = [row EXCEPT ![m] = [row[m] EXCEPT !.due = TRUE]]
          BY <3>2 DEF BecomesDue
        <4> QED
          BY <4>1, <4>2, Zenon DEF WellFormed
      <3>3. CASE GetsOld(m)
        <4>1. [row[m] EXCEPT !.old = TRUE] \in Rows
          BY <2>1 DEF Rows
        <4>2. row' = [row EXCEPT ![m] = [row[m] EXCEPT !.old = TRUE]]
          BY <3>3 DEF GetsOld
        <4> QED
          BY <4>1, <4>2, Zenon DEF WellFormed
      <3> QED
        BY <1>16, <3>1, <3>2, <3>3
    <2>3. early' \in [Messages -> BOOLEAN]
      BY <1>16 DEF Enqueue, BecomesDue, GetsOld, WellFormed
    <2>4. lapses' \in 0..MaxLapses /\ errors' \in 0..MaxErrors
      BY <1>16 DEF Enqueue, BecomesDue, GetsOld, WellFormed
    <2>5. UNCHANGED <<copies, address, smtp, lease, held, pc, mine, taken>>
      BY <1>16 DEF Enqueue, BecomesDue, GetsOld
    <2> QED
      BY <2>2, <2>3, <2>4, <2>5 DEF WellFormed
  <1>17. ASSUME SetSmtp \/ Reregister PROVE WellFormed'
    BY <1>17 DEF SetSmtp, Reregister, WellFormed
  <1>18. CASE UNCHANGED vars
    BY <1>18 DEF vars, WellFormed
  <1> QED
    BY <1>1, <1>2, <1>3, <1>4, <1>5, <1>6, <1>7, <1>8, <1>9, <1>10, <1>11, <1>12,
       <1>13, <1>14, <1>15, <1>16, <1>17, <1>18
    DEF Next, WorkerStep, ReleaserStep
-----------------------------------------------------------------------------
(* The mishaps a further attempt may be owed to. *)
Budget == MaxAttempts + lapses + errors

(* The claim of m will come back to the queue with nothing more going      *)
(* wrong: it was abandoned or has grown old, its worker lost the handoff   *)
(* lease before the authorization, or is about to reschedule it.           *)
ComesBack(m) ==
    LET g == row[m].gen
    IN \/ row[m].old
       \/ ~ Delivering(g, m)
       \/ pc[g] = "auth" /\ ~ FenceHolds(g)
       \/ pc[g] \in {"retry", "again"}

(* An attempt beyond MaxAttempts is paid for by a mishap since the one     *)
(* before it.                                                              *)
Paid(m) ==
    /\ row[m].att <= Budget
    /\ row[m].st \in {"absent", "pending"} => row[m].att < Budget
    /\ row[m].st = "sending" =>
         row[m].gen \in Workers /\ (ComesBack(m) => row[m].att < Budget)
AttemptsArePaid == \A m \in Messages : Paid(m)

(* Nobody else has the row of a message that is with the relay. *)
WindowOwnsRow ==
    \A w \in Workers : pc[w] = "window" => Owns(w) /\ ~ Row(w).old

(* What was queued while the account had the address is settled when it    *)
(* loses it.                                                               *)
QueueFollowsAddress ==
    \A m \in Messages :
      early[m] /\ row[m].st \in {"pending", "sending"} => address = "ours"

(* The copies the mishaps so far do not explain, in halves of a copy: two  *)
(* while an acceptance waits for its acknowledgement or is on record, one  *)
(* while the row is being parked, none while m may be sent again.          *)
Unexplained(m) ==
    IF row[m].st \in {"sent", "failed"} THEN 2
    ELSE IF row[m].st = "sending" /\ ~ row[m].old /\ Delivering(row[m].gen, m)
         THEN IF pc[row[m].gen] = "sent" THEN 2
              ELSE IF pc[row[m].gen] = "park" THEN 1 ELSE 0
         ELSE 0

CopiesAreExplained ==
    \A m \in Messages : 2 * copies[m] <= 2 * lapses + errors + Unexplained(m)
-----------------------------------------------------------------------------
(* The fields of the rows the operators of the model write. *)
LEMMA ReleasedRow ==
  ASSUME WellFormed, NEW m \in Messages
  PROVE  \/ Released(m) = row[m]
         \/ /\ row[m].st = "sending" /\ row[m].old
            /\ Released(m).st = "pending" /\ Released(m).gen = row[m].gen
            /\ Released(m).att = row[m].att /\ ~ Released(m).old
  BY DEF WellFormed, Released, Rows

LEMMA CancelledRow ==
  ASSUME WellFormed, NEW m \in Messages
  PROVE  \/ Cancelled(m) = row[m] /\ row[m].st # "pending"
         \/ /\ row[m].st = "pending" /\ Cancelled(m).st = "failed"
            /\ Cancelled(m).att = row[m].att
  BY DEF WellFormed, Cancelled, Rows

LEMMA ClaimedRow ==
  ASSUME WellFormed, NEW m \in Messages, NEW w \in Workers
  PROVE  /\ Claimed(w, m).st = IF m \in Bound /\ address # "ours" THEN "failed" ELSE "sending"
         /\ Claimed(w, m).gen = w /\ Claimed(w, m).att = row[m].att + 1
         /\ ~ Claimed(w, m).old
  BY DEF WellFormed, Claimed, Rows

LEMMA AuthorizedRow ==
  ASSUME WellFormed, NEW w \in Workers, mine[w] \in Messages
  PROVE  /\ \A m \in Messages : m # mine[w] => Authorized(w)[m] = row[m]
         /\ Authorized(w)[mine[w]].st = IF Ineligible(w) THEN "failed" ELSE "sending"
         /\ Authorized(w)[mine[w]].gen = Row(w).gen
         /\ Authorized(w)[mine[w]].att = Row(w).att
         /\ ~ Authorized(w)[mine[w]].old
  BY DEF WellFormed, Authorized, Rows, Row

LEMMA SettledRow ==
  ASSUME WellFormed, NEW w \in Workers, mine[w] \in Messages,
         pc[w] \in {"sent", "retry", "again", "fail", "park"}
  PROVE  /\ \A m \in Messages : m # mine[w] => Settled(w)[m] = row[m]
         /\ Settled(w)[mine[w]].st = IF pc[w] = "sent" THEN "sent"
              ELSE IF pc[w] \in {"fail", "park"} THEN "failed" ELSE "pending"
         /\ Settled(w)[mine[w]].gen = Row(w).gen
         /\ Settled(w)[mine[w]].att = Row(w).att
         /\ ~ Settled(w)[mine[w]].old
  BY DEF WellFormed, Settled, Rows, Row

LEMMA EnqueuedRow ==
  ASSUME WellFormed, NEW m \in Messages, Enqueue(m)
  PROVE  /\ \A n \in Messages : n # m => row'[n] = row[n]
         /\ row'[m].st = IF m \in Bound /\ address # "ours" THEN "failed" ELSE "pending"
         /\ row'[m].att = 0
         /\ UNCHANGED <<copies, address, lease, held, pc, mine, lapses, errors>>
  BY DEF WellFormed, Enqueue, NoRow, locks, mishaps

LEMMA TimePasses ==
  ASSUME WellFormed, NEW m \in Messages, BecomesDue(m) \/ GetsOld(m)
  PROVE  /\ \A n \in Messages : n # m => row'[n] = row[n]
         /\ row'[m].st = row[m].st /\ row'[m].gen = row[m].gen
         /\ row'[m].att = row[m].att
         /\ BecomesDue(m) => row'[m].old = row[m].old
         /\ GetsOld(m) => row'[m].old
  BY DEF WellFormed, BecomesDue, GetsOld, Rows
-----------------------------------------------------------------------------
(* A message that worker w is not concerned with, before or after. *)
LEMMA PaidElsewhere ==
  ASSUME WellFormed, NEW n \in Messages, Paid(n), NEW w \in Workers,
         row'[n] = row[n], ~ Delivering(w, n),
         lapses' \in Nat, errors' \in Nat, lapses' >= lapses, errors' >= errors,
         \A v \in Workers \ {w} :
           pc'[v] = pc[v] /\ mine'[v] = mine[v] /\ FenceHolds(v)' = FenceHolds(v)
  PROVE  Paid(n)'
  <1>1. /\ row[n].att \in Nat /\ lapses \in Nat /\ errors \in Nat /\ MaxAttempts \in Nat
    BY OutboxAssumption DEF WellFormed, Rows
  <1>2. Budget' >= Budget /\ Budget \in Nat /\ Budget' \in Nat
    BY <1>1 DEF Budget
  <1>3. \A v \in Workers \ {w} : row[n].gen = v /\ ComesBack(n)' => ComesBack(n)
    BY DEF ComesBack, Delivering
  <1>4. row[n].gen = w => ComesBack(n)
    BY DEF ComesBack
  <1> QED
    BY <1>1, <1>2, <1>3, <1>4 DEF Paid

LEMMA AttemptsStep ==
  WellFormed /\ AttemptsArePaid /\ [Next]_vars => AttemptsArePaid'
  <1> SUFFICES ASSUME WellFormed, AttemptsArePaid, [Next]_vars, NEW n \in Messages
               PROVE  Paid(n)'
    BY DEF AttemptsArePaid
  <1>0. /\ Paid(n) /\ n # NoMessage /\ NoProc \notin Workers
        /\ row[n].att \in Nat /\ lapses \in Nat /\ errors \in Nat /\ MaxAttempts \in Nat
        /\ MaxAttempts > 0
    BY OutboxAssumption DEF AttemptsArePaid, WellFormed, Rows
  <1> USE <1>0 DEF Goto, Lapse, Error, locks, mishaps, Row, Budget, Paid, ComesBack,
          Delivering, FenceHolds
  <1>1. ASSUME NEW w \in Workers, Tick(w) PROVE Paid(n)'
    BY <1>1, ReleasedRow DEF Tick, WellFormed
  <1>2. ASSUME NEW w \in Workers, EndTick(w) PROVE Paid(n)'
    BY <1>2 DEF EndTick, WellFormed
  <1>3. ASSUME NEW w \in Workers, NEW m \in Messages, Claim(w, m) PROVE Paid(n)'
    <2>1. CASE n = m
      <3>1. row[m].st = "pending" /\ row'[m] = Claimed(w, m)
        BY <1>3 DEF Claim, Due, WellFormed
      <3>2. row'[m].att = row[m].att + 1 /\ row'[m].gen = w /\ ~ row'[m].old
        BY <3>1, ClaimedRow
      <3>3. CASE Claimed(w, m).st = "sending" /\ UNCHANGED mishaps /\ mine'[w] = m
            /\ pc'[w] = "keys"
        BY <2>1, <3>1, <3>2, <3>3
      <3>4. CASE Claimed(w, m).st = "failed" /\ UNCHANGED mishaps
        BY <2>1, <3>1, <3>2, <3>4
      <3>5. CASE Error
        BY <2>1, <3>1, <3>2, <3>5, ClaimedRow
      <3> QED
        BY <1>3, <3>3, <3>4, <3>5 DEF Claim, WellFormed, Procs
    <2>2. CASE n # m
      <3>1. row'[n] = row[n] /\ ~ Delivering(w, n)
        BY <1>3, <2>2 DEF Claim, WellFormed
      <3>2. \A v \in Workers \ {w} :
              pc'[v] = pc[v] /\ mine'[v] = mine[v] /\ FenceHolds(v)' = FenceHolds(v)
        BY <1>3 DEF Claim, WellFormed, Procs
      <3>3. lapses' \in Nat /\ errors' \in Nat /\ lapses' >= lapses /\ errors' >= errors
        BY <1>3 DEF Claim
      <3> QED
        BY <3>1, <3>2, <3>3, PaidElsewhere
    <2> QED
      BY <2>1, <2>2
  <1>4. ASSUME NEW w \in Workers, EnterHandoff(w) PROVE Paid(n)'
    BY <1>4 DEF EnterHandoff, TakeHandoff, WellFormed
  <1>5. ASSUME NEW w \in Workers, HandoffFails(w) PROVE Paid(n)'
    BY <1>5 DEF HandoffFails, Leave, ReleaseHandoff, WellFormed
  <1>6. ASSUME NEW w \in Workers, Authorize(w) PROVE Paid(n)'
    <2>1. mine[w] \in Messages /\ Owns(w) /\ row' = Authorized(w)
      BY <1>6 DEF Authorize, WellFormed
    <2>2. CASE n = mine[w]
      <3>1. row'[n].att = row[n].att /\ row'[n].gen = w /\ ~ row'[n].old
            /\ row'[n].st \in {"sending", "failed"}
            /\ (row'[n].st = "sending" => ~ Ineligible(w))
        BY <2>1, <2>2, AuthorizedRow DEF Owns
      <3>2. CASE ~ Ineligible(w) /\ Goto(w, "window") /\ UNCHANGED <<mine, mishaps>>
        BY <2>1, <2>2, <3>1, <3>2 DEF WellFormed, Procs
      <3>3. CASE Ineligible(w) /\ UNCHANGED mishaps
        BY <2>1, <2>2, <3>1, <3>3
      <3>4. CASE Error
        BY <2>1, <2>2, <3>1, <3>4
      <3> QED
        BY <1>6, <3>2, <3>3, <3>4 DEF Authorize
    <2>3. CASE n # mine[w]
      <3>1. row'[n] = row[n] /\ ~ Delivering(w, n)
        BY <2>1, <2>3, AuthorizedRow
      <3>2. \A v \in Workers \ {w} :
              pc'[v] = pc[v] /\ mine'[v] = mine[v] /\ FenceHolds(v)' = FenceHolds(v)
        BY <1>6 DEF Authorize, Leave, ReleaseHandoff, WellFormed, Procs
      <3>3. lapses' \in Nat /\ errors' \in Nat /\ lapses' >= lapses /\ errors' >= errors
        BY <1>6 DEF Authorize
      <3> QED
        BY <3>1, <3>2, <3>3, PaidElsewhere
    <2> QED
      BY <2>2, <2>3
  <1>7. ASSUME NEW w \in Workers, AuthorizeFails(w) PROVE Paid(n)'
    BY <1>7 DEF AuthorizeFails, Leave, ReleaseHandoff, Owns, WellFormed
  <1>8. ASSUME NEW w \in Workers,
               HandoffExpired(w) \/ SealUnreadable(w) \/ RelayRefuses(w)
        PROVE  Paid(n)'
    <2>1. CASE HandoffExpired(w)
      BY <2>1 DEF HandoffExpired, WellFormed
    <2>2. CASE SealUnreadable(w)
      BY <2>2 DEF SealUnreadable, WellFormed
    <2>3. CASE RelayRefuses(w)
      BY <2>3 DEF RelayRefuses, WellFormed
    <2> QED
      BY <1>8, <2>1, <2>2, <2>3
  <1>9. ASSUME NEW w \in Workers, RelayAccepts(w) \/ CutOff(w) PROVE Paid(n)'
    <2>1. CASE RelayAccepts(w)
      BY <2>1 DEF RelayAccepts, WellFormed
    <2>2. CASE CutOff(w)
      BY <2>2 DEF CutOff, WellFormed
    <2> QED
      BY <1>9, <2>1, <2>2
  <1>10. ASSUME NEW w \in Workers, Settle(w) PROVE Paid(n)'
    BY <1>10, SettledRow DEF Settle, Leave, ReleaseHandoff, Owns, WellFormed
  <1>11. ASSUME NEW w \in Workers, SettleFails(w) PROVE Paid(n)'
    BY <1>11, SettledRow
    DEF SettleFails, AfterFailedWrite, Leave, ReleaseHandoff, Owns, WellFormed
  <1>12. ASSUME NEW w \in Workers, Crash(w) PROVE Paid(n)'
    BY <1>12 DEF Crash, WellFormed
  <1>13. ASSUME NEW a \in Releasers, ReleaseStart(a) \/ ReleaseKeys(a) PROVE Paid(n)'
    <2>1. CASE ReleaseStart(a)
      BY <2>1, OutboxAssumption DEF ReleaseStart, WellFormed
    <2>2. CASE ReleaseKeys(a)
      BY <2>2, OutboxAssumption DEF ReleaseKeys, TakeHandoff, WellFormed
    <2> QED
      BY <1>13, <2>1, <2>2
  <1>14. ASSUME NEW a \in Releasers, ReleaseCommit(a) PROVE Paid(n)'
    BY <1>14, CancelledRow DEF ReleaseCommit, MayRelease, WellFormed
  <1>15. ASSUME NEW a \in Releasers, ReleaseFails(a) PROVE Paid(n)'
    BY <1>15 DEF ReleaseFails, ReleaseHandoff, WellFormed
  <1>16. ASSUME NEW m \in Messages, Enqueue(m) PROVE Paid(n)'
    <2>1. CASE n = m
      BY <1>16, <2>1, EnqueuedRow
    <2>2. CASE n # m
      BY <1>16, <2>2, EnqueuedRow
    <2> QED
      BY <2>1, <2>2
  <1>17. ASSUME NEW m \in Messages, BecomesDue(m) \/ GetsOld(m) PROVE Paid(n)'
    BY <1>17, TimePasses DEF BecomesDue, GetsOld, WellFormed
  <1>18. CASE SetSmtp \/ Reregister \/ UNCHANGED vars
    BY <1>18 DEF SetSmtp, Reregister, vars, WellFormed
  <1> QED
    BY <1>1, <1>2, <1>3, <1>4, <1>5, <1>6, <1>7, <1>8, <1>9, <1>10, <1>11, <1>12,
       <1>13, <1>14, <1>15, <1>16, <1>17, <1>18
    DEF Next, WorkerStep, ReleaserStep

LEMMA AttemptsInit == Init => AttemptsArePaid
  <1> SUFFICES ASSUME Init, NEW m \in Messages PROVE Paid(m)
    BY DEF AttemptsArePaid
  <1>1. row[m].st = "absent" /\ row[m].att = 0
    BY DEF Init, NoRow
  <1>2. Budget \in Nat /\ Budget > 0
    BY OutboxAssumption DEF Init, Budget
  <1> QED
    BY <1>1, <1>2 DEF Paid

(* Every variable keeps its type; the attempts of a message stay within    *)
(* MaxAttempts and the mishaps there were (outbox-worker.ts, retries and   *)
(* stale claims).                                                          *)
THEOREM TypeCorrect == Spec => []OutboxTypeOK
  <1>1. WellFormed /\ AttemptsArePaid => OutboxTypeOK
    <2> SUFFICES ASSUME WellFormed, AttemptsArePaid PROVE OutboxTypeOK
      OBVIOUS
    <2>1. ASSUME NEW m \in Messages
          PROVE  row[m] \in [st : States, gen : Workers \cup {NoProc},
                             att : 0..(MaxAttempts + MaxLapses + MaxErrors),
                             due : BOOLEAN, old : BOOLEAN]
      <3>1. row[m] \in Rows /\ row[m].att \in Nat
        BY DEF WellFormed, Rows
      <3>2. row[m].att \in 0..(MaxAttempts + MaxLapses + MaxErrors)
        BY <3>1, OutboxAssumption DEF WellFormed, AttemptsArePaid, Paid, Budget
      <3> QED
        BY <3>1, <3>2, Zenon DEF Rows
    <2> QED
      BY <2>1 DEF WellFormed, OutboxTypeOK, States, Labels
  <1> QED
    BY <1>1, WellFormedInit, WellFormedStep, AttemptsInit, AttemptsStep, PTL DEF Spec

-----------------------------------------------------------------------------
(* A row that is settled, or in the hands of somebody else, is changed by  *)
(* no settling write: what becomes of a row in one step.                   *)
LEMMA RowSteps ==
  ASSUME WellFormed, [Next]_vars, NEW m \in Messages, row'[m] # row[m]
  PROVE  \/ row[m].st = "absent" /\ Enqueue(m)
         \/ row[m].st = "pending" /\ BecomesDue(m)
         \/ row[m].st = "sending" /\ GetsOld(m)
         \/ row[m].st = "sending" /\ row[m].old /\ row'[m] = Released(m)
            /\ \E w \in Workers : Tick(w)
         \/ row[m].st = "pending" /\ \E w \in Workers : Claim(w, m)
         \/ \E w \in Workers :
              mine[w] = m /\ Owns(w) /\ (Authorize(w) \/ Settle(w) \/ SettleFails(w))
         \/ row[m].st = "pending" /\ \E a \in Releasers : ReleaseCommit(a)
  <1> USE DEF Goto, locks, mishaps, Row
  <1>1. ASSUME NEW w \in Workers, Tick(w)
        PROVE  row[m].st = "sending" /\ row[m].old /\ row'[m] = Released(m)
    BY <1>1, ReleasedRow DEF Tick, WellFormed
  <1>2. ASSUME NEW w \in Workers, NEW n \in Messages, Claim(w, n)
        PROVE  row[m].st = "pending" /\ n = m
    BY <1>2 DEF Claim, Due, WellFormed
  <1>3. ASSUME NEW w \in Workers, Authorize(w) PROVE mine[w] = m /\ Owns(w)
    BY <1>3, AuthorizedRow DEF Authorize, WellFormed
  <1>4. ASSUME NEW w \in Workers, Settle(w) PROVE mine[w] = m /\ Owns(w)
    BY <1>4, SettledRow DEF Settle, WellFormed
  <1>5. ASSUME NEW w \in Workers, SettleFails(w) PROVE mine[w] = m /\ Owns(w)
    BY <1>5, SettledRow DEF SettleFails, WellFormed
  <1>6. ASSUME NEW a \in Releasers, ReleaseCommit(a) PROVE row[m].st = "pending"
    BY <1>6, CancelledRow DEF ReleaseCommit, WellFormed
  <1>7. ASSUME NEW n \in Messages, Enqueue(n) PROVE n = m /\ row[m].st = "absent"
    BY <1>7, EnqueuedRow DEF Enqueue
  <1>8. ASSUME NEW n \in Messages, BecomesDue(n) \/ GetsOld(n) PROVE n = m
    BY <1>8, TimePasses
  <1>9. BecomesDue(m) => row[m].st = "pending"
    BY DEF BecomesDue
  <1>10. GetsOld(m) => row[m].st = "sending"
    BY DEF GetsOld
  <1>11. \A w \in Workers :
           ~ (EndTick(w) \/ EnterHandoff(w) \/ HandoffFails(w) \/ AuthorizeFails(w)
              \/ HandoffExpired(w) \/ SealUnreadable(w) \/ RelayAccepts(w)
              \/ RelayRefuses(w) \/ CutOff(w) \/ Crash(w))
    BY DEF EndTick, EnterHandoff, HandoffFails, AuthorizeFails, HandoffExpired,
           SealUnreadable, RelayAccepts, RelayRefuses, CutOff, Crash
  <1>12. \A a \in Releasers : ~ (ReleaseStart(a) \/ ReleaseKeys(a) \/ ReleaseFails(a))
    BY DEF ReleaseStart, ReleaseKeys, ReleaseFails
  <1>13. ~ (SetSmtp \/ Reregister \/ UNCHANGED vars)
    BY DEF SetSmtp, Reregister, vars
  <1> QED
    BY <1>1, <1>2, <1>3, <1>4, <1>5, <1>6, <1>7, <1>8, <1>9, <1>10, <1>11, <1>12, <1>13
    DEF Next, WorkerStep, ReleaserStep

(* A message that was sent or given up on stays so: a worker whose claim   *)
(* was superseded, however late it wakes up, finds no row to write to.     *)
THEOREM SettledRowsStay == Spec => SettledIsFinal
  <1>1. WellFormed /\ [Next]_vars =>
          [\A m \in Messages :
             row[m].st \in {"sent", "failed"} => row'[m].st = row[m].st]_vars
    <2> SUFFICES ASSUME WellFormed, [Next]_vars, NEW m \in Messages,
                        row[m].st \in {"sent", "failed"}
                 PROVE  row'[m].st = row[m].st
      OBVIOUS
    <2> QED
      BY RowSteps DEF Owns, Row
  <1> QED
    BY <1>1, WellFormedInit, WellFormedStep, PTL DEF Spec, SettledIsFinal
-----------------------------------------------------------------------------
(* A send window is opened by an authorization and not moved. *)
LEMMA WindowSteps ==
  ASSUME WellFormed, [Next]_vars, NEW w \in Workers, pc'[w] = "window"
  PROVE  mine'[w] = mine[w] /\ (pc[w] = "window" \/ (Authorize(w) /\ ~ Ineligible(w)))
  <1> USE OutboxAssumption DEF WellFormed, Procs, Goto
  <1>1. ASSUME NEW v \in Workers, Authorize(v)
        PROVE  mine'[w] = mine[w] /\ (pc[w] = "window" \/ (v = w /\ ~ Ineligible(w)))
    BY <1>1 DEF Authorize, Leave
  <1>2. ASSUME NEW v \in Workers, WorkerStep(v) \/ Crash(v), ~ Authorize(v)
        PROVE  mine'[w] = mine[w] /\ pc[w] = "window"
    <2>1. CASE Tick(v) \/ EndTick(v) \/ \E m \in Messages : Claim(v, m)
      BY <2>1 DEF Tick, EndTick, Claim
    <2>2. CASE EnterHandoff(v) \/ HandoffFails(v) \/ AuthorizeFails(v)
      BY <2>2 DEF EnterHandoff, HandoffFails, AuthorizeFails, Leave
    <2>3. CASE HandoffExpired(v) \/ SealUnreadable(v) \/ RelayAccepts(v)
               \/ RelayRefuses(v) \/ CutOff(v)
      BY <2>3 DEF HandoffExpired, SealUnreadable, RelayAccepts, RelayRefuses, CutOff
    <2>4. CASE Settle(v) \/ SettleFails(v) \/ Crash(v)
      BY <2>4 DEF Settle, SettleFails, AfterFailedWrite, Leave, Crash
    <2> QED
      BY <1>2, <2>1, <2>2, <2>3, <2>4 DEF WorkerStep
  <1>3. ASSUME NEW a \in Releasers, ReleaserStep(a)
        PROVE  mine'[w] = mine[w] /\ pc[w] = "window"
    BY <1>3 DEF ReleaserStep, ReleaseStart, ReleaseKeys, ReleaseCommit, ReleaseFails
  <1>4. ASSUME NEW m \in Messages, Enqueue(m) \/ BecomesDue(m) \/ GetsOld(m)
        PROVE  mine' = mine /\ pc' = pc
    BY <1>4 DEF Enqueue, BecomesDue, GetsOld
  <1>5. SetSmtp \/ Reregister \/ UNCHANGED vars => mine' = mine /\ pc' = pc
    BY DEF SetSmtp, Reregister, vars
  <1> QED
    BY <1>1, <1>2, <1>3, <1>4, <1>5 DEF Next

LEMMA WindowInit == Init => WindowOwnsRow
  BY DEF Init, WindowOwnsRow, Procs

(* A row is not claimed again, nor released, under a message that is with  *)
(* the relay: it does not grow old within the send budget.                 *)
LEMMA WindowStep ==
  WellFormed /\ WindowOwnsRow /\ [Next]_vars => WindowOwnsRow'
  <1> SUFFICES ASSUME WellFormed, WindowOwnsRow, [Next]_vars,
                      NEW w \in Workers, pc'[w] = "window"
               PROVE  Owns(w)' /\ ~ Row(w)'.old
    BY DEF WindowOwnsRow
  <1>1. mine'[w] = mine[w] /\ (pc[w] = "window" \/ (Authorize(w) /\ ~ Ineligible(w)))
    BY WindowSteps
  <1>2. CASE pc[w] = "window"
    <2> DEFINE m == mine[w]
    <2>1. m \in Messages /\ row[m].st = "sending" /\ row[m].gen = w /\ ~ row[m].old
      BY <1>2 DEF WellFormed, WindowOwnsRow, Owns, Row
    <2>2. ~ GetsOld(m)
      BY <1>2, <2>1 DEF GetsOld, Delivering, Window
    <2>3. ~ Authorize(w) /\ ~ Settle(w) /\ ~ SettleFails(w)
      BY <1>2 DEF Authorize, Settle, SettleFails
    <2>4. row'[m] = row[m]
      BY <2>1, <2>2, <2>3, RowSteps DEF Owns, Row
    <2> QED
      BY <1>1, <2>1, <2>4 DEF Owns, Row
  <1>3. CASE Authorize(w) /\ ~ Ineligible(w)
    <2>1. mine[w] \in Messages /\ Owns(w) /\ row' = Authorized(w)
      BY <1>3 DEF Authorize, WellFormed
    <2> QED
      BY <1>1, <1>3, <2>1, AuthorizedRow DEF Owns, Row
  <1> QED
    BY <1>1, <1>2, <1>3
-----------------------------------------------------------------------------
LEMMA QueueInit == Init => QueueFollowsAddress
  BY DEF Init, QueueFollowsAddress

(* The release settles every queued row in the transaction that gives the  *)
(* address up, and is refused while one is being sent.                     *)
LEMMA QueueStep ==
  WellFormed /\ QueueFollowsAddress /\ [Next]_vars => QueueFollowsAddress'
  <1> SUFFICES ASSUME WellFormed, QueueFollowsAddress, [Next]_vars, NEW m \in Messages,
                      early'[m], row'[m].st \in {"pending", "sending"}
               PROVE  address' = "ours"
    BY DEF QueueFollowsAddress
  <1>1. CASE Enqueue(m)
    BY <1>1 DEF Enqueue, WellFormed
  <1>2. ASSUME ~ Enqueue(m) PROVE early'[m] = early[m]
    <2>1. ASSUME NEW n \in Messages, Enqueue(n) PROVE n # m /\ early'[m] = early[m]
      BY <1>2, <2>1 DEF Enqueue, WellFormed
    <2>2. (\A n \in Messages : ~ Enqueue(n)) => early' = early
      BY DEF Next, vars, WorkerStep, ReleaserStep, Tick, EndTick, Claim, EnterHandoff,
             HandoffFails, Authorize, AuthorizeFails, HandoffExpired, SealUnreadable,
             RelayAccepts, RelayRefuses, CutOff, Settle, SettleFails, Crash,
             ReleaseStart, ReleaseKeys, ReleaseCommit, ReleaseFails, BecomesDue,
             GetsOld, SetSmtp, Reregister
    <2> QED
      BY <2>1, <2>2
  <1>3. ASSUME ~ Enqueue(m) PROVE row[m].st \in {"pending", "sending"}
    <2>1. CASE row'[m] = row[m]
      BY <2>1
    <2>2. CASE row'[m] # row[m]
      BY <1>3, <2>2, RowSteps DEF Owns, Row
    <2> QED
      BY <2>1, <2>2
  <1>4. ASSUME NEW a \in Releasers, ReleaseCommit(a) PROVE row'[m].st \notin {"pending", "sending"}
    BY <1>4, CancelledRow DEF ReleaseCommit, MayRelease, WellFormed
  <1>5. (\A a \in Releasers : ~ ReleaseCommit(a)) => address' = address \/ address = "released"
    BY DEF Next, vars, WorkerStep, ReleaserStep, Tick, EndTick, Claim, EnterHandoff,
           HandoffFails, Authorize, AuthorizeFails, HandoffExpired, SealUnreadable,
           RelayAccepts, RelayRefuses, CutOff, Settle, SettleFails, Crash,
           ReleaseStart, ReleaseKeys, ReleaseFails, Enqueue, BecomesDue,
           GetsOld, SetSmtp, Reregister
  <1> QED
    BY <1>1, <1>2, <1>3, <1>4, <1>5 DEF QueueFollowsAddress

(* The relay takes a message only in the send window of its worker. *)
LEMMA CopySteps ==
  ASSUME WellFormed, [Next]_vars, NEW m \in Messages, copies'[m] # copies[m]
  PROVE  \E w \in Workers : /\ pc[w] = "window" /\ mine[w] = m
                            /\ RelayAccepts(w) \/ CutOff(w) \/ Crash(w)
  <1>1. ASSUME NEW w \in Workers, Accept(w) PROVE mine[w] = m
    BY <1>1 DEF Accept, WellFormed
  <1>2. copies' # copies
    OBVIOUS
  <1>3. \E w \in Workers : /\ pc[w] = "window" /\ Accept(w)
                           /\ RelayAccepts(w) \/ CutOff(w) \/ Crash(w)
    BY <1>2 DEF Next, vars, WorkerStep, ReleaserStep, Tick, EndTick, Claim, EnterHandoff,
           HandoffFails, Authorize, AuthorizeFails, HandoffExpired, SealUnreadable,
           RelayAccepts, RelayRefuses, CutOff, Settle, SettleFails, Crash,
           ReleaseStart, ReleaseKeys, ReleaseCommit, ReleaseFails, Enqueue, BecomesDue,
           GetsOld, SetSmtp, Reregister
  <1> QED
    BY <1>1, <1>3

(* Mail written while the account had the address is not handed to the     *)
(* relay after the account gave it up (users/service.ts, releaseAddress;   *)
(* outbox-worker.ts, deliver): the release and the send exclude each other *)
(* through the state of the row, whoever has lost which lease.             *)
THEOREM ReleaseStopsMail == Spec => NoMailAfterRelease
  <1>1. WellFormed /\ WindowOwnsRow /\ QueueFollowsAddress /\ [Next]_vars =>
          [\A m \in Messages :
             (copies'[m] # copies[m] /\ early[m]) => address = "ours"]_vars
    <2> SUFFICES ASSUME WellFormed, WindowOwnsRow, QueueFollowsAddress, [Next]_vars,
                        NEW m \in Messages, copies'[m] # copies[m], early[m]
                 PROVE  address = "ours"
      OBVIOUS
    <2>1. PICK w \in Workers : pc[w] = "window" /\ mine[w] = m
      BY CopySteps
    <2>2. row[m].st = "sending"
      BY <2>1 DEF WindowOwnsRow, Owns, Row
    <2> QED
      BY <2>2 DEF QueueFollowsAddress
  <1> QED
    BY <1>1, WellFormedInit, WellFormedStep, WindowInit, WindowStep, QueueInit, QueueStep,
       PTL DEF Spec, NoMailAfterRelease
-----------------------------------------------------------------------------
LEMMA CopiesInit == Init => CopiesAreExplained
  <1> SUFFICES ASSUME Init, NEW m \in Messages
               PROVE  2 * copies[m] <= 2 * lapses + errors + Unexplained(m)
    BY DEF CopiesAreExplained
  <1>1. row[m].st = "absent"
    BY DEF Init, NoRow
  <1> QED
    BY <1>1 DEF Init, Unexplained

(* A message that worker w is not concerned with, before or after. *)
LEMMA ExplainedElsewhere ==
  ASSUME WellFormed, AttemptsArePaid, CopiesAreExplained, NEW n \in Messages,
         NEW w \in Workers, row'[n] = row[n], copies'[n] = copies[n],
         ~ Delivering(w, n), ~ Delivering(w, n)',
         lapses' \in Nat, errors' \in Nat, lapses' >= lapses, errors' >= errors,
         \A v \in Workers \ {w} : pc'[v] = pc[v] /\ mine'[v] = mine[v]
  PROVE  2 * copies'[n] <= 2 * lapses' + errors' + Unexplained(n)'
  <1>1. row[n].st = "sending" => row[n].gen \in Workers
    BY DEF AttemptsArePaid, Paid
  <1>2. Unexplained(n)' = Unexplained(n)
    BY <1>1 DEF Unexplained, Delivering
  <1>3. Unexplained(n) \in Nat
    BY DEF Unexplained
  <1>4. copies[n] \in Nat /\ lapses \in Nat /\ errors \in Nat
        /\ 2 * copies[n] <= 2 * lapses + errors + Unexplained(n)
    BY OutboxAssumption DEF WellFormed, CopiesAreExplained
  <1> QED
    BY <1>2, <1>3, <1>4

(* An acceptance is acknowledged by its own worker, or something goes      *)
(* wrong: every step that makes a message sendable again after the relay   *)
(* may have it costs a lapse, or two errors.                               *)
LEMMA CopiesStep ==
  WellFormed /\ AttemptsArePaid /\ WindowOwnsRow /\ CopiesAreExplained /\ [Next]_vars
    => CopiesAreExplained'
  <1> SUFFICES ASSUME WellFormed, AttemptsArePaid, WindowOwnsRow, CopiesAreExplained,
                      [Next]_vars, NEW n \in Messages
               PROVE  2 * copies'[n] <= 2 * lapses' + errors' + Unexplained(n)'
    BY DEF CopiesAreExplained
  <1> DEFINE Fine == 2 * copies'[n] <= 2 * lapses' + errors' + Unexplained(n)'
  <1>0. /\ 2 * copies[n] <= 2 * lapses + errors + Unexplained(n)
        /\ n # NoMessage /\ NoProc \notin Workers
        /\ copies[n] \in Nat /\ lapses \in Nat /\ errors \in Nat
        /\ row[n].st = "sending" => row[n].gen \in Workers
    BY OutboxAssumption DEF CopiesAreExplained, WellFormed, AttemptsArePaid, Paid
  <1> USE <1>0 DEF Goto, Lapse, Error, locks, mishaps, Row, Unexplained, Delivering
  <1>1. ASSUME NEW w \in Workers, Tick(w) PROVE Fine
    BY <1>1, ReleasedRow DEF Tick, WellFormed
  <1>2. ASSUME NEW w \in Workers, EndTick(w) PROVE Fine
    BY <1>2 DEF EndTick, WellFormed
  <1>3. ASSUME NEW w \in Workers, NEW m \in Messages, Claim(w, m) PROVE Fine
    <2>1. CASE n = m
      <3>1. row[m].st = "pending" /\ row'[m] = Claimed(w, m) /\ copies' = copies
            /\ lapses' \in Nat /\ errors' \in Nat /\ lapses' >= lapses /\ errors' >= errors
        BY <1>3 DEF Claim, Due, WellFormed
      <3>2. Unexplained(n) = 0 /\ Unexplained(n)' >= 0
        BY <2>1, <3>1
      <3> QED
        BY <3>1, <3>2
    <2>2. CASE n # m
      <3>1. row'[n] = row[n] /\ copies' = copies /\ ~ Delivering(w, n) /\ ~ Delivering(w, n)'
            /\ \A v \in Workers \ {w} : pc'[v] = pc[v] /\ mine'[v] = mine[v]
        BY <1>3, <2>2 DEF Claim, WellFormed, Procs
      <3>2. lapses' \in Nat /\ errors' \in Nat /\ lapses' >= lapses /\ errors' >= errors
        BY <1>3 DEF Claim
      <3> QED
        BY <3>1, <3>2, ExplainedElsewhere
    <2> QED
      BY <2>1, <2>2
  <1>4. ASSUME NEW w \in Workers, EnterHandoff(w) PROVE Fine
    BY <1>4 DEF EnterHandoff, TakeHandoff, WellFormed
  <1>5. ASSUME NEW w \in Workers, HandoffFails(w) PROVE Fine
    BY <1>5 DEF HandoffFails, Leave, WellFormed
  <1>6. ASSUME NEW w \in Workers, Authorize(w) PROVE Fine
    <2>0. mine[w] \in Messages
      BY <1>6 DEF Authorize, WellFormed
    <2>1. CASE n = mine[w]
      <3>1. /\ row[n].st = "sending" /\ row[n].gen = w /\ pc[w] = "auth" /\ copies' = copies
            /\ lapses' \in Nat /\ errors' \in Nat /\ lapses' >= lapses /\ errors' >= errors
        BY <1>6, <2>1 DEF Authorize, Owns, WellFormed
      <3>2. Unexplained(n) = 0 /\ Unexplained(n)' >= 0
        BY <3>1
      <3> QED
        BY <3>1, <3>2
    <2>2. CASE n # mine[w]
      <3>1. row'[n] = row[n] /\ copies'[n] = copies[n] /\ ~ Delivering(w, n) /\ ~ Delivering(w, n)'
            /\ \A v \in Workers \ {w} : pc'[v] = pc[v] /\ mine'[v] = mine[v]
        BY <1>6, <2>0, <2>2, AuthorizedRow DEF Authorize, Leave, WellFormed, Procs
      <3>2. lapses' \in Nat /\ errors' \in Nat /\ lapses' >= lapses /\ errors' >= errors
        BY <1>6 DEF Authorize
      <3> QED
        BY <3>1, <3>2, ExplainedElsewhere
    <2> QED
      BY <2>1, <2>2
  <1>7. ASSUME NEW w \in Workers, AuthorizeFails(w) PROVE Fine
    BY <1>7 DEF AuthorizeFails, Leave, WellFormed
  <1>8. ASSUME NEW w \in Workers, HandoffExpired(w) PROVE Fine
    BY <1>8 DEF HandoffExpired, WellFormed
  <1>9. ASSUME NEW w \in Workers, SealUnreadable(w) \/ RelayRefuses(w) PROVE Fine
    <2>1. CASE SealUnreadable(w)
      BY <2>1 DEF SealUnreadable, WellFormed
    <2>2. CASE RelayRefuses(w)
      BY <2>2 DEF RelayRefuses, WellFormed
    <2> QED
      BY <1>9, <2>1, <2>2
  <1>10. ASSUME NEW w \in Workers, RelayAccepts(w) PROVE Fine
    <2>0. mine[w] \in Messages
      BY <1>10 DEF RelayAccepts, WellFormed
    <2>1. CASE n = mine[w]
      <3>1. /\ row[n].st = "sending" /\ row[n].gen = w /\ ~ row[n].old /\ pc[w] = "window"
            /\ row' = row /\ mine' = mine /\ pc'[w] = "sent"
            /\ copies'[n] = copies[n] + 1 /\ UNCHANGED <<lapses, errors>>
        BY <1>10, <2>1 DEF RelayAccepts, Accept, WindowOwnsRow, Owns, WellFormed, Procs
      <3>2. Unexplained(n) = 0 /\ Unexplained(n)' = 2
        BY <2>1, <3>1
      <3> QED
        BY <3>1, <3>2
    <2>2. CASE n # mine[w]
      <3>1. row'[n] = row[n] /\ copies'[n] = copies[n] /\ ~ Delivering(w, n) /\ ~ Delivering(w, n)'
            /\ \A v \in Workers \ {w} : pc'[v] = pc[v] /\ mine'[v] = mine[v]
        BY <1>10, <2>0, <2>2 DEF RelayAccepts, Accept, WellFormed, Procs
      <3>2. lapses' \in Nat /\ errors' \in Nat /\ lapses' >= lapses /\ errors' >= errors
        BY <1>10 DEF RelayAccepts
      <3> QED
        BY <3>1, <3>2, ExplainedElsewhere
    <2> QED
      BY <2>1, <2>2
  <1>11. ASSUME NEW w \in Workers, CutOff(w) PROVE Fine
    <2>0. mine[w] \in Messages
      BY <1>11 DEF CutOff, WellFormed
    <2>1. CASE n = mine[w]
      <3>1. /\ row[n].st = "sending" /\ row[n].gen = w /\ ~ row[n].old /\ pc[w] = "window"
            /\ row' = row /\ mine' = mine /\ pc'[w] = "park"
            /\ copies'[n] \in {copies[n], copies[n] + 1}
            /\ lapses' = lapses /\ errors' = errors + 1
        BY <1>11, <2>1 DEF CutOff, Accept, WindowOwnsRow, Owns, WellFormed, Procs
      <3>2. Unexplained(n) = 0 /\ Unexplained(n)' = 1
        BY <2>1, <3>1
      <3> QED
        BY <3>1, <3>2
    <2>2. CASE n # mine[w]
      <3>1. row'[n] = row[n] /\ copies'[n] = copies[n] /\ ~ Delivering(w, n) /\ ~ Delivering(w, n)'
            /\ \A v \in Workers \ {w} : pc'[v] = pc[v] /\ mine'[v] = mine[v]
        BY <1>11, <2>0, <2>2 DEF CutOff, Accept, WellFormed, Procs
      <3>2. lapses' \in Nat /\ errors' \in Nat /\ lapses' >= lapses /\ errors' >= errors
        BY <1>11 DEF CutOff
      <3> QED
        BY <3>1, <3>2, ExplainedElsewhere
    <2> QED
      BY <2>1, <2>2
  <1>12. ASSUME NEW w \in Workers, Settle(w) PROVE Fine
    BY <1>12, SettledRow DEF Settle, Leave, Owns, WellFormed
  <1>13. ASSUME NEW w \in Workers, SettleFails(w) PROVE Fine
    <2>0. mine[w] \in Messages
      BY <1>13 DEF SettleFails, WellFormed
    <2>1. CASE n = mine[w]
      <3>1. copies' = copies /\ lapses' = lapses /\ errors' = errors + 1
        BY <1>13 DEF SettleFails
      <3>2. CASE row' = row
        <4>1. CASE pc[w] = "sent"
          BY <1>13, <2>1, <3>1, <3>2, <4>1 DEF SettleFails, AfterFailedWrite, WellFormed, Procs
        <4>2. CASE pc[w] # "sent"
          BY <1>13, <2>1, <3>1, <3>2, <4>2 DEF SettleFails, AfterFailedWrite, Leave, WellFormed,
             Procs
        <4> QED
          BY <4>1, <4>2
      <3>3. CASE Owns(w) /\ row' = Settled(w)
        <4>1. row[n].st = "sending" /\ row[n].gen = w
          BY <2>1, <3>3 DEF Owns
        <4>2. CASE pc[w] \in {"sent", "fail", "park"}
          <5>1. Unexplained(n)' = 2
            BY <1>13, <2>0, <2>1, <3>3, <4>2, SettledRow DEF SettleFails
          <5> QED
            BY <3>1, <5>1
        <4>3. CASE pc[w] \in {"retry", "again"}
          <5>1. Unexplained(n) = 0 /\ Unexplained(n)' >= 0
            BY <4>1, <4>3
          <5> QED
            BY <3>1, <5>1
        <4> QED
          BY <1>13, <4>2, <4>3 DEF SettleFails
      <3> QED
        BY <1>13, <3>2, <3>3 DEF SettleFails
    <2>2. CASE n # mine[w]
      <3>1. row'[n] = row[n] /\ copies'[n] = copies[n] /\ ~ Delivering(w, n) /\ ~ Delivering(w, n)'
            /\ \A v \in Workers \ {w} : pc'[v] = pc[v] /\ mine'[v] = mine[v]
        BY <1>13, <2>0, <2>2, SettledRow DEF SettleFails, AfterFailedWrite, Leave, WellFormed, Procs
      <3>2. lapses' \in Nat /\ errors' \in Nat /\ lapses' >= lapses /\ errors' >= errors
        BY <1>13 DEF SettleFails
      <3> QED
        BY <3>1, <3>2, ExplainedElsewhere
    <2> QED
      BY <2>1, <2>2
  <1>14. ASSUME NEW w \in Workers, Crash(w) PROVE Fine
    BY <1>14 DEF Crash, Accept, WindowOwnsRow, Owns, WellFormed
  <1>15. ASSUME NEW a \in Releasers, ReleaseStart(a) \/ ReleaseKeys(a) PROVE Fine
    <2>1. CASE ReleaseStart(a)
      BY <2>1, OutboxAssumption DEF ReleaseStart, WellFormed
    <2>2. CASE ReleaseKeys(a)
      BY <2>2, OutboxAssumption DEF ReleaseKeys, TakeHandoff, WellFormed
    <2> QED
      BY <1>15, <2>1, <2>2
  <1>16. ASSUME NEW a \in Releasers, ReleaseCommit(a) PROVE Fine
    BY <1>16, CancelledRow, OutboxAssumption DEF ReleaseCommit, MayRelease, WellFormed
  <1>17. ASSUME NEW a \in Releasers, ReleaseFails(a) PROVE Fine
    BY <1>17, OutboxAssumption DEF ReleaseFails, WellFormed
  <1>18. ASSUME NEW m \in Messages, Enqueue(m) PROVE Fine
    <2>1. UNCHANGED <<copies, lapses, errors, pc, mine>> /\ row[m].st = "absent"
      BY <1>18, EnqueuedRow DEF Enqueue
    <2>2. CASE n = m
      <3>1. Unexplained(n) = 0 /\ Unexplained(n)' >= 0
        BY <2>1, <2>2
      <3> QED
        BY <2>1, <3>1
    <2>3. CASE n # m
      BY <1>18, <2>1, <2>3, EnqueuedRow
    <2> QED
      BY <2>2, <2>3
  <1>19. ASSUME NEW m \in Messages, BecomesDue(m) \/ GetsOld(m) PROVE Fine
    BY <1>19, TimePasses DEF BecomesDue, GetsOld, WellFormed
  <1>20. CASE SetSmtp \/ Reregister \/ UNCHANGED vars
    BY <1>20 DEF SetSmtp, Reregister, vars, WellFormed
  <1> QED
    BY <1>1, <1>2, <1>3, <1>4, <1>5, <1>6, <1>7, <1>8, <1>9, <1>10, <1>11, <1>12,
       <1>13, <1>14, <1>15, <1>16, <1>17, <1>18, <1>19, <1>20
    DEF Next, WorkerStep, ReleaserStep

(* At-least-once delivery sends no more copies than there were crashes and *)
(* stalls, and pairs of failed statements, beyond the first                *)
(* (outbox-worker.ts, acknowledgement and park).                           *)
THEOREM CopiesAreBounded == Spec => []CopiesAreAccountedFor
  <1>1. WellFormed /\ CopiesAreExplained => CopiesAreAccountedFor
    <2> SUFFICES ASSUME WellFormed, CopiesAreExplained, NEW m \in Messages
                 PROVE  copies[m] <= 1 + lapses + (errors \div 2)
      BY DEF CopiesAreAccountedFor
    <2>1. 2 * copies[m] <= 2 * lapses + errors + 2
      BY OutboxAssumption DEF WellFormed, CopiesAreExplained, Unexplained
    <2>2. copies[m] \in Nat /\ lapses \in Nat /\ errors \in Nat
      BY OutboxAssumption DEF WellFormed
    <2> QED
      BY <2>1, <2>2
  <1> QED
    BY <1>1, WellFormedInit, WellFormedStep, WindowInit, WindowStep, CopiesInit, CopiesStep,
       AttemptsInit, AttemptsStep,        PTL DEF Spec
=============================================================================
