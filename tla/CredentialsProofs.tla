--------------------------- MODULE CredentialsProofs ---------------------------
(***************************************************************************)
(* Theorems about Credentials, for any credentials, operations, runners    *)
(* and faults.                                                             *)
(***************************************************************************)
EXTENDS Credentials, FiniteSetTheorems, SequenceTheorems, WellFoundedInduction, TLAPS

States == {"none", "active", "retiring", "revoked"}
Rows == [st : States, ord : Nat, late : 0..MaxEvents]
Whys == {"none", "post", "row", "swap"}
OpRecords == [kind : Kinds \cup {"none"}, target : Secrets \cup {NoProc}, len : Nat,
              pos : Nat, whole : BOOLEAN, why : Whys, tries : Nat, phase : Nat, cutoff : Nat]
Jobs == [st : {"none", "pending", "sending"}, by : Runners \cup {NoProc},
         att : 0..BlockingAttempts]

(* The awaits inside the consumer's section: those every operation may be  *)
(* at, those of a request that mints a secret once it is past the gate,    *)
(* and those a retirement shares with a rotation.                          *)
Entering == {"check", "get", "settle", "place"}
Minting == {"pend", "append", "unpend", "mirror", "reclaim", "withdraw", "reread",
            "unlist", "reactivate", "note", "rotated", "retired"}
Retirement == {"intent", "delete", "probe", "unretire", "close"}
Inside == Entering \cup Minting \cup Retirement \cup {"gate", "wipe", "clearrows"}
Running == {"list", "barrier", "rdone", "rfail"}
Labels == {"idle", "key", "done"} \cup Inside \cup Running

Types ==
    /\ shown \in BOOLEAN /\ enabled \in BOOLEAN /\ torn \in BOOLEAN /\ emptied \in BOOLEAN
    /\ entries \in Seq(Secrets)
    /\ row \in [Secrets -> Rows]
    /\ noted \subseteq Secrets /\ delivered \subseteq Secrets
    /\ blind \subseteq Secrets /\ withdrawn \subseteq Secrets
    /\ job \in Jobs
    /\ opened \in Nat /\ resets \in Nat /\ flips \in Nat
    /\ opened <= resets /\ resets + flips <= MaxEvents
    /\ lease \in Procs \cup {NoProc}
    /\ pc \in [Procs -> Labels]
    /\ op \in [Procs -> OpRecords]
    /\ todo \in [Runners -> SUBSET Secrets]
    /\ faults \in 0..MaxFaults

(* Which kind of operation is where, and that the lease's holder is inside. *)
Mints(p) == op[p].kind \in {"issue", "rotate"}
Fits(p) ==
    /\ pc[p] \in Minting \cup {"gate"} => Mints(p)
    /\ pc[p] = "pend" => ~ shown
    /\ pc[p] = "retired" => DeleteFirst(p)
    /\ pc[p] \in {"wipe", "clearrows"} => op[p].kind \in {"reconcile", "teardown"}
    /\ p \in Runners /\ pc[p] # "idle" => op[p].kind = "recover"
    /\ p \in Runners => pc[p] # "done"
    /\ p \in Ops => pc[p] \notin Running /\ op[p].kind # "recover"
Places ==
    /\ \A p \in Procs : Fits(p)
    /\ \A p \in Procs : lease = p => pc[p] \in Inside

WellFormed == Types /\ Places

-----------------------------------------------------------------------------
(* An operation that has not created its row yet, and may still do so. *)
Fresh(p) ==
    \/ pc[p] \in {"idle", "key", "check", "get", "settle", "place", "gate", "pend"}
    \/ pc[p] \in {"append", "mirror"} /\ shown
    \/ pc[p] \in {"intent", "delete", "retired"} /\ DeleteFirst(p)
CanMint == {p \in Ops : Fresh(p)}

(* Nothing in the store knows a secret that is still to be minted, and the *)
(* gateway does not have one that is still to be appended.                 *)
Unknown ==
    \A p \in CanMint :
      /\ row[p].st = "none"
      /\ \A q \in Procs : op[q].target # p
      /\ \A r \in Runners : p \notin todo[r]
NotItself == \A p \in Ops : op[p].target # p
Unappended ==
    \A p \in Ops : (Fresh(p) /\ pc[p] # "mirror") \/ pc[p] = "append" => p \notin Working

(* Ordinals count the rows there have been. *)
Numbered == \A c \in Secrets : row[c].ord + Cardinality(CanMint) <= Cardinality(Secrets)

Array ==
    /\ Len(entries) <= Cap
    /\ \A i, j \in DOMAIN entries : entries[i] = entries[j] => i = j
    /\ \A p \in Ops : At(p, "withdraw") => Len(entries) = AppendIndex(p) + 1

-----------------------------------------------------------------------------
(* Of a torn down account nobody who may append is past the check. *)
Emptied ==
    /\ \A p \in Procs : At(p, "clearrows") => entries = <<>>
    /\ torn =>
         /\ ~ enabled /\ entries = <<>>
         /\ \A p \in Ops : lease = p /\ Mints(p) => pc[p] = "check"

-----------------------------------------------------------------------------
(* What a retirement is about to retire is live. *)
TargetIsLive ==
    \A p \in Procs :
      lease = p =>
        /\ pc[p] = "intent" => op[p].target \in LiveRows
        /\ pc[p] = "gate" /\ op[p].kind = "rotate" => op[p].target \in LiveRows
        /\ pc[p] \in {"pend", "append", "mirror"} /\ AppendFirst(p) => op[p].target \in LiveRows

RowsAreDated == \A c \in Secrets : row[c].late <= opened

(* Behind the barrier nobody who appends a key of before the reset holds   *)
(* the section.                                                            *)
Cleared ==
    \A p \in Ops :
      lease = p /\ Mints(p) /\ pc[p] \notin Entering \cup {"gate"} =>
        opened = resets /\ (Live(p) => row[p].late = resets)

Done(c) == c \in withdrawn \/ Kept(c)
Sweeps(r) ==
    Holds(r) /\ pc[r] \notin {"idle", "rfail"} =>
      /\ op[r].cutoff = IF opened = resets THEN resets ELSE 0
      /\ op[r].phase \in 1..6
      /\ pc[r] = "barrier" => op[r].phase = 3
      /\ pc[r] = "rdone" <=> op[r].phase = 6
      /\ op[r].phase >= 4 => Cleared
      /\ op[r].phase >= 5 => \A c \in Secrets : row[c].st = "active" => Done(c)
      /\ op[r].phase = 6 => \A c \in Secrets : Live(c) => Done(c)
Swept ==
    /\ job.st # "none" => resets > 0
    /\ \A r \in Runners : Sweeps(r)

-----------------------------------------------------------------------------
(* The proofs.  First the records and the counts. *)

LEMMA OpUpdates ==
  ASSUME NEW q \in OpRecords, NEW n \in Nat, NEW b \in BOOLEAN, NEW w \in Whys
  PROVE  /\ [q EXCEPT !.len = n] \in OpRecords
         /\ [q EXCEPT !.pos = n, !.whole = b] \in OpRecords
         /\ [q EXCEPT !.why = w] \in OpRecords
         /\ [q EXCEPT !.tries = n] \in OpRecords
         /\ [q EXCEPT !.phase = n] \in OpRecords
  BY Zenon DEF OpRecords

LEMMA NewOps ==
  ASSUME NEW k \in Kinds, NEW t \in Secrets \cup {NoProc}, NEW n \in Nat, NEW m \in Nat
  PROVE  /\ NoOp \in OpRecords
         /\ [NoOp EXCEPT !.kind = k, !.target = t] \in OpRecords
         /\ [NoOp EXCEPT !.kind = k, !.cutoff = n] \in OpRecords
         /\ [NoOp EXCEPT !.kind = k, !.target = t, !.phase = m, !.cutoff = n] \in OpRecords
  <1>1. NoOp \in OpRecords
    <2>1. /\ "none" \in Kinds \cup {"none"} /\ NoProc \in Secrets \cup {NoProc}
          /\ 0 \in Nat /\ FALSE \in BOOLEAN /\ "none" \in Whys /\ 1 \in Nat
      BY DEF Whys
    <2> QED
      BY <2>1, Zenon DEF NoOp, OpRecords
  <1>2. k \in Kinds \cup {"none"}
    OBVIOUS
  <1> QED
    BY <1>1, <1>2, Zenon DEF OpRecords

LEMMA RowUpdates ==
  ASSUME NEW x \in Rows, NEW s \in States
  PROVE  [x EXCEPT !.st = s] \in Rows
  BY Zenon DEF Rows

LEMMA FiniteRows ==
  /\ IsFiniteSet(Secrets) /\ Cardinality(Secrets) \in Nat
  /\ \A S : S \subseteq Secrets => IsFiniteSet(S) /\ Cardinality(S) \in Nat
                                   /\ Cardinality(S) <= Cardinality(Secrets)
  <1>1. IsFiniteSet(Secrets)
    BY CredentialsAssumption, FS_Union DEF Secrets
  <1> QED
    BY <1>1, FS_Subset, FS_CardinalityType

LEMMA CountsAreNaturals ==
  /\ \A c : Index(c) \in Nat
  /\ Cardinality(LiveRows) \in Nat
  /\ Types => ArrayLength \in Nat
  <1>1. LiveRows \subseteq Secrets
    BY DEF LiveRows
  <1>2. \A c : {d \in LiveRows : row[d].ord < row[c].ord} \subseteq Secrets
    BY <1>1
  <1>3. Types => Len(entries) \in Nat
    BY LenProperties DEF Types
  <1> QED
    BY <1>1, <1>2, <1>3, FiniteRows DEF Index, ArrayLength

(* The next ordinal is one more than a largest one. *)
LEMMA LargestExists ==
  ASSUME NEW T, T \subseteq Nat, T # {}, NEW n \in Nat, \A k \in T : k <= n
  PROVE  \E m \in T : \A k \in T : k <= m
  <1> DEFINE U == {u \in Nat : \A k \in T : k <= u}
  <1>1. U \subseteq Nat /\ U # {}
    OBVIOUS
  <1>2. \E u \in U : \A v \in U : ~ (v < u)
    <2>1. \E u \in U : \A v \in U : ~ (<<v, u>> \in OpToRel(<, Nat))
      BY <1>1, NatLessThanWellFounded, WFMin
    <2> QED
      BY <2>1 DEF OpToRel
  <1>3. PICK u \in U : \A v \in U : ~ (v < u)
    BY <1>2
  <1>4. u \in T
    <2> SUFFICES ASSUME u \notin T PROVE FALSE
      OBVIOUS
    <2>1. \A k \in T : k < u
      OBVIOUS
    <2>2. PICK k \in T : k < u
      BY <2>1
    <2>3. u - 1 \in U
      BY <2>1, <2>2
    <2> QED
      BY <1>3, <2>3
  <1> QED
    BY <1>3, <1>4

LEMMA FaultIs ==
  ASSUME Types, NEW kind, Fault(kind)
  PROVE  faults' \in 0..MaxFaults
  BY CredentialsAssumption DEF Types, Fault

(* The end of a section, and a step of it. *)
LEMMA LeaveIs ==
  ASSUME Types, NEW p \in Procs, NEW ok, Leave(p, ok)
  PROVE  /\ lease' \in Procs \cup {NoProc} /\ (lease' = lease \/ lease' = NoProc)
         /\ lease = p => lease' = NoProc
         /\ pc' = [pc EXCEPT ![p] = pc'[p]]
         /\ pc'[p] \in {"done", "list", "rfail"}
         /\ pc'[p] = "done" <=> p \in Ops
         /\ pc' \in [Procs -> Labels]
  BY CredentialsAssumption DEF Types, Leave, Goto, Labels, Running, Procs

LEMMA StepIs ==
  ASSUME Types, NEW p \in Procs, NEW l \in Labels, Step(p, l)
  PROVE  /\ lease' = lease
         /\ pc' = [pc EXCEPT ![p] = l] /\ pc'[p] = l
         /\ pc' \in [Procs -> Labels]
  BY DEF Types, Step, Goto

(* A write of rows that keeps them rows. *)
LEMMA RowsStay ==
  ASSUME Types
  PROVE  /\ NoRow \in Rows
         /\ \A c, s : s \in States /\ SetStatus(c, s) => row' \in [Secrets -> Rows]
         /\ RevokeAll => row' \in [Secrets -> Rows]
         /\ \A c : c \in Secrets /\ row' = [row EXCEPT ![c] = NoRow] => row' \in [Secrets -> Rows]
         /\ \A c : row' = [row EXCEPT ![c].st = IF @ = "retiring" THEN "active" ELSE @]
                     => row' \in [Secrets -> Rows]
  <1>1. NoRow \in Rows
    BY CredentialsAssumption DEF NoRow, Rows, States
  <1>2. ASSUME NEW c \in Secrets PROVE row[c] \in Rows /\ row[c].st \in States
    BY DEF Types, Rows
  <1>3. ASSUME NEW c, NEW s \in States, SetStatus(c, s) PROVE row' \in [Secrets -> Rows]
    BY <1>2, <1>3, RowUpdates DEF SetStatus, Types
  <1>4. ASSUME RevokeAll PROVE row' \in [Secrets -> Rows]
    <2>1. ASSUME NEW c \in Secrets PROVE Revoked(c) \in Rows
      <3>1. (IF row[c].st \in {"active", "retiring"} THEN "revoked" ELSE row[c].st) \in States
        BY <1>2 DEF States
      <3> QED
        BY <1>2, <3>1, RowUpdates DEF Revoked
    <2> QED
      BY <1>4, <2>1 DEF RevokeAll
  <1>5. ASSUME NEW c, row' = [row EXCEPT ![c].st = IF @ = "retiring" THEN "active" ELSE @]
        PROVE row' \in [Secrets -> Rows]
    <2>1. c \in Secrets => (IF row[c].st = "retiring" THEN "active" ELSE row[c].st) \in States
      BY <1>2 DEF States
    <2> QED
      BY <1>2, <1>5, <2>1, RowUpdates DEF Types
  <1> QED
    BY <1>1, <1>3, <1>4, <1>5 DEF Types

LEMMA NextOrdinalIs ==
  ASSUME Types, NEW n \in Nat, \A c \in Secrets : row[c].ord <= n, Secrets # {}
  PROVE  NextOrdinal \in Nat /\ NextOrdinal > 0 /\ NextOrdinal <= n + 1
  <1> DEFINE T == {row[c].ord : c \in Secrets}
  <1>1. T \subseteq Nat /\ T # {} /\ \A k \in T : k <= n
    BY DEF Types, Rows
  <1>2. \E m \in T : \A k \in T : k <= m
    BY <1>1, LargestExists
  <1>3. \E m \in T : \A c \in Secrets : row[c].ord <= m
    BY <1>2
  <1> DEFINE o == CHOOSE m \in T : \A c \in Secrets : row[c].ord <= m
  <1>4. o \in T
    BY <1>3
  <1>5. NextOrdinal = 1 + o
    BY DEF NextOrdinal
  <1> HIDE DEF o
  <1> QED
    BY <1>1, <1>4, <1>5

LEMMA NewRowIs ==
  ASSUME Types, Numbered, NEW c \in Secrets, NEW s \in States, NewRow(c, s)
  PROVE  /\ row' \in [Secrets -> Rows]
         /\ row'[c].st = s /\ row'[c].late = opened
         /\ row'[c].ord \in Nat /\ row'[c].ord + Cardinality(CanMint) <= Cardinality(Secrets) + 1
         /\ \A d \in Secrets : d # c => row'[d] = row[d]
  <1>1. Cardinality(Secrets) \in Nat /\ Cardinality(CanMint) \in Nat
        /\ Cardinality(CanMint) <= Cardinality(Secrets)
    <2>1. CanMint \subseteq Secrets
      BY DEF CanMint, Secrets
    <2> QED
      BY <2>1, FiniteRows
  <1> DEFINE n == Cardinality(Secrets) - Cardinality(CanMint)
  <1>2. n \in Nat /\ \A d \in Secrets : row[d].ord <= n
    BY <1>1 DEF Numbered, Types, Rows
  <1>3. NextOrdinal \in Nat /\ NextOrdinal <= n + 1
    BY <1>2, NextOrdinalIs
  <1>4. opened \in 0..MaxEvents
    BY CredentialsAssumption DEF Types
  <1> DEFINE x == [st |-> s, ord |-> NextOrdinal, late |-> opened]
  <1>5. x \in Rows
    BY <1>3, <1>4 DEF Rows
  <1>6. x.st = s /\ x.ord = NextOrdinal /\ x.late = opened
    OBVIOUS
  <1>7. row' = [row EXCEPT ![c] = x]
    BY DEF NewRow
  <1> HIDE DEF x
  <1> QED
    BY <1>1, <1>3, <1>5, <1>6, <1>7 DEF Types

-----------------------------------------------------------------------------
(* What every step of a section does to its process: it moves, and what it *)
(* is doing stays the same.                                                *)
OpKeeps(p) ==
    /\ op' = [op EXCEPT ![p] = op'[p]] /\ op'[p] \in OpRecords
    /\ op'[p].kind = op[p].kind /\ op'[p].target = op[p].target
    /\ op'[p].phase = op[p].phase /\ op'[p].cutoff = op[p].cutoff
Moves(p) ==
    /\ pc' = [pc EXCEPT ![p] = pc'[p]] /\ pc'[p] \in Labels
    /\ OpKeeps(p)
    /\ faults' \in 0..MaxFaults
    /\ UNCHANGED <<shown, enabled, flips, job, opened, resets, todo>>

(* It leaves its section, or goes on in it. *)
Leaves(p) == lease' = NoProc /\ pc'[p] \in {"done", "list", "rfail"}
             /\ (pc'[p] = "done" <=> p \in Ops)
Stays(p) == lease' = lease /\ pc'[p] \in Inside

LEMMA OpStays ==
  ASSUME Types, NEW p \in Procs, UNCHANGED op
  PROVE  OpKeeps(p) /\ op'[p].len = op[p].len
  BY DEF Types, OpKeeps

LEMMA OpChanges ==
  ASSUME Types, NEW p \in Procs, NEW n \in Nat, NEW b \in BOOLEAN, NEW w \in Whys,
         \/ op' = [op EXCEPT ![p].len = n]
         \/ op' = [op EXCEPT ![p] = [@ EXCEPT !.pos = n, !.whole = b]]
         \/ op' = [op EXCEPT ![p].why = w]
         \/ op' = [op EXCEPT ![p].tries = n]
  PROVE  /\ OpKeeps(p)
         /\ \/ op'[p].len = op[p].len
            \/ op' = [op EXCEPT ![p].len = n] /\ op'[p].len = n
  <1> DEFINE q == op[p]
  <1>1. q \in OpRecords /\ op \in [Procs -> OpRecords]
    BY DEF Types
  <1>2. /\ [q EXCEPT !.len = n] \in OpRecords
        /\ [q EXCEPT !.pos = n, !.whole = b] \in OpRecords
        /\ [q EXCEPT !.why = w] \in OpRecords
        /\ [q EXCEPT !.tries = n] \in OpRecords
    BY <1>1, OpUpdates
  <1>3. \/ op' = [op EXCEPT ![p] = [q EXCEPT !.len = n]] /\ op' = [op EXCEPT ![p].len = n]
        \/ op' = [op EXCEPT ![p] = [q EXCEPT !.pos = n, !.whole = b]]
        \/ op' = [op EXCEPT ![p] = [q EXCEPT !.why = w]]
        \/ op' = [op EXCEPT ![p] = [q EXCEPT !.tries = n]]
    OBVIOUS
  <1>4. CASE op' = [op EXCEPT ![p] = [q EXCEPT !.len = n]] /\ op' = [op EXCEPT ![p].len = n]
    <2>1. op'[p] = [q EXCEPT !.len = n]
      BY <1>1, <1>4
    <2>2. /\ op'[p].kind = q.kind /\ op'[p].target = q.target /\ op'[p].len = n
          /\ op'[p].phase = q.phase /\ op'[p].cutoff = q.cutoff
      BY <1>1, <2>1 DEF OpRecords
    <2> QED
      BY <1>1, <1>2, <1>4, <2>1, <2>2 DEF OpKeeps
  <1>5. CASE op' = [op EXCEPT ![p] = [q EXCEPT !.pos = n, !.whole = b]]
    <2>1. op'[p] = [q EXCEPT !.pos = n, !.whole = b]
      BY <1>1, <1>5
    <2>2. /\ op'[p].kind = q.kind /\ op'[p].target = q.target /\ op'[p].len = q.len
          /\ op'[p].phase = q.phase /\ op'[p].cutoff = q.cutoff
      BY <1>1, <2>1 DEF OpRecords
    <2> QED
      BY <1>1, <1>2, <1>5, <2>1, <2>2 DEF OpKeeps
  <1>6. CASE op' = [op EXCEPT ![p] = [q EXCEPT !.why = w]]
    <2>1. op'[p] = [q EXCEPT !.why = w]
      BY <1>1, <1>6
    <2>2. /\ op'[p].kind = q.kind /\ op'[p].target = q.target /\ op'[p].len = q.len
          /\ op'[p].phase = q.phase /\ op'[p].cutoff = q.cutoff
      BY <1>1, <2>1 DEF OpRecords
    <2> QED
      BY <1>1, <1>2, <1>6, <2>1, <2>2 DEF OpKeeps
  <1>7. CASE op' = [op EXCEPT ![p] = [q EXCEPT !.tries = n]]
    <2>1. op'[p] = [q EXCEPT !.tries = n]
      BY <1>1, <1>7
    <2>2. /\ op'[p].kind = q.kind /\ op'[p].target = q.target /\ op'[p].len = q.len
          /\ op'[p].phase = q.phase /\ op'[p].cutoff = q.cutoff
      BY <1>1, <2>1 DEF OpRecords
    <2> QED
      BY <1>1, <1>2, <1>7, <2>1, <2>2 DEF OpKeeps
  <1> QED
    BY <1>3, <1>4, <1>5, <1>6, <1>7

LEMMA SectionMoves ==
  ASSUME Types, NEW p \in Procs, SectionStep(p), ~ Enter(p)
  PROVE  /\ Moves(p) /\ lease = p /\ (Leaves(p) \/ Stays(p))
         /\ op'[p].len = op[p].len \/ pc[p] = "get"
  <1> USE LeaveIs, FaultIs DEF Moves, Leaves, Stays, Inside, Labels, Entering, Minting,
          Retirement, At, NoFault, outside, account, recovery
  <1>1. CASE Check(p)
    BY <1>1, OpStays DEF Check, ReadFails, Step, Goto, Types
  <1>2. CASE Get(p)
    <2>1. UNCHANGED op \/ op' = [op EXCEPT ![p].len = ArrayLength]
      BY <1>2 DEF Get, ReadFails
    <2>2. OpKeeps(p) /\ (op'[p].len = op[p].len \/ pc[p] = "get")
      BY <1>2, <2>1, CountsAreNaturals, OpStays, OpChanges DEF Get, Whys, Types, OpRecords
    <2>3. /\ pc' = [pc EXCEPT ![p] = pc'[p]] /\ pc'[p] \in Labels
          /\ faults' \in 0..MaxFaults /\ lease = p /\ (Leaves(p) \/ Stays(p))
          /\ UNCHANGED <<shown, enabled, flips, job, opened, resets, todo>>
      BY <1>2 DEF Get, ReadFails, Step, Goto, Types
    <2> QED
      BY <2>2, <2>3
  <1>3. CASE SettleLostRetirement(p)
    BY <1>3, OpStays DEF SettleLostRetirement, WriteOrLeave, Step, Goto, Types
  <1>4. CASE Place(p)
    <2>1. UNCHANGED op \/ \E n \in Nat, b \in BOOLEAN :
            op' = [op EXCEPT ![p] = [@ EXCEPT !.pos = n, !.whole = b]]
      BY <1>4, CountsAreNaturals DEF Place
    <2>2. OpKeeps(p) /\ (op'[p].len = op[p].len \/ pc[p] = "get")
      <3>1. CASE UNCHANGED op
        BY <3>1, OpStays
      <3>2. ASSUME NEW n \in Nat, NEW b \in BOOLEAN,
                   op' = [op EXCEPT ![p] = [@ EXCEPT !.pos = n, !.whole = b]]
            PROVE  OpKeeps(p) /\ (op'[p].len = op[p].len \/ pc[p] = "get")
        <4>1. op'[p].len = op[p].len
          BY <3>2 DEF Types, OpRecords
        <4>2. "none" \in Whys
          BY DEF Whys
        <4> QED
          BY <3>2, <4>1, <4>2, OpChanges
      <3> QED
        BY <2>1, <3>1, <3>2
    <2>3. /\ pc' = [pc EXCEPT ![p] = pc'[p]] /\ pc'[p] \in Labels
          /\ faults' \in 0..MaxFaults /\ lease = p /\ (Leaves(p) \/ Stays(p))
          /\ UNCHANGED <<shown, enabled, flips, job, opened, resets, todo>>
      BY <1>4 DEF Place, Step, Goto, Types
    <2> QED
      BY <2>2, <2>3
  <1>5. CASE Gate(p)
    BY <1>5, OpStays DEF Gate, ReadFails, ToAppend, Step, Goto, Types
  <1>6. CASE Intent(p)
    <2>1. UNCHANGED op \/ op' = [op EXCEPT ![p].why = "swap"]
      BY <1>6 DEF Intent
    <2>2. OpKeeps(p) /\ (op'[p].len = op[p].len \/ pc[p] = "get")
      BY <1>6, <2>1, OpStays, OpChanges DEF Intent, Whys, Types, OpRecords
    <2>3. /\ pc' = [pc EXCEPT ![p] = pc'[p]] /\ pc'[p] \in Labels
          /\ faults' \in 0..MaxFaults /\ lease = p /\ (Leaves(p) \/ Stays(p))
          /\ UNCHANGED <<shown, enabled, flips, job, opened, resets, todo>>
      BY <1>6 DEF Intent, Write, WriteOrLeave, Step, Goto, Types
    <2> QED
      BY <2>2, <2>3
  <1>7. CASE Delete(p)
    BY <1>7, OpStays DEF Delete, EdgeDelete, Step, Goto, Types
  <1>8. CASE Probe(p)
    BY <1>8, OpStays DEF Probe, ReadFails, Step, Goto, Types
  <1>9. CASE WithdrawRetirement(p)
    <2>1. UNCHANGED op \/ op' = [op EXCEPT ![p].tries = op[p].tries + 1]
      BY <1>9 DEF WithdrawRetirement
    <2>2. OpKeeps(p) /\ (op'[p].len = op[p].len \/ pc[p] = "get")
      <3>1. op[p].tries + 1 \in Nat /\ "none" \in Whys /\ TRUE \in BOOLEAN
        BY DEF Types, OpRecords, Whys
      <3>2. CASE op' = [op EXCEPT ![p].tries = op[p].tries + 1]
        <4>1. op'[p].len = op[p].len
          BY <3>2 DEF Types, OpRecords
        <4> QED
          BY <3>1, <3>2, <4>1, OpChanges
      <3> QED
        BY <2>1, <3>2, OpStays
    <2>3. /\ pc' = [pc EXCEPT ![p] = pc'[p]] /\ pc'[p] \in Labels
          /\ faults' \in 0..MaxFaults /\ lease = p /\ (Leaves(p) \/ Stays(p))
          /\ UNCHANGED <<shown, enabled, flips, job, opened, resets, todo>>
      BY <1>9 DEF WithdrawRetirement, Step, Goto, Types
    <2> QED
      BY <2>2, <2>3
  <1>10. CASE Retired(p)
    BY <1>10, OpStays DEF Retired, WriteOrLeave, ToAppend, Step, Goto, Types
  <1>11. CASE Close(p)
    BY <1>11, OpStays DEF Close, WriteAndLeave, Step, Goto, Types
  <1>12. CASE Pend(p)
    BY <1>12, OpStays DEF Pend, WriteOrLeave, Step, Goto, Types
  <1>13. CASE AppendEntry(p)
    <2>1. UNCHANGED op \/ op' = [op EXCEPT ![p].why = "post"]
      BY <1>13 DEF AppendEntry
    <2>2. OpKeeps(p) /\ (op'[p].len = op[p].len \/ pc[p] = "get")
      BY <1>13, <2>1, OpStays, OpChanges DEF AppendEntry, Whys, Types, OpRecords
    <2>3. /\ pc' = [pc EXCEPT ![p] = pc'[p]] /\ pc'[p] \in Labels
          /\ faults' \in 0..MaxFaults /\ lease = p /\ (Leaves(p) \/ Stays(p))
          /\ UNCHANGED <<shown, enabled, flips, job, opened, resets, todo>>
      BY <1>13 DEF AppendEntry, Step, Goto, Types
    <2> QED
      BY <2>2, <2>3
  <1>14. CASE Unpend(p)
    BY <1>14, OpStays DEF Unpend, Step, Goto, Types
  <1>15. CASE Mirror(p)
    <2>1. UNCHANGED op \/ op' = [op EXCEPT ![p].why = "row"]
      BY <1>15 DEF Mirror
    <2>2. OpKeeps(p) /\ (op'[p].len = op[p].len \/ pc[p] = "get")
      BY <1>15, <2>1, OpStays, OpChanges DEF Mirror, Whys, Types, OpRecords
    <2>3. /\ pc' = [pc EXCEPT ![p] = pc'[p]] /\ pc'[p] \in Labels
          /\ faults' \in 0..MaxFaults /\ lease = p /\ (Leaves(p) \/ Stays(p))
          /\ UNCHANGED <<shown, enabled, flips, job, opened, resets, todo>>
      BY <1>15 DEF Mirror, Deliver, Step, Goto, Types
    <2> QED
      BY <2>2, <2>3
  <1>16. CASE Reclaim(p)
    BY <1>16, OpStays DEF Reclaim, Step, Goto, Types
  <1>17. CASE Withdraw(p)
    BY <1>17, OpStays DEF Withdraw, EdgeDelete, AfterWithdrawal, Step, Goto, Types
  <1>18. CASE Reread(p)
    BY <1>18, OpStays DEF Reread, AfterWithdrawal, Step, Goto, Types
  <1>19. CASE Unlist(p)
    BY <1>19, OpStays DEF Unlist, Write, Step, Goto, Types
  <1>20. CASE Reactivate(p)
    BY <1>20, OpStays DEF Reactivate, Write, Step, Goto, Types
  <1>21. CASE Note(p)
    BY <1>21, OpStays DEF Note, Step, Goto, Types
  <1>22. CASE Rotated(p)
    BY <1>22, OpStays DEF Rotated, Deliver, Step, Goto, Types
  <1>23. CASE Wipe(p)
    BY <1>23, OpStays DEF Wipe, Step, Goto, Types
  <1>24. CASE ClearRows(p)
    BY <1>24, OpStays DEF ClearRows, WriteAndLeave, Step, Goto, Types
  <1> QED
    BY <1>1, <1>2, <1>3, <1>4, <1>5, <1>6, <1>7, <1>8, <1>9, <1>10,
       <1>11, <1>12, <1>13, <1>14, <1>15, <1>16, <1>17, <1>18, <1>19, <1>20,
       <1>21, <1>22, <1>23, <1>24
       DEF SectionStep

(* The array with one entry taken out. *)
LEMMA WithoutIs ==
  ASSUME NEW S, entries \in Seq(S), NEW i \in DOMAIN entries
  PROVE  /\ Without(i) \in Seq(S) /\ Len(Without(i)) = Len(entries) - 1
         /\ \A j \in 1..(Len(entries) - 1) :
               Without(i)[j] = entries[IF j < i THEN j ELSE j + 1]
  <1> DEFINE n == Len(entries)
             a == SubSeq(entries, 1, i - 1)
             b == SubSeq(entries, i + 1, n)
  <1>1. n \in Nat /\ DOMAIN entries = 1..n /\ i \in 1..n /\ \A j \in 1..n : entries[j] \in S
    BY LenProperties
  <1>2. a \in Seq(S) /\ Len(a) = i - 1 /\ \A j \in 1..(i - 1) : a[j] = entries[j]
    <2>1. i - 1 \in Int /\ 1 \in Int /\ \A j \in 1..(i - 1) : entries[j] \in S
      BY <1>1
    <2>2. /\ a \in Seq(S) /\ Len(a) = IF 1 <= i - 1 THEN (i - 1) - 1 + 1 ELSE 0
          /\ \A j \in 1..((i - 1) - 1 + 1) : a[j] = entries[1 + j - 1]
      BY <2>1, SubSeqProperties
    <2> HIDE DEF a
    <2> QED
      BY <1>1, <2>2
  <1>3. b \in Seq(S) /\ Len(b) = n - i /\ \A j \in 1..(n - i) : b[j] = entries[i + j]
    <2>1. i + 1 \in Int /\ n \in Int /\ \A j \in (i + 1)..n : entries[j] \in S
      BY <1>1
    <2>2. /\ b \in Seq(S) /\ Len(b) = IF i + 1 <= n THEN n - (i + 1) + 1 ELSE 0
          /\ \A j \in 1..(n - (i + 1) + 1) : b[j] = entries[(i + 1) + j - 1]
      BY <2>1, SubSeqProperties
    <2>3. n - (i + 1) + 1 = n - i /\ \A j \in 1..(n - i) : (i + 1) + j - 1 = i + j
      BY <1>1
    <2>4. Len(b) = n - i
      BY <1>1, <2>2
    <2> HIDE DEF b
    <2> QED
      BY <2>2, <2>3, <2>4
  <1>4. Without(i) = a \o b
    BY DEF Without
  <1> HIDE DEF a, b
  <1>5. /\ a \o b \in Seq(S) /\ Len(a \o b) = Len(a) + Len(b)
        /\ \A j \in 1..(Len(a) + Len(b)) :
              (a \o b)[j] = IF j <= Len(a) THEN a[j] ELSE b[j - Len(a)]
    BY <1>2, <1>3, ConcatProperties
  <1>6. Len(a) + Len(b) = n - 1
    BY <1>1, <1>2, <1>3
  <1>7. ASSUME NEW j \in 1..(n - 1) PROVE (a \o b)[j] = entries[IF j < i THEN j ELSE j + 1]
    <2>1. CASE j < i
      <3>1. j \in 1..(i - 1) /\ j \in 1..(Len(a) + Len(b)) /\ j <= Len(a)
        BY <1>1, <1>2, <1>6, <2>1
      <3> QED
        BY <1>2, <1>5, <2>1, <3>1
    <2>2. CASE ~ (j < i)
      <3>1. /\ j - Len(a) \in 1..(n - i) /\ i + (j - Len(a)) = j + 1
            /\ j \in 1..(Len(a) + Len(b)) /\ ~ (j <= Len(a))
        BY <1>1, <1>2, <1>6, <2>2
      <3>2. b[j - Len(a)] = entries[j + 1]
        BY <1>3, <3>1
      <3> QED
        BY <1>5, <2>2, <3>1, <3>2
    <2> QED
      BY <2>1, <2>2
  <1> HIDE DEF n
  <1>8. Len(entries) = n
    BY DEF n
  <1> QED
    BY <1>4, <1>5, <1>6, <1>7, <1>8

(* Where a step of a section may lead. *)
Flows(p) ==
    /\ Fits(p)'
    /\ Mints(p) /\ pc'[p] \in Inside \ (Entering \cup {"gate"}) =>
         pc[p] \in Inside \ Entering /\ (pc[p] = "gate" => ~ Blocks)
    /\ Mints(p) /\ lease' = p /\ pc[p] = "check" => enabled
    /\ Fresh(p)' => Fresh(p)
    /\ (Fresh(p)' /\ pc'[p] # "mirror") \/ pc'[p] = "append" =>
         Fresh(p) /\ pc[p] \notin {"append", "mirror"}
    /\ pc'[p] = "clearrows" => entries' = <<>>
    /\ pc'[p] = "withdraw" =>
         pc[p] = "reclaim" /\ Len(entries) = AppendIndex(p) + 1 /\ entries' = entries

LEMMA SectionFlow ==
  ASSUME WellFormed, NEW p \in Procs, SectionStep(p), ~ Enter(p)
  PROVE  Flows(p)
  <1>1. /\ lease = p /\ OpKeeps(p) /\ shown' = shown /\ (Leaves(p) \/ Stays(p))
        /\ (op'[p].len = op[p].len \/ pc[p] = "get")
    BY SectionMoves DEF Moves, WellFormed
  <1>2. Types /\ Fits(p) /\ p # NoProc
    BY CredentialsAssumption DEF WellFormed, Places, Procs
  <1>3. pc \in [Procs -> Labels]
    BY <1>2 DEF Types
  <1> USE <1>1, <1>2, <1>3, LeaveIs, CredentialsAssumption DEF OpKeeps, Fits, Mints, Fresh,
      DeleteFirst, AppendFirst, Procs, Kinds, Inside, Labels, Entering, Minting, Retirement,
      Running, At, Leaves, Flows
  <1>4. CASE Check(p)
    <2>1. pc[p] = "check" /\ (Leaves(p) \/ pc'[p] \in {"wipe", "get"})
      BY <1>4 DEF Check, ReadFails, Step, Goto
    <2>2. /\ pc'[p] = "wipe" => op[p].kind \in {"reconcile", "teardown"}
          /\ Mints(p) /\ lease' = p => enabled
      BY <1>4 DEF Check, ReadFails, Step, Goto
    <2> QED
      BY <2>1, <2>2
  <1>5. CASE Get(p)
    BY <1>5 DEF Get, ReadFails, Step, Goto
  <1>6. CASE SettleLostRetirement(p)
    BY <1>6 DEF SettleLostRetirement, WriteOrLeave, Step, Goto
  <1>7. CASE Place(p)
    <2>1. pc[p] = "place" /\ (Leaves(p) \/ pc'[p] \in {"gate", "close", "intent"})
      <3>1. CASE op[p].kind = "issue"
        BY <1>7, <3>1 DEF Place, Step, Goto
      <3>2. CASE op[p].kind = "rotate"
        BY <1>7, <3>2 DEF Place, Step, Goto
      <3>3. CASE op[p].kind \notin {"issue", "rotate"}
        BY <1>7, <3>3 DEF Place, Step, Goto
      <3> QED
        BY <3>1, <3>2, <3>3
    <2>2. /\ pc'[p] = "gate" => Mints(p)
          /\ pc'[p] \in {"close", "intent"} => ~ Mints(p)
      BY <1>7 DEF Place, Step, Goto
    <2> QED
      BY <2>1, <2>2
  <1>8. CASE Gate(p)
    BY <1>8 DEF Gate, ReadFails, ToAppend, Step, Goto
  <1>9. CASE Intent(p)
    <2>1. pc[p] = "intent" /\ (Leaves(p) \/ pc'[p] \in {"delete", "reclaim"})
      BY <1>9 DEF Intent, Write, WriteOrLeave, Step, Goto
    <2>2. pc'[p] = "reclaim" => AppendFirst(p)
      BY <1>9 DEF Intent, Write, WriteOrLeave, Step, Goto
    <2> QED
      BY <2>1, <2>2
  <1>10. CASE Delete(p)
    BY <1>10 DEF Delete, EdgeDelete, Step, Goto
  <1>11. CASE Probe(p)
    BY <1>11 DEF Probe, ReadFails, Step, Goto
  <1>12. CASE WithdrawRetirement(p)
    BY <1>12 DEF WithdrawRetirement, Step, Goto
  <1>13. CASE Retired(p)
    BY <1>13 DEF Retired, WriteOrLeave, ToAppend, Step, Goto
  <1>14. CASE Close(p)
    BY <1>14 DEF Close, WriteAndLeave, Step, Goto
  <1>15. CASE Pend(p)
    BY <1>15 DEF Pend, WriteOrLeave, Step, Goto
  <1>16. CASE AppendEntry(p)
    BY <1>16 DEF AppendEntry, Step, Goto
  <1>17. CASE Unpend(p)
    BY <1>17 DEF Unpend, Step, Goto
  <1>18. CASE Mirror(p)
    <2>1. /\ pc[p] = "mirror"
          /\ Leaves(p) \/ pc'[p] \in {"reclaim", "note"} \/ (pc'[p] = "intent" /\ AppendFirst(p))
      BY <1>18 DEF Mirror, Deliver, Step, Goto
    <2>2. op[p].len \in Nat /\ Cap \in Nat
      BY DEF Types, OpRecords
    <2>3. AppendFirst(p) => ~ DeleteFirst(p)
      BY <2>2
    <2> QED
      BY <2>1, <2>3
  <1>19. CASE Reclaim(p)
    <2>1. pc[p] = "reclaim" /\ (Leaves(p) \/ pc'[p] \in {"withdraw", "note"}) /\ entries' = entries
      <3>1. /\ pc[p] = "reclaim" /\ entries' = entries
            /\ Leave(p, FALSE) \/ Goto(p, "withdraw") \/ Goto(p, "note")
        BY <1>19 DEF Reclaim, Step
      <3> QED
        BY <3>1 DEF Goto
    <2>2. pc'[p] = "withdraw" => Len(entries) = AppendIndex(p) + 1
      BY <1>19 DEF Reclaim, Step, Goto
    <2> QED
      BY <2>1, <2>2
  <1>20. CASE Withdraw(p)
    BY <1>20 DEF Withdraw, EdgeDelete, AfterWithdrawal, Step, Goto
  <1>21. CASE Reread(p)
    BY <1>21 DEF Reread, AfterWithdrawal, Step, Goto
  <1>22. CASE Unlist(p)
    BY <1>22 DEF Unlist, Write, Step, Goto
  <1>23. CASE Reactivate(p)
    BY <1>23 DEF Reactivate, Write, Step, Goto
  <1>24. CASE Note(p)
    BY <1>24 DEF Note, Step, Goto
  <1>25. CASE Rotated(p)
    BY <1>25 DEF Rotated, Deliver, Step, Goto
  <1>26. CASE Wipe(p)
    BY <1>26 DEF Wipe, Step, Goto
  <1>27. CASE ClearRows(p)
    BY <1>27 DEF ClearRows, WriteAndLeave, Step, Goto
  <1> HIDE DEF Flows
  <1> QED
    BY <1>4, <1>5, <1>6, <1>7, <1>8, <1>9, <1>10, <1>11, <1>12, <1>13, <1>14, <1>15, <1>16,
       <1>17, <1>18, <1>19, <1>20, <1>21, <1>22, <1>23, <1>24, <1>25, <1>26, <1>27 DEF SectionStep

(* What a step of a section does to the array. *)
LEMMA SectionEntries ==
  ASSUME WellFormed, Array, NEW p \in Procs, SectionStep(p), ~ Enter(p)
  PROVE  \/ entries' = entries
         \/ entries' = <<>>
         \/ \E i \in DOMAIN entries : entries' = Without(i)
         \/ /\ pc[p] = "append" /\ pc'[p] \in {"mirror", "reclaim", "note"}
            /\ Len(entries) < Cap /\ entries' = Append(entries, p)
  <1>1. Types /\ Fits(p) /\ pc \in [Procs -> Labels]
    BY DEF WellFormed, Places, Types
  <1>2. CASE Check(p)
    BY <1>2 DEF Check
  <1>3. CASE Get(p)
    BY <1>3 DEF Get
  <1>4. CASE SettleLostRetirement(p)
    BY <1>4 DEF SettleLostRetirement
  <1>5. CASE Place(p)
    BY <1>5 DEF Place
  <1>6. CASE Gate(p)
    BY <1>6 DEF Gate
  <1>7. CASE Intent(p)
    BY <1>7 DEF Intent
  <1>8. CASE Delete(p)
    BY <1>8 DEF Delete, EdgeDelete
  <1>9. CASE Probe(p)
    BY <1>9 DEF Probe
  <1>10. CASE WithdrawRetirement(p)
    BY <1>10 DEF WithdrawRetirement
  <1>11. CASE Retired(p)
    BY <1>11 DEF Retired
  <1>12. CASE Close(p)
    BY <1>12 DEF Close
  <1>13. CASE Pend(p)
    BY <1>13 DEF Pend
  <1>14. CASE AppendEntry(p)
    BY <1>1, <1>14 DEF AppendEntry, At, Step, Goto
  <1>15. CASE Unpend(p)
    BY <1>15 DEF Unpend
  <1>16. CASE Mirror(p)
    BY <1>16 DEF Mirror
  <1>17. CASE Reclaim(p)
    BY <1>17 DEF Reclaim
  <1>18. CASE Withdraw(p)
    <2>1. At(p, "withdraw") /\ (entries' = entries \/ entries' = Without(AppendIndex(p) + 1))
      BY <1>18 DEF Withdraw, EdgeDelete
    <2>2. p \in Ops
      BY <1>1, <2>1 DEF Procs, Fits, Mints, Minting, At
    <2>3. AppendIndex(p) + 1 = Len(entries)
      BY <2>1, <2>2 DEF Array
    <2>4. op[p].len \in Nat /\ Cap \in Nat \ {0}
      BY <1>1, CredentialsAssumption DEF Types, OpRecords
    <2>5. AppendIndex(p) \in Nat
      BY <2>4 DEF AppendIndex, DeleteFirst
    <2>6. DOMAIN entries = 1..Len(entries) /\ Len(entries) \in Nat
      BY <1>1, LenProperties DEF Types
    <2>7. AppendIndex(p) + 1 \in DOMAIN entries
      BY <2>3, <2>5, <2>6
    <2> QED
      BY <2>1, <2>7
  <1>19. CASE Reread(p)
    BY <1>19 DEF Reread
  <1>20. CASE Unlist(p)
    BY <1>20 DEF Unlist
  <1>21. CASE Reactivate(p)
    BY <1>21 DEF Reactivate
  <1>22. CASE Note(p)
    BY <1>22 DEF Note
  <1>23. CASE Rotated(p)
    BY <1>23 DEF Rotated
  <1>24. CASE Wipe(p)
    BY <1>24 DEF Wipe
  <1>25. CASE ClearRows(p)
    BY <1>25 DEF ClearRows
  <1> QED
    BY <1>2, <1>3, <1>4, <1>5, <1>6, <1>7, <1>8, <1>9, <1>10, <1>11,
       <1>12, <1>13, <1>14, <1>15, <1>16, <1>17, <1>18, <1>19, <1>20, <1>21,
       <1>22, <1>23, <1>24, <1>25
       DEF SectionStep

(* What it does to one row. *)
Becomes(c, s) ==
    row'[c].st = s /\ row'[c].ord = row[c].ord /\ row'[c].late = row[c].late
Settling == {"settle", "retired", "close", "rotated", "clearrows"}
Minted(p) ==
    /\ p \in Ops /\ (pc[p] = "pend" \/ (pc[p] = "mirror" /\ shown)) /\ ~ Fresh(p)'
    /\ row'[p].st \in {"active", "retiring"} /\ row'[p].late = opened
    /\ row'[p].ord + Cardinality(CanMint) <= Cardinality(Secrets) + 1
RowStep(p, c) ==
    \/ row'[c] = row[c]
    \/ Becomes(c, "revoked") /\ (Live(c) \/ c = op[p].target) /\ pc[p] \in Settling
    \/ row'[c] = NoRow /\ c = p /\ pc[p] \in {"unpend", "unlist"}
    \/ Becomes(c, "retiring") /\ c = op[p].target /\ pc[p] = "intent"
    \/ Becomes(c, "active") /\ c = op[p].target /\ c \in withdrawn'
    \/ Becomes(c, "active") /\ c = p /\ row[c].st = "retiring" /\ pc[p] = "mirror"
    \/ Minted(p) /\ c = p

LEMMA SetStatusIs ==
  ASSUME Types, NEW t, NEW s \in States, row' = [row EXCEPT ![t].st = s]
  PROVE  /\ row' \in [Secrets -> Rows]
         /\ \A c \in Secrets : IF c = t THEN Becomes(c, s) ELSE row'[c] = row[c]
  <1>1. ASSUME NEW c \in Secrets PROVE row[c] \in Rows
    BY DEF Types
  <1>2. ASSUME NEW c \in Secrets
        PROVE row'[c] = IF c = t THEN [row[c] EXCEPT !.st = s] ELSE row[c]
    BY DEF Types
  <1>3. ASSUME NEW c \in Secrets, c = t PROVE Becomes(c, s)
    BY <1>1, <1>2, <1>3 DEF Becomes, Rows
  <1> QED
    BY <1>2, <1>3, RowsStay DEF SetStatus

LEMMA RevokeAllIs ==
  ASSUME Types, RevokeAll
  PROVE  /\ row' \in [Secrets -> Rows]
         /\ \A c \in Secrets : IF Live(c) THEN Becomes(c, "revoked") ELSE row'[c] = row[c]
  <1>1. ASSUME NEW c \in Secrets PROVE row[c] \in Rows /\ row'[c] = Revoked(c)
    BY DEF Types, RevokeAll
  <1>2. ASSUME NEW c \in Secrets
        PROVE IF Live(c) THEN Becomes(c, "revoked") ELSE row'[c] = row[c]
    BY <1>1 DEF Becomes, Rows, Revoked, Live
  <1> QED
    BY <1>2, RowsStay

(* A row that an operation writes as its own: the secret's place is taken. *)
LEMMA MintedIs ==
  ASSUME WellFormed, Numbered, NEW p \in Procs, NEW s \in {"active", "retiring"},
         NewRow(p, s), SectionStep(p), ~ Enter(p),
         pc[p] = "pend" \/ (pc[p] = "mirror" /\ shown),
         pc[p] = "pend" => Leaves(p) \/ pc'[p] = "append",
         pc[p] = "mirror" => Leaves(p) \/ pc'[p] = "reclaim" \/ (pc'[p] = "intent" /\ AppendFirst(p))
  PROVE  row' \in [Secrets -> Rows] /\ \A c \in Secrets : RowStep(p, c)
  <1>1. Types /\ Fits(p)
    BY DEF WellFormed, Places
  <1>2. p \in Ops /\ p \in Secrets /\ s \in States
    BY <1>1 DEF Fits, Mints, Minting, Procs, Secrets, States
  <1>3. /\ row' \in [Secrets -> Rows]
        /\ row'[p].st = s /\ row'[p].late = opened
        /\ row'[p].ord \in Nat /\ row'[p].ord + Cardinality(CanMint) <= Cardinality(Secrets) + 1
        /\ \A d \in Secrets : d # p => row'[d] = row[d]
    BY <1>1, <1>2, NewRowIs
  <1>4. ~ Fresh(p)'
    <2>1. shown' = shown /\ OpKeeps(p) /\ op'[p].len = op[p].len
      BY <1>1, SectionMoves DEF Moves
    <2>2. op[p].len \in Nat /\ Cap \in Nat
      BY <1>1, CredentialsAssumption DEF Types, OpRecords
    <2>3. pc[p] = "pend" => ~ shown
      BY <1>1 DEF Fits
    <2> QED
      BY <1>2, <2>1, <2>2, <2>3 DEF Fresh, DeleteFirst, AppendFirst, Leaves, OpKeeps
  <1> QED
    BY <1>2, <1>3, <1>4 DEF RowStep, Minted

LEMMA SectionRow ==
  ASSUME WellFormed, Numbered, NEW p \in Procs, SectionStep(p), ~ Enter(p)
  PROVE  /\ row' \in [Secrets -> Rows] /\ \A c \in Secrets : RowStep(p, c)
         /\ withdrawn \subseteq withdrawn' /\ withdrawn' \subseteq Secrets
  <1>1. Types /\ Fits(p) /\ lease = p
    BY SectionMoves DEF WellFormed, Places
  <1>2. row \in [Secrets -> Rows] /\ withdrawn \subseteq Secrets
        /\ {"active", "retiring", "revoked"} \subseteq States
    BY <1>1 DEF Types, States
  <1>3. ASSUME NEW t, SetStatus(t, "revoked"), t \in LiveRows \cup {op[p].target},
               pc[p] \in Settling
        PROVE row' \in [Secrets -> Rows] /\ \A c \in Secrets : RowStep(p, c)
    BY <1>1, <1>2, <1>3, SetStatusIs DEF SetStatus, RowStep, LiveRows
  <1>4. ASSUME RevokeAll, pc[p] \in Settling
        PROVE row' \in [Secrets -> Rows] /\ \A c \in Secrets : RowStep(p, c)
    BY <1>1, <1>4, RevokeAllIs DEF RowStep
  <1>5. ASSUME row' = [row EXCEPT ![p] = NoRow], pc[p] \in {"unpend", "unlist"}
        PROVE row' \in [Secrets -> Rows] /\ \A c \in Secrets : RowStep(p, c)
    <2>1. NoRow \in Rows
      BY <1>1, RowsStay
    <2> QED
      BY <1>2, <1>5, <2>1 DEF RowStep
  <1>6. ASSUME UNCHANGED row
        PROVE row' \in [Secrets -> Rows] /\ \A c \in Secrets : RowStep(p, c)
    BY <1>2, <1>6 DEF RowStep
  <1> USE <1>1, <1>2 DEF At, history
  <1>7. CASE Check(p)
    BY <1>6, <1>7 DEF Check
  <1>8. CASE Get(p)
    BY <1>6, <1>8 DEF Get
  <1>9. CASE Place(p)
    BY <1>6, <1>9 DEF Place
  <1>10. CASE Gate(p)
    BY <1>6, <1>10 DEF Gate
  <1>11. CASE Delete(p)
    BY <1>6, <1>11 DEF Delete
  <1>12. CASE Probe(p)
    BY <1>6, <1>12 DEF Probe
  <1>13. CASE AppendEntry(p)
    BY <1>6, <1>13 DEF AppendEntry
  <1>14. CASE Reclaim(p)
    BY <1>6, <1>14 DEF Reclaim
  <1>15. CASE Withdraw(p)
    BY <1>6, <1>15 DEF Withdraw
  <1>16. CASE Reread(p)
    BY <1>6, <1>16 DEF Reread
  <1>17. CASE Note(p)
    BY <1>6, <1>17 DEF Note
  <1>18. CASE Wipe(p)
    BY <1>6, <1>18 DEF Wipe
  <1>19. CASE SettleLostRetirement(p)
    BY <1>3, <1>6, <1>19 DEF SettleLostRetirement, WriteOrLeave, Retiring, LiveRows, Live, Settling
  <1>20. CASE Intent(p)
    <2>1. pc[p] = "intent" /\ UNCHANGED withdrawn
          /\ (UNCHANGED row \/ row' = [row EXCEPT ![op[p].target].st = "retiring"])
      BY <1>20 DEF Intent, Write, WriteOrLeave, SetStatus
    <2>2. ASSUME row' = [row EXCEPT ![op[p].target].st = "retiring"]
          PROVE row' \in [Secrets -> Rows] /\ \A c \in Secrets : RowStep(p, c)
      BY <2>1, <2>2, SetStatusIs DEF RowStep
    <2> QED
      BY <1>6, <2>1, <2>2
  <1>21. CASE WithdrawRetirement(p)
    <2> DEFINE t == op[p].target
               s == IF row[t].st = "retiring" THEN "active" ELSE row[t].st
    <2>1. UNCHANGED row \/ row' = [row EXCEPT ![t].st = s]
      BY <1>21 DEF WithdrawRetirement
    <2>2. withdrawn' = IF row' = row THEN withdrawn ELSE withdrawn \cup {t}
      BY <1>21 DEF WithdrawRetirement, GivenBack
    <2>3. ASSUME row' # row PROVE t \in Secrets
      BY <2>1, <2>3
    <2>4. ASSUME row' # row PROVE row' \in [Secrets -> Rows] /\ \A c \in Secrets : RowStep(p, c)
      <3>1. row[t].st \in States
        BY <2>3, <2>4 DEF Rows
      <3>2. s \in States
        BY <3>1
      <3>3. \A c \in Secrets : IF c = t THEN Becomes(c, s) ELSE row'[c] = row[c]
        BY <2>1, <2>4, <3>2, SetStatusIs
      <3>4. s = "active"
        <4> SUFFICES ASSUME s # "active" PROVE FALSE
          OBVIOUS
        <4>1. s = row[t].st
          OBVIOUS
        <4> HIDE DEF s
        <4> QED
          BY <2>1, <2>4, <4>1 DEF Rows
      <3>5. row' \in [Secrets -> Rows]
        BY <2>1, <2>4, <3>2, SetStatusIs
      <3> HIDE DEF s
      <3> QED
        BY <2>2, <2>4, <3>3, <3>4, <3>5 DEF RowStep
    <2> QED
      BY <1>6, <2>2, <2>3, <2>4
  <1>22. CASE Retired(p)
    BY <1>3, <1>6, <1>22 DEF Retired, WriteOrLeave, Settling
  <1>23. CASE Rotated(p)
    BY <1>3, <1>6, <1>23 DEF Rotated, Deliver, Settling
  <1>24. CASE Close(p)
    BY <1>3, <1>4, <1>6, <1>24 DEF Close, WriteAndLeave, Settling
  <1>25. CASE ClearRows(p)
    BY <1>4, <1>6, <1>25 DEF ClearRows, WriteAndLeave, Settling
  <1>26. CASE Unpend(p)
    BY <1>5, <1>6, <1>26 DEF Unpend
  <1>27. CASE Unlist(p)
    BY <1>5, <1>6, <1>27 DEF Unlist, Write
  <1>28. CASE Pend(p)
    <2>1. pc[p] = "pend" /\ UNCHANGED withdrawn
          /\ (UNCHANGED row \/ NewRow(p, "retiring"))
          /\ (Leaves(p) \/ pc'[p] = "append")
      BY <1>28, LeaveIs DEF Pend, WriteOrLeave, Step, Goto, Leaves, Types
    <2> QED
      BY <1>6, <2>1, MintedIs
  <1>29. CASE Mirror(p)
    <2> DEFINE s == IF row[p].st = "retiring" THEN "active" ELSE row[p].st
    <2>1. pc[p] = "mirror" /\ UNCHANGED withdrawn
      BY <1>29 DEF Mirror
    <2>2. UNCHANGED row \/ (shown /\ NewRow(p, "active"))
          \/ (~ shown /\ row' = [row EXCEPT ![p].st = s])
      BY <1>29 DEF Mirror
    <2>3. shown => Leaves(p) \/ pc'[p] = "reclaim" \/ (pc'[p] = "intent" /\ AppendFirst(p))
      BY <1>29, LeaveIs DEF Mirror, Deliver, Step, Goto, Leaves, Types
    <2>4. CASE shown /\ NewRow(p, "active")
      BY <2>1, <2>3, <2>4, MintedIs
    <2>5. CASE ~ shown /\ row' = [row EXCEPT ![p].st = s]
      <3>1. p \in Ops /\ p \in Secrets
        BY <2>1 DEF Fits, Mints, Minting, Procs, Secrets
      <3>2. s \in States
        BY <3>1 DEF Rows
      <3>3. /\ row' \in [Secrets -> Rows]
            /\ \A c \in Secrets : IF c = p THEN Becomes(c, s) ELSE row'[c] = row[c]
        BY <2>5, <3>2, SetStatusIs
      <3>4. CASE row[p].st = "retiring"
        BY <2>1, <3>3, <3>4 DEF RowStep
      <3>5. CASE row[p].st # "retiring"
        <4>1. s = row[p].st
          BY <3>5
        <4> HIDE DEF s
        <4>2. row' = row
          BY <2>5, <3>1, <4>1 DEF Rows
        <4> QED
          BY <1>6, <2>1, <4>2
      <3> QED
        BY <2>1, <3>3, <3>4, <3>5
    <2> QED
      BY <1>6, <2>1, <2>2, <2>4, <2>5
  <1>30. CASE Reactivate(p)
    <2> DEFINE t == op[p].target
    <2>1. UNCHANGED row \/ row' = [row EXCEPT ![t].st = "active"]
      BY <1>30 DEF Reactivate, Write, SetStatus
    <2>2. withdrawn' = IF row' = row THEN withdrawn ELSE withdrawn \cup {t}
      BY <1>30 DEF Reactivate, GivenBack
    <2>3. ASSUME row' # row PROVE t \in Secrets
      BY <2>1, <2>3
    <2>4. ASSUME row' # row PROVE row' \in [Secrets -> Rows] /\ \A c \in Secrets : RowStep(p, c)
      BY <2>1, <2>2, <2>4, SetStatusIs DEF RowStep
    <2> QED
      BY <1>6, <2>2, <2>3, <2>4
  <1> QED
    BY <1>7, <1>8, <1>9, <1>10, <1>11, <1>12, <1>13, <1>14, <1>15, <1>16,
       <1>17, <1>18, <1>19, <1>20, <1>21, <1>22, <1>23, <1>24, <1>25, <1>26,
       <1>27, <1>28, <1>29, <1>30
       DEF SectionStep

(* What it does to the notes of what was done. *)
LEMMA SectionHistory ==
  ASSUME WellFormed, NEW p \in Procs, SectionStep(p), ~ Enter(p)
  PROVE  /\ noted' \subseteq Secrets /\ delivered' \subseteq Secrets /\ blind' \subseteq Secrets
         /\ emptied' \in BOOLEAN /\ torn' \in BOOLEAN
         /\ torn' # torn => lease' = NoProc /\ pc[p] = "clearrows" /\ torn' /\ ~ enabled /\ entries' = entries
  <1>1. Types /\ Fits(p) /\ lease = p
    BY SectionMoves DEF WellFormed, Places
  <1>2. noted \subseteq Secrets /\ delivered \subseteq Secrets /\ blind \subseteq Secrets
        /\ emptied \in BOOLEAN /\ torn \in BOOLEAN
    BY <1>1 DEF Types
  <1>3. pc[p] \in Minting => p \in Secrets
    BY <1>1 DEF Fits, Mints, Procs, Secrets, Minting
  <1> USE <1>1, <1>2, <1>3 DEF At, history, outside, account, Minting
  <1>4. CASE Check(p)
    BY <1>4 DEF Check
  <1>5. CASE Get(p)
    BY <1>5 DEF Get
  <1>6. CASE SettleLostRetirement(p)
    BY <1>6 DEF SettleLostRetirement
  <1>7. CASE Place(p)
    BY <1>7 DEF Place
  <1>8. CASE Gate(p)
    BY <1>8 DEF Gate
  <1>9. CASE Intent(p)
    BY <1>9 DEF Intent
  <1>10. CASE Delete(p)
    BY <1>10 DEF Delete
  <1>11. CASE Probe(p)
    BY <1>11 DEF Probe
  <1>12. CASE WithdrawRetirement(p)
    BY <1>12 DEF WithdrawRetirement
  <1>13. CASE Retired(p)
    BY <1>13 DEF Retired
  <1>14. CASE Close(p)
    BY <1>14 DEF Close
  <1>15. CASE Pend(p)
    BY <1>15 DEF Pend
  <1>16. CASE AppendEntry(p)
    BY <1>16 DEF AppendEntry
  <1>17. CASE Unpend(p)
    BY <1>17 DEF Unpend
  <1>18. CASE Mirror(p)
    BY <1>18 DEF Mirror, Deliver
  <1>19. CASE Reclaim(p)
    BY <1>19 DEF Reclaim
  <1>20. CASE Withdraw(p)
    BY <1>20 DEF Withdraw
  <1>21. CASE Reread(p)
    BY <1>21 DEF Reread
  <1>22. CASE Unlist(p)
    BY <1>22 DEF Unlist
  <1>23. CASE Reactivate(p)
    BY <1>23 DEF Reactivate
  <1>24. CASE Note(p)
    BY <1>24 DEF Note
  <1>25. CASE Rotated(p)
    BY <1>25 DEF Rotated, Deliver
  <1>26. CASE Wipe(p)
    BY <1>26 DEF Wipe
  <1>27. CASE ClearRows(p)
    <2>1. pc[p] = "clearrows" /\ lease' = NoProc /\ entries' = entries
          /\ UNCHANGED <<noted, delivered, blind>>
      BY <1>27, LeaveIs DEF ClearRows, WriteAndLeave
    <2>2. torn' = (torn \/ (op[p].kind = "teardown" /\ ~ enabled /\ faults' = faults))
          /\ emptied' = (row' = row /\ LiveRows # {})
      BY <1>27 DEF ClearRows
    <2>3. emptied' \in BOOLEAN /\ torn' \in BOOLEAN /\ (torn' # torn => torn' /\ ~ enabled)
      BY <1>2, <2>2, Zenon
    <2> QED
      BY <2>1, <2>3
  <1> QED
    BY <1>4, <1>5, <1>6, <1>7, <1>8, <1>9, <1>10, <1>11, <1>12, <1>13,
       <1>14, <1>15, <1>16, <1>17, <1>18, <1>19, <1>20, <1>21, <1>22, <1>23,
       <1>24, <1>25, <1>26, <1>27
       DEF SectionStep

-----------------------------------------------------------------------------
(* The steps outside a section: requests that arrive, the runner of the    *)
(* recovery, and what happens to the account and the processes.            *)
OutsideStep ==
    \/ \E p \in Ops, k \in Kinds \ {"recover"}, t \in Secrets \cup {NoProc} : Begin(p, k, t)
    \/ \E p \in Procs : Enter(p) \/ Crash(p)
    \/ \E r \in Runners : RunnerStep(r)
    \/ ReleaseStale \/ Reset \/ Disable \/ Enable
    \/ UNCHANGED vars

LEMMA NextIs ==
  ASSUME [Next]_vars
  PROVE  OutsideStep \/ \E p \in Procs : SectionStep(p) /\ ~ Enter(p)
  BY DEF Next, OutsideStep, Requests, Finished

(* Such a step touches neither the array nor the rows, moves one process,  *)
(* and gives the lease to nobody but one who enters.                       *)
Outside(p) ==
    /\ UNCHANGED <<shown, entries, row, noted, delivered, emptied>>
    /\ \A q \in Procs \ {p} : pc'[q] = pc[q] /\ op'[q] = op[q]
    /\ \/ op'[p].target \in {op[p].target, NoProc} \cup LiveRows
       \/ p \in Runners /\ op'[p].target \in todo[p]
    /\ p \in Ops /\ ~ Fresh(p) => op'[p].target \in {op[p].target, NoProc}
    /\ \A r \in Runners : todo'[r] \subseteq todo[r] \cup LiveRows
    /\ p \in Ops => pc'[p] # "append" /\ (Fresh(p)' => Fresh(p) /\ pc[p] # "mirror")
    /\ \A q \in Procs : lease' = q =>
         /\ pc'[q] = "check" \/ (lease = q /\ pc'[q] = pc[q])
         /\ op'[q] = op[q]
    /\ \/ UNCHANGED <<torn, enabled>>
       \/ torn' = FALSE
       \/ enabled /\ UNCHANGED torn

LEMMA OutsideIs ==
  ASSUME WellFormed, OutsideStep
  PROVE  \E p : Outside(p)
  <1>1. /\ Types /\ pc \in [Procs -> Labels] /\ op \in [Procs -> OpRecords]
        /\ todo \in [Runners -> SUBSET Secrets]
        /\ \A q \in Procs : lease = q => pc[q] \in Inside
    BY DEF WellFormed, Places, Types
  <1>2. Ops \cap Runners = {} /\ NoProc \notin Procs /\ NoOp.target = NoProc
    BY CredentialsAssumption DEF Procs, NoOp
  <1>3. ASSUME NEW p \in Ops, NEW k \in Kinds \ {"recover"}, NEW t \in Secrets \cup {NoProc},
               Begin(p, k, t)
        PROVE  Outside(p)
    <2>1. /\ pc[p] = "idle" /\ pc' = [pc EXCEPT ![p] = "key"] /\ lease' = lease
          /\ UNCHANGED <<shown, entries, row, history, todo, enabled, torn>>
      BY <1>3 DEF Begin, Goto, outside, recovery, account
    <2>2. /\ op' = [op EXCEPT ![p] = [NoOp EXCEPT !.kind = k, !.target = t]]
          /\ t \in LiveRows \/ t = NoProc
      BY <1>3 DEF Begin
    <2>3. op'[p].target = t /\ p \in Procs
      BY <1>1, <2>2 DEF NoOp, Procs
    <2>4. lease # p
      BY <1>1, <2>1, <2>3 DEF Inside, Entering, Minting, Retirement
    <2> QED
      BY <1>1, <1>2, <2>1, <2>2, <2>3, <2>4 DEF Outside, history, Fresh, Procs
  <1>4. ASSUME NEW p \in Procs, Enter(p) PROVE Outside(p)
    <2>1. /\ pc[p] = "key" /\ pc' = [pc EXCEPT ![p] = pc'[p]]
          /\ UNCHANGED <<shown, entries, row, history, todo, enabled, torn, op>>
          /\ \/ lease' = p /\ pc'[p] = "check"
             \/ /\ lease' = lease \/ lease' = NoProc
                /\ lease' # p /\ pc'[p] \in {"done", "list", "rfail"}
      <3>1. CASE lease' = p /\ Goto(p, "check")
        BY <1>1, <1>4, <3>1 DEF Enter, Goto, outside, recovery, account
      <3>2. CASE Leave(p, FALSE)
        BY <1>1, <1>2, <1>4, <3>2, LeaveIs DEF Enter, outside, recovery, account
      <3> QED
        BY <1>4, <3>1, <3>2 DEF Enter, ReadFails
    <2>2. Fresh(p)
      BY <2>1 DEF Fresh
    <2> QED
      BY <1>1, <1>2, <2>1, <2>2 DEF Outside, history, Procs
  <1>5. ASSUME NEW p \in Procs, Crash(p) PROVE Outside(p)
    <2>1. /\ pc' = [pc EXCEPT ![p] = IF p \in Ops THEN "done" ELSE "idle"]
          /\ op' = [op EXCEPT ![p] = NoOp]
          /\ lease' = IF lease = p THEN NoProc ELSE lease
          /\ todo' = [r \in Runners |-> IF r = p THEN {} ELSE todo[r]]
          /\ UNCHANGED <<shown, entries, row, noted, delivered, emptied, enabled, torn>>
      BY <1>5 DEF Crash, account
    <2> QED
      BY <1>1, <1>2, <2>1 DEF Outside, Fresh
  <1>6. ASSUME NEW r \in Runners, RunnerStep(r) PROVE Outside(r)
    <2>1. r \in Procs /\ r \notin Ops
      BY <1>2 DEF Procs
    <2>2. lease = r => pc[r] \notin Running \cup {"idle"}
      BY <1>1, <2>1 DEF Inside, Entering, Minting, Retirement, Running
    <2> USE <1>1, <1>2, <2>1, <2>2 DEF Outside, history, outside, account, recovery, Goto, Running
    <2>3. CASE Claim(r)
      <3>1. op'[r].target = NoProc
        BY <2>3 DEF Claim, NoOp
      <3> QED
        BY <2>3, <3>1 DEF Claim
    <2>4. CASE List(r)
      <3>1. op'[r].target = op[r].target
        BY <2>4 DEF List, OpRecords
      <3>2. \A s \in Runners : todo'[s] \subseteq todo[s] \cup LiveRows
        BY <2>4 DEF List, Listed, ListedStatus, LiveRows, Live
      <3>3. \A q \in Procs \ {r} : pc'[q] = pc[q] /\ op'[q] = op[q]
        BY <2>4 DEF List
      <3> QED
        BY <2>4, <3>1, <3>2, <3>3 DEF List
    <2>5. CASE RevokeNext(r)
      <3>1. op'[r].target \in todo[r]
        BY <2>5 DEF RevokeNext, NoOp
      <3> QED
        BY <2>5, <3>1 DEF RevokeNext
    <2>6. CASE Barrier(r)
      <3>1. op'[r].target = op[r].target
        BY <2>6 DEF Barrier, OpRecords
      <3> QED
        BY <2>6, <3>1 DEF Barrier
    <2>7. CASE Finish(r)
      BY <2>7 DEF Finish
    <2>8. CASE Fail(r)
      BY <2>8 DEF Fail
    <2> QED
      BY <1>6, <2>3, <2>4, <2>5, <2>6, <2>7, <2>8 DEF RunnerStep
  <1>7. ASSUME ReleaseStale \/ Reset \/ Disable \/ Enable \/ UNCHANGED vars
        PROVE  Outside(NoProc)
    <2>1. UNCHANGED <<shown, entries, row, noted, delivered, emptied, pc, op, lease, todo>>
      BY <1>7 DEF ReleaseStale, Reset, Disable, Enable, vars, history, recovery
    <2>2. UNCHANGED <<torn, enabled>> \/ torn' = FALSE \/ (enabled /\ UNCHANGED torn)
      BY <1>1, <1>7 DEF ReleaseStale, Reset, Disable, Enable, vars, account, Types
    <2> QED
      BY <1>1, <1>2, <2>1, <2>2 DEF Outside, Procs
  <1> QED
    BY <1>3, <1>4, <1>5, <1>6, <1>7 DEF OutsideStep

-----------------------------------------------------------------------------
(* The types. *)
LEMMA SectionTypes ==
  ASSUME WellFormed, Numbered, Array, NEW p \in Procs, SectionStep(p), ~ Enter(p)
  PROVE  WellFormed'
  <1>1. Types /\ Places /\ p # NoProc
    BY CredentialsAssumption DEF WellFormed, Procs
  <1>2. /\ Moves(p) /\ lease = p /\ (Leaves(p) \/ Stays(p)) /\ OpKeeps(p)
    BY <1>1, SectionMoves DEF Moves
  <1>3. entries' \in Seq(Secrets)
    <2>1. entries \in Seq(Secrets)
      BY <1>1 DEF Types
    <2>2. pc[p] = "append" => p \in Secrets
      BY <1>1 DEF Places, Fits, Mints, Minting, Procs, Secrets
    <2>3. ASSUME NEW i \in DOMAIN entries, entries' = Without(i) PROVE entries' \in Seq(Secrets)
      BY <2>1, <2>3, WithoutIs
    <2>4. ASSUME pc[p] = "append", entries' = Append(entries, p) PROVE entries' \in Seq(Secrets)
      BY <2>1, <2>2, <2>4, AppendProperties
    <2>5. <<>> \in Seq(Secrets)
      BY EmptySeq
    <2> QED
      BY <2>1, <2>3, <2>4, <2>5, SectionEntries
  <1>4. row' \in [Secrets -> Rows] /\ withdrawn' \subseteq Secrets
    BY SectionRow
  <1>5. /\ noted' \subseteq Secrets /\ delivered' \subseteq Secrets /\ blind' \subseteq Secrets
        /\ emptied' \in BOOLEAN /\ torn' \in BOOLEAN
    BY SectionHistory
  <1>6. pc' \in [Procs -> Labels] /\ op' \in [Procs -> OpRecords]
    BY <1>1, <1>2 DEF Moves, OpKeeps, Types
  <1>7. lease' \in Procs \cup {NoProc}
    BY <1>2 DEF Leaves, Stays
  <1>8. Types'
    <2>1. UNCHANGED <<shown, enabled, flips, job, opened, resets, todo>> /\ faults' \in 0..MaxFaults
      BY <1>2 DEF Moves
    <2> QED
      BY <1>1, <1>3, <1>4, <1>5, <1>6, <1>7, <2>1 DEF Types
  <1>9. ASSUME NEW q \in Procs PROVE Fits(q)'
    <2>1. CASE q = p
      BY <2>1, SectionFlow DEF Flows
    <2>2. CASE q # p
      <3>1. pc'[q] = pc[q] /\ op'[q] = op[q] /\ shown' = shown
        BY <1>1, <1>2, <2>2 DEF Moves, OpKeeps, Types
      <3> QED
        BY <1>1, <3>1 DEF Places, Fits, Mints, DeleteFirst
    <2> QED
      BY <2>1, <2>2
  <1>10. ASSUME NEW q \in Procs, lease' = q PROVE pc'[q] \in Inside
    <2>1. q # NoProc
      BY CredentialsAssumption DEF Procs
    <2> QED
      BY <1>2, <1>10, <2>1 DEF Leaves, Stays
  <1> QED
    BY <1>8, <1>9, <1>10 DEF WellFormed, Places

(* A process that moves outside the section, and the rest of the types. *)
LEMMA OneMoves ==
  ASSUME WellFormed, NEW p \in Procs, NEW l \in Labels, NEW o \in OpRecords,
         pc' = [pc EXCEPT ![p] = l], op' = [op EXCEPT ![p] = o], UNCHANGED shown,
         lease' \in {lease, NoProc} \/ lease' = p, lease' = p => l \in Inside,
         l \in {"idle", "key", "check", "done"} \cup Running,
         p \in Runners => l # "done" /\ (l # "idle" => o.kind = "recover"),
         p \in Ops => l \notin Running /\ o.kind # "recover"
  PROVE  /\ pc' \in [Procs -> Labels] /\ op' \in [Procs -> OpRecords]
         /\ lease' \in Procs \cup {NoProc} /\ Places'
  <1>1. pc \in [Procs -> Labels] /\ op \in [Procs -> OpRecords] /\ lease \in Procs \cup {NoProc}
        /\ Places /\ NoProc \notin Procs
    BY CredentialsAssumption DEF WellFormed, Types, Procs
  <1>2. pc' \in [Procs -> Labels] /\ op' \in [Procs -> OpRecords] /\ lease' \in Procs \cup {NoProc}
    BY <1>1
  <1>3. pc'[p] = l /\ op'[p] = o
    BY <1>1
  <1>4. Fits(p)'
    BY <1>3 DEF Fits, Minting, Running
  <1>5. ASSUME NEW q \in Procs, q # p
        PROVE  Fits(q)' /\ (lease' = q => pc'[q] \in Inside)
    <2>1. pc'[q] = pc[q] /\ op'[q] = op[q]
      BY <1>1, <1>5
    <2> QED
      BY <1>1, <1>5, <2>1 DEF Places, Fits, Mints, DeleteFirst
  <1> QED
    BY <1>2, <1>3, <1>4, <1>5 DEF Places

(* What is neither the processes nor the lease. *)
Rest ==
    /\ shown \in BOOLEAN /\ enabled \in BOOLEAN /\ torn \in BOOLEAN /\ emptied \in BOOLEAN
    /\ entries \in Seq(Secrets)
    /\ row \in [Secrets -> Rows]
    /\ noted \subseteq Secrets /\ delivered \subseteq Secrets
    /\ blind \subseteq Secrets /\ withdrawn \subseteq Secrets
    /\ job \in Jobs
    /\ opened \in Nat /\ resets \in Nat /\ flips \in Nat
    /\ opened <= resets /\ resets + flips <= MaxEvents
    /\ todo \in [Runners -> SUBSET Secrets]
    /\ faults \in 0..MaxFaults

LEMMA RestIs ==
  Types <=> Rest /\ pc \in [Procs -> Labels] /\ op \in [Procs -> OpRecords]
                 /\ lease \in Procs \cup {NoProc}
  BY DEF Types, Rest

LEMMA OutsideTypes ==
  ASSUME WellFormed, OutsideStep
  PROVE  WellFormed'
  <1>1. /\ Types /\ Rest /\ Places /\ pc \in [Procs -> Labels] /\ op \in [Procs -> OpRecords]
        /\ lease \in Procs \cup {NoProc}
    BY RestIs DEF WellFormed
  <1>2. Ops \cap Runners = {} /\ NoProc \notin Procs /\ Ops \subseteq Procs /\ Runners \subseteq Procs
    BY CredentialsAssumption DEF Procs
  <1>3. \A q \in Procs : lease = q => pc[q] \in Inside
    BY <1>1 DEF Places
  <1>4. NoOp \in OpRecords /\ NoOp.kind = "none"
    <2>1. "issue" \in Kinds /\ NoProc \in Secrets \cup {NoProc} /\ 0 \in Nat
      BY DEF Kinds
    <2> QED
      BY <2>1, NewOps DEF NoOp
  <1>5. ASSUME Rest', pc' \in [Procs -> Labels], op' \in [Procs -> OpRecords],
               lease' \in Procs \cup {NoProc}, Places'
        PROVE  WellFormed'
    BY <1>5 DEF WellFormed, Rest, Types
  <1>6. ASSUME NEW p \in Ops, NEW k \in Kinds \ {"recover"}, NEW t \in Secrets \cup {NoProc},
               Begin(p, k, t)
        PROVE  WellFormed'
    <2> DEFINE o == [NoOp EXCEPT !.kind = k, !.target = t]
    <2>1. /\ pc[p] = "idle" /\ pc' = [pc EXCEPT ![p] = "key"] /\ op' = [op EXCEPT ![p] = o]
          /\ lease' = lease /\ faults' = faults /\ UNCHANGED <<entries, row, history, outside>>
      BY <1>6 DEF Begin, Goto, NoFault
    <2>2. o \in OpRecords
      <3>1. k \in Kinds /\ 0 \in Nat
        OBVIOUS
      <3> QED
        BY <3>1, NewOps
    <2>3. o.kind = k /\ lease # p
      BY <1>2, <1>3, <2>1 DEF NoOp, Inside, Entering, Minting, Retirement
    <2> HIDE DEF o
    <2>4. Rest'
      BY <1>1, <2>1 DEF Rest, history, outside, account, recovery
    <2>5. /\ pc' \in [Procs -> Labels] /\ op' \in [Procs -> OpRecords]
          /\ lease' \in Procs \cup {NoProc} /\ Places'
      <3>1. p \in Procs /\ p \notin Runners /\ "key" \in Labels /\ shown' = shown /\ o.kind # "recover"
        BY <1>2, <2>1, <2>3 DEF Labels, outside
      <3>2. "key" \notin Running /\ lease' \in {lease, NoProc} /\ lease' # p
        BY <1>2, <2>1, <2>3 DEF Running
      <3> QED
        BY <2>1, <2>2, <3>1, <3>2, OneMoves
    <2> QED
      BY <1>5, <2>4, <2>5
  <1>7. ASSUME NEW p \in Procs, Enter(p) PROVE WellFormed'
    <2>1. pc[p] = "key" /\ UNCHANGED <<entries, row, history, op, outside>> /\ lease # p
      BY <1>3, <1>7 DEF Enter, Inside, Entering, Minting, Retirement
    <2>2. Rest'
      <3>1. faults' \in 0..MaxFaults
        BY <1>1, <1>7, FaultIs DEF Enter, ReadFails, NoFault, Types
      <3> QED
        BY <1>1, <2>1, <3>1 DEF Rest, history, outside, account, recovery
    <2>3. PICK l \in Labels : /\ pc' = [pc EXCEPT ![p] = l]
                              /\ l \in {"check", "done", "rfail"}
                              /\ lease' = p => l = "check"
                              /\ lease' \in {lease, NoProc, p}
                              /\ p \in Ops => l # "rfail"
                              /\ p \in Runners => l # "done"
      <3>1. {"check", "done", "rfail"} \subseteq Labels
        BY DEF Labels, Inside, Entering, Running
      <3>2. CASE lease' = p /\ Goto(p, "check")
        BY <3>1, <3>2 DEF Goto
      <3>3. CASE Leave(p, FALSE)
        <4>1. lease' = lease /\ lease' # p /\ pc' = [pc EXCEPT ![p] = IF p \in Ops THEN "done" ELSE "rfail"]
          BY <2>1, <3>3 DEF Leave, Goto
        <4>2. CASE p \in Ops
          BY <1>2, <3>1, <4>1, <4>2
        <4>3. CASE p \notin Ops
          BY <1>2, <3>1, <4>1, <4>3
        <4> QED
          BY <4>2, <4>3
      <3> QED
        BY <1>7, <3>2, <3>3 DEF Enter, ReadFails
    <2>4. op' = [op EXCEPT ![p] = op[p]] /\ op[p] \in OpRecords /\ shown' = shown
      BY <1>1, <2>1 DEF outside
    <2>5. /\ pc' \in [Procs -> Labels] /\ op' \in [Procs -> OpRecords]
          /\ lease' \in Procs \cup {NoProc} /\ Places'
      <3>1. Fits(p)
        BY <1>1 DEF Places
      <3>2. /\ p \in Runners => l # "done" /\ op[p].kind = "recover"
            /\ p \in Ops => l \notin Running /\ op[p].kind # "recover"
            /\ l \in {"idle", "key", "check", "done"} \cup Running
            /\ lease' = p => l \in Inside
        BY <2>1, <2>3, <3>1 DEF Fits, Running, Inside, Entering
      <3> QED
        BY <2>3, <2>4, <3>2, OneMoves
    <2> QED
      BY <1>5, <2>2, <2>5
  <1>8. ASSUME NEW p \in Procs, Crash(p) PROVE WellFormed'
    <2> DEFINE l == IF p \in Ops THEN "done" ELSE "idle"
    <2>1. /\ pc' = [pc EXCEPT ![p] = l] /\ op' = [op EXCEPT ![p] = NoOp]
          /\ lease' = IF lease = p THEN NoProc ELSE lease
          /\ todo' = [r \in Runners |-> IF r = p THEN {} ELSE todo[r]]
          /\ blind' = IF p \in Ops THEN blind \cup {p} ELSE blind
          /\ UNCHANGED <<entries, row, noted, delivered, emptied, withdrawn, shown, account, job,
                         opened, resets>>
          /\ Fault("crash")
      BY <1>8 DEF Crash
    <2>2. Rest'
      <3>1. faults' \in 0..MaxFaults
        BY <1>1, <2>1, FaultIs
      <3>2. todo' \in [Runners -> SUBSET Secrets] /\ blind' \subseteq Secrets
        BY <1>1, <2>1 DEF Rest, Secrets
      <3> QED
        BY <1>1, <2>1, <3>1, <3>2 DEF Rest, account
    <2>3. /\ pc' \in [Procs -> Labels] /\ op' \in [Procs -> OpRecords]
          /\ lease' \in Procs \cup {NoProc} /\ Places'
      <3>1. l \in Labels /\ l \in {"idle", "done"} /\ (p \in Runners => l = "idle") /\ l \notin Running
        BY <1>2 DEF Labels, Running
      <3>2. lease' \in {lease, NoProc} /\ lease' # p
        BY <1>2, <2>1
      <3> QED
        BY <1>4, <2>1, <3>1, <3>2, OneMoves
    <2> QED
      BY <1>5, <2>2, <2>3
  <1>9. ASSUME NEW r \in Runners, RunnerStep(r) PROVE WellFormed'
    <2>1. r \in Procs /\ r \notin Ops /\ op[r] \in OpRecords /\ Fits(r)
      BY <1>1, <1>2 DEF Places
    <2>2. pc[r] \in Running \cup {"idle"} => lease # r
      BY <1>3, <2>1 DEF Inside, Entering, Minting, Retirement, Running
    <2>3. pc[r] # "idle" => op[r].kind = "recover"
      BY <2>1 DEF Fits
    <2>4. ASSUME NEW l \in {"idle", "key"} \cup Running, NEW o \in OpRecords,
                 l # "idle" => o.kind = "recover",
                 pc[r] \in Running \cup {"idle"}, UNCHANGED <<shown, lease>>,
                 pc' = [pc EXCEPT ![r] = l], op' = [op EXCEPT ![r] = o]
          PROVE  /\ pc' \in [Procs -> Labels] /\ op' \in [Procs -> OpRecords]
                 /\ lease' \in Procs \cup {NoProc} /\ Places'
      <3>1. l \in Labels /\ l # "done"
        BY DEF Labels, Running
      <3>2. lease' \in {lease, NoProc} /\ lease' # r
        BY <2>2, <2>4
      <3> QED
        BY <2>1, <2>4, <3>1, <3>2, OneMoves
    <2>5. ASSUME job' \in Jobs, opened' \in Nat, opened' <= resets, faults' \in 0..MaxFaults,
                 todo' \in [Runners -> SUBSET Secrets],
                 UNCHANGED <<entries, row, history, shown, account, resets>>
          PROVE  Rest'
      BY <1>1, <2>5 DEF Rest, history, account
    <2>6. /\ faults \in 0..MaxFaults /\ job \in Jobs /\ opened \in Nat /\ opened <= resets
          /\ resets \in Nat /\ todo \in [Runners -> SUBSET Secrets]
      BY <1>1 DEF Rest
    <2>7. "recover" \in Kinds /\ NoProc \in Secrets \cup {NoProc}
      BY DEF Kinds
    <2>8. CASE Claim(r)
      <3> DEFINE n == IF opened = resets THEN resets ELSE 0
                 o == [NoOp EXCEPT !.kind = "recover", !.cutoff = n]
      <3>1. pc[r] = "idle" /\ pc' = [pc EXCEPT ![r] = "list"] /\ op' = [op EXCEPT ![r] = o]
            /\ UNCHANGED <<entries, row, history, shown, account, opened, resets, todo, lease, faults>>
        BY <2>8 DEF Claim, Goto, NoFault
      <3>2. o \in OpRecords /\ o.kind = "recover"
        <4>1. n \in Nat
          BY <2>6
        <4> QED
          BY <2>7, <4>1, NewOps DEF NoOp
      <3>3. job' \in Jobs
        <4> DEFINE m == IF job.att < BlockingAttempts THEN job.att + 1 ELSE job.att
        <4>1. m \in 0..BlockingAttempts
          BY <2>6, CredentialsAssumption DEF Jobs
        <4>2. job' = [job EXCEPT !.st = "sending", !.by = r, !.att = m]
          BY <2>8 DEF Claim
        <4>3. "sending" \in {"none", "pending", "sending"} /\ r \in Runners \cup {NoProc}
          OBVIOUS
        <4> HIDE DEF m
        <4> QED
          BY <2>6, <4>1, <4>2, <4>3, Zenon DEF Jobs
      <3> HIDE DEF o
      <3>4. "list" \in {"idle", "key"} \cup Running /\ pc[r] \in Running \cup {"idle"}
        BY <3>1 DEF Running
      <3>5. Rest'
        BY <2>5, <2>6, <3>1, <3>3
      <3> QED
        BY <1>5, <2>4, <3>1, <3>2, <3>4, <3>5
    <2>9. CASE List(r)
      <3>1. pc[r] = "list" /\ UNCHANGED <<entries, row, history, shown, account, job, opened, resets, lease>>
        BY <2>9 DEF List
      <3>2. faults' \in 0..MaxFaults
        BY <1>1, <2>6, <2>9, FaultIs DEF List, NoFault
      <3>3. todo' \in [Runners -> SUBSET Secrets]
        BY <2>6, <2>9 DEF List, Listed
      <3>4. op[r].phase \in Nat
        BY <2>1 DEF OpRecords
      <3>5. PICK l \in {"idle", "key"} \cup Running, o \in OpRecords :
               /\ o.kind = "recover"
               /\ pc' = [pc EXCEPT ![r] = l] /\ op' = [op EXCEPT ![r] = o]
        <4> DEFINE n == op[r].phase + 1
                   o == [op[r] EXCEPT !.phase = n]
        <4>1. o \in OpRecords
          <5>1. n \in Nat /\ TRUE \in BOOLEAN /\ "none" \in Whys
            BY <3>4 DEF Whys
          <5> QED
            BY <2>1, <5>1, OpUpdates
        <4>2. o.kind = "recover"
          BY <2>1, <2>3, <3>1 DEF OpRecords
        <4>3. \/ op' = op \/ op' = [op EXCEPT ![r] = o]
          BY <2>9 DEF List
        <4>4. \E m \in {"list", "barrier", "rdone", "rfail"} : pc' = [pc EXCEPT ![r] = m]
          <5>1. pc = [pc EXCEPT ![r] = "list"]
            BY <1>1, <2>1, <3>1
          <5> QED
            BY <2>9, <5>1 DEF List, Goto
        <4>5. op = [op EXCEPT ![r] = op[r]] /\ op[r].kind = "recover"
          BY <1>1, <2>1, <2>3, <3>1
        <4> HIDE DEF o
        <4> QED
          BY <2>1, <4>1, <4>2, <4>3, <4>4, <4>5 DEF Running
      <3>6. pc[r] \in Running \cup {"idle"}
        BY <3>1 DEF Running
      <3>7. Rest'
        BY <2>5, <2>6, <3>1, <3>2, <3>3
      <3> QED
        BY <1>5, <2>4, <3>1, <3>5, <3>6, <3>7
    <2>10. CASE RevokeNext(r)
      <3>1. PICK c \in todo[r] : /\ todo' = [todo EXCEPT ![r] = @ \ {c}]
              /\ op' = [op EXCEPT ![r] = [NoOp EXCEPT !.kind = "recover", !.target = c,
                                          !.phase = op[r].phase, !.cutoff = op[r].cutoff]]
        BY <2>10 DEF RevokeNext
      <3> DEFINE o == [NoOp EXCEPT !.kind = "recover", !.target = c,
                                   !.phase = op[r].phase, !.cutoff = op[r].cutoff]
      <3>2. o \in OpRecords /\ o.kind = "recover"
        <4>1. op[r].phase \in Nat /\ op[r].cutoff \in Nat /\ c \in Secrets \cup {NoProc}
          BY <2>1, <2>6 DEF OpRecords
        <4> QED
          BY <2>7, <4>1, NewOps DEF NoOp
      <3>3. pc[r] = "list" /\ pc' = [pc EXCEPT ![r] = "key"] /\ op' = [op EXCEPT ![r] = o]
            /\ UNCHANGED <<entries, row, history, shown, account, job, opened, resets, lease, faults>>
        BY <2>10, <3>1 DEF RevokeNext, Goto, NoFault
      <3> HIDE DEF o
      <3>4. "key" \in {"idle", "key"} \cup Running /\ pc[r] \in Running \cup {"idle"}
        BY <3>3 DEF Running
      <3>5. todo' \in [Runners -> SUBSET Secrets]
        BY <2>6, <3>1
      <3>6. Rest'
        BY <2>5, <2>6, <3>3, <3>5
      <3> QED
        BY <1>5, <2>4, <3>2, <3>3, <3>4, <3>6
    <2>11. CASE Barrier(r)
      <3>1. pc[r] = "barrier" /\ UNCHANGED <<entries, row, history, shown, account, job, opened, resets, todo, lease>>
        BY <2>11 DEF Barrier, outside, recovery
      <3>2. faults' \in 0..MaxFaults
        BY <1>1, <2>6, <2>11, FaultIs DEF Barrier, NoFault
      <3> DEFINE o == [op[r] EXCEPT !.phase = 4]
      <3>3. o \in OpRecords /\ o.kind = "recover"
        <4>1. 4 \in Nat /\ TRUE \in BOOLEAN /\ "none" \in Whys
          BY DEF Whys
        <4>2. o.kind = "recover"
          BY <2>1, <2>3, <3>1 DEF OpRecords
        <4> QED
          BY <2>1, <4>1, <4>2, OpUpdates
      <3>4. op' = [op EXCEPT ![r] = o] \/ op' = op
        BY <2>11 DEF Barrier
      <3>5. op = [op EXCEPT ![r] = op[r]] /\ op[r].kind = "recover"
        BY <1>1, <2>1, <2>3, <3>1
      <3>6. \E l \in {"list", "rfail"} : pc' = [pc EXCEPT ![r] = l]
        BY <2>11 DEF Barrier, Goto
      <3> HIDE DEF o
      <3>7. PICK l \in {"idle", "key"} \cup Running, q \in OpRecords :
               q.kind = "recover" /\ pc' = [pc EXCEPT ![r] = l] /\ op' = [op EXCEPT ![r] = q]
        BY <2>1, <3>3, <3>4, <3>5, <3>6 DEF Running
      <3>8. Rest'
        BY <2>5, <2>6, <3>1, <3>2
      <3>9. pc[r] \in Running \cup {"idle"}
        BY <3>1 DEF Running
      <3> QED
        BY <1>5, <2>4, <3>1, <3>7, <3>8, <3>9
    <2>12. CASE Finish(r)
      <3>1. pc[r] = "rdone" /\ UNCHANGED <<entries, row, history, shown, account, opened, resets, todo, lease, op>>
        BY <2>12 DEF Finish
      <3>2. faults' \in 0..MaxFaults
        BY <1>1, <2>6, <2>12, FaultIs DEF Finish, NoFault
      <3>3. job' \in Jobs
        <4>1. NoJob \in Jobs
          BY CredentialsAssumption DEF NoJob, Jobs
        <4> QED
          BY <2>6, <2>12, <4>1 DEF Finish
      <3>4. PICK l \in {"idle", "rfail"} : pc' = [pc EXCEPT ![r] = l]
        BY <2>12 DEF Finish, Goto
      <3>5. op' = [op EXCEPT ![r] = op[r]] /\ op[r].kind = "recover"
        BY <1>1, <2>1, <2>3, <3>1
      <3>6. Rest'
        BY <2>5, <2>6, <3>1, <3>2, <3>3
      <3>7. pc[r] \in Running \cup {"idle"} /\ l \in {"idle", "key"} \cup Running
        BY <3>1 DEF Running
      <3> QED
        BY <1>5, <2>1, <2>4, <3>1, <3>4, <3>5, <3>6, <3>7
    <2>13. CASE Fail(r)
      <3>1. /\ pc[r] = "rfail" /\ UNCHANGED <<entries, row, history, shown, account, resets, lease>>
            /\ pc' = [pc EXCEPT ![r] = "idle"] /\ op' = [op EXCEPT ![r] = NoOp]
            /\ todo' = [todo EXCEPT ![r] = {}]
        BY <2>13 DEF Fail, Goto
      <3>2. faults' \in 0..MaxFaults
        BY <1>1, <2>6, <2>13, FaultIs DEF Fail, NoFault
      <3>3. job' \in Jobs
        <4>1. job' = job \/ job' = [job EXCEPT !.st = "pending"]
          BY <2>13 DEF Fail
        <4>2. "pending" \in {"none", "pending", "sending"}
          OBVIOUS
        <4> QED
          BY <2>6, <4>1, <4>2, Zenon DEF Jobs
      <3>4. opened' \in {opened, resets}
        BY <2>13 DEF Fail
      <3>5. opened' \in Nat /\ opened' <= resets /\ todo' \in [Runners -> SUBSET Secrets]
        BY <2>6, <3>1, <3>4
      <3>6. Rest'
        BY <2>5, <3>1, <3>2, <3>3, <3>5
      <3>7. pc[r] \in Running \cup {"idle"} /\ "idle" \in {"idle", "key"} \cup Running
        BY <3>1 DEF Running
      <3> QED
        BY <1>4, <1>5, <2>4, <3>1, <3>6, <3>7
    <2> QED
      BY <1>9, <2>8, <2>9, <2>10, <2>11, <2>12, <2>13 DEF RunnerStep
  <1>10. ASSUME UNCHANGED <<shown, pc, op, lease>>, Rest' PROVE WellFormed'
    <2>1. Places'
      BY <1>1, <1>10 DEF Places, Fits, Mints, DeleteFirst
    <2> QED
      BY <1>1, <1>5, <1>10, <2>1
  <1>11. ASSUME ReleaseStale PROVE WellFormed'
    <2>1. job' = [job EXCEPT !.st = "pending", !.by = NoProc]
          /\ UNCHANGED <<entries, row, history, shown, account, opened, resets, todo, lease, pc, op>>
      BY <1>11 DEF ReleaseStale
    <2>2. faults' \in 0..MaxFaults
      BY <1>1, <1>11, FaultIs DEF ReleaseStale, NoFault, Rest
    <2>3. job' \in Jobs
      <3>1. "pending" \in {"none", "pending", "sending"} /\ NoProc \in Runners \cup {NoProc} /\ job \in Jobs
        BY <1>1 DEF Rest
      <3> QED
        BY <2>1, <3>1, Zenon DEF Jobs
    <2>4. Rest'
      BY <1>1, <2>1, <2>2, <2>3 DEF Rest, history, account
    <2> QED
      BY <1>10, <2>1, <2>4
  <1>12. ASSUME Reset PROVE WellFormed'
    <2>1. job' \in Jobs
      BY <1>12, CredentialsAssumption DEF Reset, Jobs
    <2>2. Rest'
      BY <1>1, <1>12, <2>1, CredentialsAssumption DEF Reset, Rest, account, NoFault
    <2> QED
      BY <1>10, <1>12, <2>2 DEF Reset
  <1>13. ASSUME Disable \/ Enable \/ UNCHANGED vars PROVE WellFormed'
    <2>1. UNCHANGED <<shown, pc, op, lease, entries, row, history, recovery, faults>>
      BY <1>13 DEF Disable, Enable, vars, history, recovery, NoFault
    <2>2. enabled' \in BOOLEAN /\ torn' \in BOOLEAN
      BY <1>1, <1>13 DEF Disable, Enable, vars, Rest
    <2>3. flips' \in Nat /\ resets + flips' <= MaxEvents
      BY <1>1, <1>13, CredentialsAssumption DEF Disable, Enable, vars, Rest
    <2>4. Rest'
      BY <1>1, <2>1, <2>2, <2>3 DEF Rest, history, recovery
    <2> QED
      BY <1>10, <2>1, <2>4
  <1> QED
    BY <1>6, <1>7, <1>8, <1>9, <1>11, <1>12, <1>13 DEF OutsideStep

-----------------------------------------------------------------------------
(* Secrets still to be minted. *)
LEMMA MintersShrink ==
  ASSUME WellFormed, [Next]_vars
  PROVE  /\ \A p \in Ops : Fresh(p)' => Fresh(p)
         /\ CanMint' \subseteq CanMint
  <1>1. Types /\ pc \in [Procs -> Labels] /\ op \in [Procs -> OpRecords] /\ Ops \subseteq Procs
    BY DEF WellFormed, Types, Procs
  <1>2. ASSUME NEW q \in Ops, pc'[q] = pc[q], op'[q] = op[q], shown' = shown
        PROVE  Fresh(q)' => Fresh(q)
    BY <1>2 DEF Fresh, DeleteFirst
  <1>3. ASSUME NEW p \in Procs, SectionStep(p), ~ Enter(p), NEW q \in Ops
        PROVE  Fresh(q)' => Fresh(q)
    <2>1. CASE q = p
      BY <1>3, <2>1, SectionFlow DEF Flows
    <2>2. CASE q # p
      <3>1. pc'[q] = pc[q] /\ op'[q] = op[q] /\ shown' = shown
        BY <1>1, <1>3, <2>2, SectionMoves DEF Moves, OpKeeps
      <3> QED
        BY <1>2, <3>1
    <2> QED
      BY <2>1, <2>2
  <1>4. ASSUME OutsideStep, NEW q \in Ops PROVE Fresh(q)' => Fresh(q)
    <2>1. PICK p : Outside(p)
      BY <1>4, OutsideIs
    <2>2. CASE q = p
      BY <2>1, <2>2 DEF Outside
    <2>3. CASE q # p
      BY <1>1, <1>2, <2>1, <2>3 DEF Outside
    <2> QED
      BY <2>2, <2>3
  <1>5. \A q \in Ops : Fresh(q)' => Fresh(q)
    BY <1>3, <1>4, NextIs
  <1> QED
    BY <1>5 DEF CanMint

LEMMA UnknownStep ==
  ASSUME WellFormed, Numbered, Unknown, [Next]_vars
  PROVE  Unknown'
  <1>1. CanMint' \subseteq CanMint /\ CanMint \subseteq Ops
    BY MintersShrink DEF CanMint
  <1>2. /\ Types /\ pc \in [Procs -> Labels] /\ op \in [Procs -> OpRecords] /\ Ops \subseteq Procs
        /\ Ops \subseteq Secrets /\ NoProc \notin Ops
    BY CredentialsAssumption DEF WellFormed, Types, Procs, Secrets
  <1>3. ASSUME NEW m \in CanMint'
        PROVE  /\ m \in CanMint /\ m \in Secrets /\ row[m].st = "none" /\ ~ Live(m) /\ m # NoProc
               /\ \A q \in Procs : op[q].target # m
               /\ \A r \in Runners : m \notin todo[r]
    BY <1>1, <1>2 DEF Unknown, Live
  <1>4. ASSUME NEW p \in Procs, SectionStep(p), ~ Enter(p), NEW m \in CanMint'
        PROVE  /\ row'[m].st = "none"
               /\ \A q \in Procs : op'[q].target # m
               /\ \A r \in Runners : m \notin todo'[r]
    <2>1. OpKeeps(p) /\ todo' = todo
      BY <1>2, <1>4, SectionMoves DEF Moves
    <2>2. RowStep(p, m)
      BY <1>3, <1>4, SectionRow
    <2>3. row'[m].st = "none"
      <3>1. ~ (Minted(p) /\ m = p)
        BY <1>4 DEF Minted, CanMint
      <3>2. op[p].target # m
        BY <1>3
      <3> QED
        BY <1>3, <2>2, <3>1, <3>2 DEF RowStep, NoRow
    <2>4. \A q \in Procs : op'[q].target = op[q].target
      BY <1>2, <2>1 DEF OpKeeps
    <2> QED
      BY <1>3, <2>1, <2>3, <2>4
  <1>5. ASSUME OutsideStep, NEW m \in CanMint'
        PROVE  /\ row'[m].st = "none"
               /\ \A q \in Procs : op'[q].target # m
               /\ \A r \in Runners : m \notin todo'[r]
    <2>1. PICK p : Outside(p)
      BY <1>5, OutsideIs
    <2>2. m \notin LiveRows
      BY <1>3 DEF LiveRows
    <2>3. p \in Procs => op'[p].target # m
      BY <1>3, <2>1, <2>2 DEF Outside
    <2> QED
      BY <1>3, <2>1, <2>2, <2>3 DEF Outside
  <1> QED
    BY <1>4, <1>5, NextIs DEF Unknown

LEMMA NumberedStep ==
  ASSUME WellFormed, Numbered, [Next]_vars
  PROVE  Numbered'
  <1>1. CanMint' \subseteq CanMint /\ CanMint \subseteq Secrets
    BY MintersShrink DEF CanMint, Secrets
  <1>2. /\ IsFiniteSet(CanMint) /\ Cardinality(CanMint) \in Nat /\ Cardinality(Secrets) \in Nat
        /\ Cardinality(CanMint') \in Nat /\ Cardinality(CanMint') <= Cardinality(CanMint)
        /\ Cardinality(CanMint) <= Cardinality(Secrets)
    BY <1>1, FiniteRows, FS_Subset
  <1>3. \A c \in Secrets : row[c].ord \in Nat
    BY DEF WellFormed, Types, Rows
  <1>4. ASSUME NEW p \in Procs, SectionStep(p), ~ Enter(p), NEW c \in Secrets
        PROVE  row'[c].ord + Cardinality(CanMint') <= Cardinality(Secrets)
    <2>1. RowStep(p, c) /\ row'[c].ord \in Nat
      BY <1>4, SectionRow DEF Rows
    <2>2. CASE row'[c].ord = row[c].ord
      BY <1>2, <1>3, <2>2 DEF Numbered
    <2>3. CASE row'[c] = NoRow
      BY <1>2, <2>3 DEF NoRow
    <2>4. CASE Minted(p) /\ c = p
      <3>1. p \in CanMint /\ p \notin CanMint'
        BY <2>4 DEF Minted, CanMint, Fresh
      <3>2. CanMint' \subseteq CanMint \ {p}
        BY <1>1, <3>1
      <3>3. IsFiniteSet(CanMint \ {p}) /\ Cardinality(CanMint \ {p}) = Cardinality(CanMint) - 1
        BY <1>2, <3>1, FS_RemoveElement
      <3>4. Cardinality(CanMint') <= Cardinality(CanMint) - 1
        BY <3>2, <3>3, FS_Subset
      <3>5. row'[c].ord + Cardinality(CanMint) <= Cardinality(Secrets) + 1
        BY <2>4 DEF Minted
      <3> QED
        BY <1>2, <2>1, <3>4, <3>5
    <2> QED
      BY <2>1, <2>2, <2>3, <2>4 DEF RowStep, Becomes
  <1>5. ASSUME OutsideStep, NEW c \in Secrets
        PROVE  row'[c].ord + Cardinality(CanMint') <= Cardinality(Secrets)
    <2>1. row' = row
      BY <1>5, OutsideIs DEF Outside
    <2> QED
      BY <1>2, <1>3, <2>1 DEF Numbered
  <1> QED
    BY <1>4, <1>5, NextIs DEF Numbered

(* The array holds a secret once, and none that is still to be appended. *)
LEMMA WorkingIs ==
  ASSUME WellFormed, Array, NEW p \in Procs, SectionStep(p), ~ Enter(p)
  PROVE  /\ Working' \subseteq Working \cup {p}
         /\ p \in Working' => p \in Working \/ pc[p] = "append"
  <1>1. entries \in Seq(Secrets) /\ Len(entries) \in Nat /\ DOMAIN entries = 1..Len(entries)
    BY LenProperties DEF WellFormed, Types
  <1>2. CASE entries' = entries
    BY <1>2 DEF Working
  <1>3. CASE entries' = <<>>
    BY <1>3 DEF Working
  <1>4. ASSUME NEW i \in DOMAIN entries, entries' = Without(i)
        PROVE  Working' \subseteq Working
    <2>1. /\ Without(i) \in Seq(Secrets) /\ Len(Without(i)) = Len(entries) - 1
          /\ \A j \in 1..(Len(entries) - 1) : Without(i)[j] = entries[IF j < i THEN j ELSE j + 1]
      BY <1>1, WithoutIs
    <2>2. DOMAIN entries' = 1..(Len(entries) - 1)
      BY <1>4, <2>1, LenProperties
    <2> QED
      BY <1>1, <1>4, <2>1, <2>2 DEF Working
  <1>5. ASSUME pc[p] = "append", entries' = Append(entries, p)
        PROVE  Working' \subseteq Working \cup {p}
    <2>1. p \in Secrets
      BY <1>5 DEF WellFormed, Places, Fits, Mints, Minting, Procs, Secrets
    <2>2. /\ entries' \in Seq(Secrets) /\ Len(entries') = Len(entries) + 1
          /\ \A i \in 1..Len(entries) : entries'[i] = entries[i]
          /\ entries'[Len(entries) + 1] = p
      BY <1>1, <1>5, <2>1, AppendProperties
    <2>3. DOMAIN entries' = 1..(Len(entries) + 1)
      BY <2>2, LenProperties
    <2> QED
      BY <1>1, <2>2, <2>3 DEF Working
  <1> QED
    BY <1>2, <1>3, <1>4, <1>5, SectionEntries

LEMMA UnappendedStep ==
  ASSUME WellFormed, Array, Unappended, [Next]_vars
  PROVE  Unappended'
  <1>1. Types /\ pc \in [Procs -> Labels] /\ op \in [Procs -> OpRecords] /\ Ops \subseteq Procs
    BY DEF WellFormed, Types, Procs
  <1>2. ASSUME NEW q \in Ops, pc'[q] = pc[q], op'[q] = op[q], shown' = shown
        PROVE  Fresh(q)' <=> Fresh(q)
    BY <1>2 DEF Fresh, DeleteFirst
  <1>3. ASSUME NEW p \in Procs, SectionStep(p), ~ Enter(p), NEW q \in Ops,
               (Fresh(q)' /\ pc'[q] # "mirror") \/ pc'[q] = "append"
        PROVE  q \notin Working'
    <2>1. Working' \subseteq Working \cup {p} /\ (p \in Working' => p \in Working \/ pc[p] = "append")
      BY <1>3, WorkingIs
    <2>2. CASE q = p
      <3>1. Fresh(p) /\ pc[p] \notin {"append", "mirror"}
        BY <1>3, <2>2, SectionFlow DEF Flows
      <3> QED
        BY <2>1, <2>2, <3>1 DEF Unappended
    <2>3. CASE q # p
      <3>1. pc'[q] = pc[q] /\ op'[q] = op[q] /\ shown' = shown
        BY <1>1, <1>3, <2>3, SectionMoves DEF Moves, OpKeeps
      <3>2. q \notin Working
        BY <1>2, <1>3, <3>1 DEF Unappended
      <3> QED
        BY <2>1, <2>3, <3>2
    <2> QED
      BY <2>2, <2>3
  <1>4. ASSUME OutsideStep, NEW q \in Ops,
               (Fresh(q)' /\ pc'[q] # "mirror") \/ pc'[q] = "append"
        PROVE  q \notin Working'
    <2>1. PICK p : Outside(p)
      BY <1>4, OutsideIs
    <2>2. Working' = Working
      BY <2>1 DEF Outside, Working
    <2>3. CASE q = p
      <3>1. Fresh(q) /\ pc[q] # "mirror"
        BY <1>4, <2>1, <2>3 DEF Outside
      <3> QED
        BY <2>2, <3>1 DEF Unappended
    <2>4. CASE q # p
      <3>1. pc'[q] = pc[q] /\ op'[q] = op[q] /\ shown' = shown
        BY <1>1, <2>1, <2>4 DEF Outside
      <3> QED
        BY <1>2, <1>4, <2>2, <3>1 DEF Unappended
    <2> QED
      BY <2>3, <2>4
  <1> QED
    BY <1>3, <1>4, NextIs DEF Unappended

LEMMA ArrayStep ==
  ASSUME WellFormed, Array, Unappended, [Next]_vars
  PROVE  Array'
  <1>1. /\ Types /\ pc \in [Procs -> Labels] /\ op \in [Procs -> OpRecords] /\ Ops \subseteq Procs
        /\ NoProc \notin Procs /\ Cap \in Nat
    BY CredentialsAssumption DEF WellFormed, Types, Procs
  <1>2. entries \in Seq(Secrets) /\ Len(entries) \in Nat /\ DOMAIN entries = 1..Len(entries)
    BY <1>1, LenProperties DEF Types
  <1>3. Len(entries) <= Cap /\ \A i, j \in DOMAIN entries : entries[i] = entries[j] => i = j
    BY DEF Array
  <1>4. ASSUME NEW p \in Procs, SectionStep(p), ~ Enter(p) PROVE Array'
    <2>1. Moves(p) /\ OpKeeps(p) /\ lease = p /\ (Leaves(p) \/ Stays(p))
          /\ (op'[p].len = op[p].len \/ pc[p] = "get")
      BY <1>1, <1>4, SectionMoves DEF Moves
    <2>2. ASSUME NEW q \in Ops, At(q, "withdraw")'
          PROVE  Len(entries') = AppendIndex(q)' + 1
      <3>1. q = p
        BY <1>1, <2>1, <2>2 DEF At, Leaves, Stays
      <3>2. pc[p] = "reclaim" /\ Len(entries) = AppendIndex(p) + 1 /\ entries' = entries
        BY <1>4, <2>2, <3>1, SectionFlow DEF Flows, At
      <3>3. op'[p].len = op[p].len /\ op'[p].kind = op[p].kind
        BY <2>1, <3>2 DEF OpKeeps
      <3> QED
        BY <3>1, <3>2, <3>3 DEF AppendIndex, DeleteFirst
    <2>3. Len(entries') <= Cap /\ \A i, j \in DOMAIN entries' : entries'[i] = entries'[j] => i = j
      <3>1. CASE entries' = entries
        BY <1>3, <3>1
      <3>2. CASE entries' = <<>>
        BY <1>1, <3>2
      <3>3. ASSUME NEW k \in DOMAIN entries, entries' = Without(k)
            PROVE  Len(entries') <= Cap /\ \A i, j \in DOMAIN entries' : entries'[i] = entries'[j] => i = j
        <4>1. /\ Without(k) \in Seq(Secrets) /\ Len(Without(k)) = Len(entries) - 1
              /\ \A j \in 1..(Len(entries) - 1) : Without(k)[j] = entries[IF j < k THEN j ELSE j + 1]
          BY <1>2, WithoutIs
        <4>2. DOMAIN entries' = 1..(Len(entries) - 1)
          BY <3>3, <4>1, LenProperties
        <4> QED
          BY <1>1, <1>2, <1>3, <3>3, <4>1, <4>2
      <3>4. ASSUME pc[p] = "append", Len(entries) < Cap, entries' = Append(entries, p)
            PROVE  Len(entries') <= Cap /\ \A i, j \in DOMAIN entries' : entries'[i] = entries'[j] => i = j
        <4>1. p \in Ops /\ p \in Secrets
          BY <3>4 DEF WellFormed, Places, Fits, Mints, Minting, Procs, Secrets
        <4>2. \A i \in DOMAIN entries : entries[i] # p
          BY <3>4, <4>1 DEF Unappended, Working
        <4>3. /\ entries' \in Seq(Secrets) /\ Len(entries') = Len(entries) + 1
              /\ \A i \in 1..Len(entries) : entries'[i] = entries[i]
              /\ entries'[Len(entries) + 1] = p
          BY <1>2, <3>4, <4>1, AppendProperties
        <4>4. DOMAIN entries' = 1..(Len(entries) + 1)
          BY <4>3, LenProperties
        <4> QED
          BY <1>1, <1>2, <1>3, <3>4, <4>2, <4>3, <4>4
      <3> QED
        BY <1>4, <3>1, <3>2, <3>3, <3>4, SectionEntries
    <2> QED
      BY <2>2, <2>3 DEF Array
  <1>5. ASSUME OutsideStep PROVE Array'
    <2>1. PICK p : Outside(p)
      BY <1>5, OutsideIs
    <2>2. entries' = entries
      BY <2>1 DEF Outside
    <2>3. ASSUME NEW q \in Ops, At(q, "withdraw")'
          PROVE  Len(entries') = AppendIndex(q)' + 1
      <3>1. At(q, "withdraw") /\ op'[q] = op[q]
        BY <1>1, <2>1, <2>3 DEF Outside, At
      <3> QED
        BY <2>2, <3>1 DEF Array, AppendIndex, DeleteFirst
    <2> QED
      BY <1>3, <2>2, <2>3 DEF Array
  <1> QED
    BY <1>4, <1>5, NextIs

-----------------------------------------------------------------------------
Typed == WellFormed /\ Unknown /\ Unappended /\ Numbered /\ Array

(* At first the rows number the array. *)
LEMMA InitTyped == Init => Typed
  <1> SUFFICES ASSUME Init PROVE Typed
    OBVIOUS
  <1> DEFINE n == Cardinality(Initial)
  <1>1. PICK order \in [1..n -> Initial], unplaced \in {{}, Legacy} :
          /\ \A i, j \in DOMAIN order : order[i] = order[j] => i = j
          /\ entries = order
          /\ row = [c \in Secrets |->
                      IF c \in Initial
                      THEN [st |-> "active", late |-> 0,
                            ord |-> IF c \in unplaced THEN 0
                                    ELSE CHOOSE i \in DOMAIN order : order[i] = c]
                      ELSE NoRow]
    BY DEF Init
  <1>2. /\ shown \in BOOLEAN /\ noted = {} /\ delivered = Initial /\ blind = {} /\ emptied = FALSE
        /\ withdrawn = {} /\ job = NoJob /\ opened = 0 /\ resets = 0
        /\ enabled = TRUE /\ torn = FALSE /\ flips = 0 /\ lease = NoProc
        /\ pc = [p \in Procs |-> "idle"] /\ op = [p \in Procs |-> NoOp]
        /\ todo = [r \in Runners |-> {}] /\ faults = 0
    BY DEF Init
  <1>3. /\ n \in Nat /\ n <= Cap /\ IsFiniteSet(Initial) /\ IsFiniteSet(Ops)
        /\ Cardinality(Ops) \in Nat /\ Initial \cap Ops = {} /\ NoProc \notin Secrets
        /\ NoProc \notin Procs /\ Cap \in Nat /\ Cardinality(Secrets) = n + Cardinality(Ops)
    <2>1. Cardinality(Initial \cap Ops) = 0
      BY CredentialsAssumption, FS_EmptySet
    <2>2. /\ IsFiniteSet(Initial) /\ IsFiniteSet(Ops) /\ n <= Cap /\ Cap \in Nat
          /\ Initial \cap Ops = {} /\ NoProc \notin Secrets /\ NoProc \notin Procs
      BY CredentialsAssumption DEF Secrets, Procs
    <2>3. n \in Nat /\ Cardinality(Ops) \in Nat
      BY <2>2, FS_CardinalityType
    <2>4. Cardinality(Secrets) = n + Cardinality(Ops) - Cardinality(Initial \cap Ops)
      BY <2>2, FS_Union DEF Secrets
    <2> QED
      BY <2>1, <2>2, <2>3, <2>4
  <1>4. DOMAIN order = 1..n /\ \A i \in 1..n : order[i] \in Initial
    OBVIOUS
  <1>5. ASSUME NEW c \in Initial PROVE \E i \in 1..n : order[i] = c
    <2>1. order \in Injection(1..n, Initial)
      BY <1>1, <1>4 DEF Injection, IsInjective
    <2>2. Cardinality(1..n) = n
      <3>1. 1 \in Int /\ n \in Int
        BY <1>3
      <3>2. Cardinality(1..n) = IF 1 > n THEN 0 ELSE n - 1 + 1
        BY <3>1, FS_Interval
      <3> QED
        BY <1>3, <3>2
    <2>3. order \in Surjection(1..n, Initial)
      BY <1>3, <2>1, <2>2, FS_Injection
    <2> QED
      BY <2>3 DEF Surjection
  <1>6. ASSUME NEW c \in Secrets
        PROVE  /\ row[c] \in Rows /\ row[c].ord \in 0..n
               /\ c \in Ops => row[c].st = "none"
    <2>1. CASE c \in Initial
      <3> DEFINE k == CHOOSE i \in DOMAIN order : order[i] = c
                 m == IF c \in unplaced THEN 0 ELSE k
      <3>1. k \in 1..n
        BY <1>4, <1>5, <2>1
      <3> HIDE DEF k
      <3>2. m \in 0..n /\ m \in Nat
        BY <1>3, <3>1
      <3>3. row[c] = [st |-> "active", late |-> 0, ord |-> m]
        BY <1>1, <2>1 DEF k
      <3> HIDE DEF m
      <3> QED
        BY <1>3, <2>1, <3>2, <3>3, CredentialsAssumption DEF Rows, States
    <2>2. CASE c \notin Initial
      BY <1>1, <1>3, <2>2, CredentialsAssumption DEF NoRow, Rows, States
    <2> QED
      BY <2>1, <2>2
  <1>7. entries \in Seq(Secrets) /\ Len(entries) = n /\ entries = order
    BY <1>1, <1>3, <1>4 DEF Secrets
  <1>8. NoOp \in OpRecords /\ NoOp.kind = "none" /\ NoOp.target = NoProc
    <2>1. "issue" \in Kinds /\ NoProc \in Secrets \cup {NoProc} /\ 0 \in Nat
      BY DEF Kinds
    <2> QED
      BY <2>1, NewOps DEF NoOp
  <1>9. WellFormed
    <2>1. pc \in [Procs -> Labels] /\ op \in [Procs -> OpRecords]
      BY <1>2, <1>8 DEF Labels
    <2>2. job \in Jobs
      BY <1>2, CredentialsAssumption DEF NoJob, Jobs
    <2>3. row \in [Secrets -> Rows]
      BY <1>1, <1>6
    <2>4. MaxEvents \in Nat /\ MaxFaults \in Nat /\ Initial \subseteq Secrets
      BY CredentialsAssumption DEF Secrets
    <2>5. /\ noted \subseteq Secrets /\ delivered \subseteq Secrets
          /\ blind \subseteq Secrets /\ withdrawn \subseteq Secrets
          /\ opened \in Nat /\ resets \in Nat /\ flips \in Nat
          /\ opened <= resets /\ resets + flips <= MaxEvents
          /\ lease \in Procs \cup {NoProc}
          /\ todo \in [Runners -> SUBSET Secrets]
          /\ faults \in 0..MaxFaults
      BY <1>2, <2>4
    <2>6. Types
      BY <1>2, <1>7, <2>1, <2>2, <2>3, <2>5 DEF Types
    <2>7. Places
      BY <1>2, <1>3, <1>8 DEF Places, Fits, Minting, Running
    <2> QED
      BY <2>6, <2>7 DEF WellFormed
  <1>10. CanMint = Ops
    BY <1>2 DEF CanMint, Fresh, Procs
  <1>11. Unknown
    BY <1>2, <1>3, <1>6, <1>8, <1>10 DEF Unknown, Secrets
  <1>12. Unappended
    BY <1>3, <1>4, <1>7 DEF Unappended, Working
  <1>13. Numbered
    BY <1>3, <1>6, <1>10 DEF Numbered
  <1>14. Array
    BY <1>1, <1>2, <1>3, <1>7 DEF Array, At, Procs
  <1> QED
    BY <1>9, <1>11, <1>12, <1>13, <1>14 DEF Typed

LEMMA NextTyped == Typed /\ [Next]_vars => Typed'
  <1> SUFFICES ASSUME Typed, [Next]_vars PROVE Typed'
    OBVIOUS
  <1>1. WellFormed /\ Unknown /\ Unappended /\ Numbered /\ Array
    BY DEF Typed
  <1>2. WellFormed'
    BY <1>1, NextIs, SectionTypes, OutsideTypes
  <1> QED
    BY <1>1, <1>2, UnknownStep, UnappendedStep, NumberedStep, ArrayStep DEF Typed

LEMMA TypedIsTypeOK == Typed => CredentialsTypeOK
  <1> SUFFICES ASSUME Typed PROVE CredentialsTypeOK
    OBVIOUS
  <1>1. Types /\ Places /\ Numbered /\ Array
    BY DEF Typed, WellFormed
  <1>2. row \in [Secrets -> [st : {"none", "active", "retiring", "revoked"},
                             ord : 0..Cardinality(Secrets), late : 0..MaxEvents]]
    <2>1. Cardinality(Secrets) \in Nat /\ Cardinality(CanMint) \in Nat
      BY FiniteRows DEF CanMint, Secrets
    <2>2. ASSUME NEW c \in Secrets
          PROVE  row[c] \in [st : {"none", "active", "retiring", "revoked"},
                             ord : 0..Cardinality(Secrets), late : 0..MaxEvents]
      <3>1. row[c] \in Rows
        BY <1>1 DEF Types
      <3>2. row[c].ord \in 0..Cardinality(Secrets)
        BY <1>1, <2>1, <3>1 DEF Numbered, Rows
      <3> QED
        BY <3>1, <3>2 DEF Rows, States
    <2> QED
      BY <1>1, <2>2 DEF Types
  <1>3. \A p \in Procs : op[p].kind \in Kinds \cup {"none"}
    BY <1>1 DEF Types, OpRecords
  <1>4. \A p \in Procs : lease = p => pc[p] \notin {"idle", "key", "list", "barrier",
                                                     "rdone", "rfail", "done"}
    BY <1>1 DEF Places, Inside, Entering, Minting, Retirement
  <1>5. pc \in [Procs -> {"idle", "key", "check", "get", "settle", "place", "gate",
                          "intent", "delete", "probe", "unretire", "retired", "close",
                          "pend", "append", "unpend", "mirror", "reclaim", "withdraw",
                          "reread", "unlist", "reactivate", "note", "rotated", "wipe",
                          "clearrows", "list", "barrier", "rdone", "rfail", "done"}]
    BY <1>1 DEF Types, Labels, Inside, Entering, Minting, Retirement, Running
  <1>6. job \in [st : {"none", "pending", "sending"}, by : Runners \cup {NoProc},
                 att : 0..BlockingAttempts]
    BY <1>1 DEF Types, Jobs
  <1>7. opened \in 0..resets /\ resets + flips \in 0..MaxEvents
    BY <1>1, CredentialsAssumption DEF Types
  <1> QED
    BY <1>1, <1>2, <1>3, <1>4, <1>5, <1>6, <1>7 DEF Types, Array, CredentialsTypeOK

(* Every reachable state has its types: the array is never over the cap    *)
(* and holds no secret twice, ordinals are no more than the credentials,   *)
(* and whoever has the consumer's key is inside its section.               *)
THEOREM TypeCorrect == Spec => []CredentialsTypeOK
  <1>1. Spec => []Typed
    BY InitTyped, NextTyped, PTL DEF Spec
  <1> QED
    BY <1>1, TypedIsTypeOK, PTL

-----------------------------------------------------------------------------
(* Teardown. *)
LEMMA SectionEmptied ==
  ASSUME Typed, Emptied, NEW p \in Procs, SectionStep(p), ~ Enter(p)
  PROVE  Emptied'
  <1>1. WellFormed /\ Numbered /\ Array /\ Types /\ Places
    BY DEF Typed, WellFormed
  <1>2. /\ lease = p /\ OpKeeps(p) /\ (Leaves(p) \/ Stays(p)) /\ enabled' = enabled
    BY <1>1, SectionMoves DEF Moves
  <1>3. Flows(p)
    BY <1>1, SectionFlow
  <1>4. NoProc \notin Procs /\ Ops \subseteq Procs /\ torn \in BOOLEAN /\ enabled \in BOOLEAN
    BY <1>1, CredentialsAssumption DEF Procs, Types
  <1>5. ASSUME NEW q \in Procs, lease' = q PROVE q = p /\ Mints(q)' = Mints(q)
    BY <1>2, <1>4, <1>5 DEF Leaves, Stays, OpKeeps, Mints
  <1>6. ASSUME NEW q \in Procs, At(q, "clearrows")' PROVE entries' = <<>>
    BY <1>3, <1>5, <1>6 DEF At, Flows
  <1>7. CASE torn
    <2>1. ~ enabled /\ entries = <<>> /\ (p \in Ops /\ Mints(p) => pc[p] = "check")
      BY <1>2, <1>7 DEF Emptied
    <2>2. entries' = <<>>
      <3>1. pc[p] = "append" => p \in Ops /\ Mints(p)
        BY <1>1 DEF Places, Fits, Mints, Minting, Procs
      <3>2. DOMAIN entries = {}
        BY <2>1
      <3> QED
        BY <1>1, <2>1, <3>1, <3>2, SectionEntries
    <2>3. ASSUME NEW q \in Ops, lease' = q, Mints(q)' PROVE FALSE
      BY <1>3, <1>4, <1>5, <2>1, <2>3 DEF Flows
    <2> QED
      BY <1>2, <1>6, <2>1, <2>2, <2>3 DEF Emptied
  <1>8. CASE ~ torn
    <2>1. /\ torn' \in BOOLEAN
          /\ torn' => lease' = NoProc /\ pc[p] = "clearrows" /\ ~ enabled /\ entries' = entries
      BY <1>1, <1>4, <1>8, SectionHistory
    <2>2. torn' => entries' = <<>>
      BY <1>2, <2>1 DEF Emptied, At
    <2> QED
      BY <1>2, <1>4, <1>6, <2>1, <2>2 DEF Emptied
  <1> QED
    BY <1>4, <1>7, <1>8

LEMMA OutsideEmptied ==
  ASSUME Typed, Emptied, OutsideStep
  PROVE  Emptied'
  <1>1. WellFormed /\ torn \in BOOLEAN /\ enabled \in BOOLEAN /\ Ops \subseteq Procs
    BY DEF Typed, WellFormed, Types, Procs
  <1>2. PICK p : Outside(p)
    BY <1>1, OutsideIs
  <1>3. entries' = entries
    BY <1>2 DEF Outside
  <1>4. \A q \in Procs : lease' = q => /\ pc'[q] = "check" \/ (lease = q /\ pc'[q] = pc[q])
                                       /\ op'[q] = op[q]
    BY <1>2 DEF Outside
  <1>5. ASSUME NEW q \in Procs, At(q, "clearrows")' PROVE entries' = <<>>
    BY <1>3, <1>4, <1>5 DEF At, Emptied
  <1>6. ASSUME torn' PROVE torn /\ enabled' = enabled
    BY <1>1, <1>2, <1>6 DEF Outside, Emptied
  <1>7. ASSUME torn', NEW q \in Ops, lease' = q, Mints(q)' PROVE pc'[q] = "check"
    BY <1>1, <1>4, <1>6, <1>7 DEF Emptied, Mints
  <1>8. torn' => ~ enabled' /\ entries' = <<>>
    BY <1>3, <1>6 DEF Emptied
  <1> QED
    BY <1>5, <1>7, <1>8 DEF Emptied

(* Once the teardown of a disabled account has completed, the gateway      *)
(* holds no secret of it until it is enabled again: what was queued behind *)
(* the teardown is refused by the check inside the key.                    *)
THEOREM TornDownStaysEmpty == Spec => []TornDownHoldsNothing
  <1>1. Init => Typed /\ Emptied
    <2>1. Init => Emptied
      BY CredentialsAssumption DEF Init, Emptied, At, Procs
    <2> QED
      BY <2>1, InitTyped
  <1>2. Typed /\ Emptied /\ [Next]_vars => (Typed /\ Emptied)'
    <2> SUFFICES ASSUME Typed, Emptied, [Next]_vars PROVE (Typed /\ Emptied)'
      OBVIOUS
    <2>1. Typed'
      BY NextTyped
    <2>2. Emptied'
      BY NextIs, SectionEmptied, OutsideEmptied
    <2> QED
      BY <2>1, <2>2
  <1>3. Typed /\ Emptied => TornDownHoldsNothing
    BY DEF Emptied, TornDownHoldsNothing, Working
  <1> QED
    BY <1>1, <1>2, <1>3, PTL DEF Spec

-----------------------------------------------------------------------------
(* Recovery.  First, what a retirement is about to retire. *)
Targets(p) ==
    /\ pc'[p] = "gate" => pc[p] = "place" /\ (op[p].kind = "rotate" => op[p].target \in LiveRows)
    /\ pc'[p] = "intent" =>
         \/ pc[p] = "place" /\ op[p].target \in LiveRows
         \/ pc[p] = "gate" /\ op[p].kind = "rotate"
         \/ pc[p] = "mirror" /\ AppendFirst(p)
    /\ pc'[p] \in {"pend", "append", "mirror"} =>
         pc[p] \in {"gate", "pend", "append"} \/ (pc[p] = "retired" /\ DeleteFirst(p))

LEMMA SectionTargets ==
  ASSUME WellFormed, NEW p \in Procs, SectionStep(p), ~ Enter(p)
  PROVE  Targets(p)
  <1>1. Types /\ Fits(p) /\ p # NoProc
    BY CredentialsAssumption DEF WellFormed, Places, Procs
  <1>2. pc \in [Procs -> Labels]
    BY <1>1 DEF Types
  <1>3. op[p].len \in Nat /\ Cap \in Nat
    BY <1>1, CredentialsAssumption DEF Types, OpRecords
  <1> USE <1>1, <1>2, <1>3, LeaveIs DEF Fits, DeleteFirst, AppendFirst, At, Targets
  <1>4. CASE Check(p)
    BY <1>4 DEF Check, ReadFails, Step, Goto
  <1>5. CASE Get(p)
    BY <1>5 DEF Get, ReadFails, Step, Goto
  <1>6. CASE SettleLostRetirement(p)
    BY <1>6 DEF SettleLostRetirement, WriteOrLeave, Step, Goto
  <1>7. CASE Place(p)
    <2>1. pc[p] = "place" /\ pc'[p] \notin {"pend", "append", "mirror"}
      BY <1>7 DEF Place, Step, Goto
    <2>2. pc'[p] = "gate" => (op[p].kind = "rotate" => op[p].target \in LiveRows)
      BY <1>7 DEF Place, Step, Goto
    <2>3. pc'[p] = "intent" => op[p].target \in LiveRows
      <3>1. pc'[p] = "intent" => Position(p, op[p].target) # "notlive"
        BY <1>7 DEF Place, Step, Goto
      <3>2. Position(p, op[p].target) # "notlive" => op[p].target \in LiveRows
        BY DEF Position
      <3> QED
        BY <3>1, <3>2
    <2> QED
      BY <2>1, <2>2, <2>3
  <1>8. CASE Gate(p)
    BY <1>8 DEF Gate, ReadFails, ToAppend, Step, Goto
  <1>9. CASE Intent(p)
    BY <1>9 DEF Intent, Write, WriteOrLeave, Step, Goto
  <1>10. CASE Delete(p)
    BY <1>10 DEF Delete, EdgeDelete, Step, Goto
  <1>11. CASE Probe(p)
    BY <1>11 DEF Probe, ReadFails, Step, Goto
  <1>12. CASE WithdrawRetirement(p)
    BY <1>12 DEF WithdrawRetirement, Step, Goto
  <1>13. CASE Retired(p)
    BY <1>13 DEF Retired, WriteOrLeave, ToAppend, Step, Goto
  <1>14. CASE Close(p)
    BY <1>14 DEF Close, WriteAndLeave, Step, Goto
  <1>15. CASE Pend(p)
    BY <1>15 DEF Pend, WriteOrLeave, Step, Goto
  <1>16. CASE AppendEntry(p)
    BY <1>16 DEF AppendEntry, Step, Goto
  <1>17. CASE Unpend(p)
    BY <1>17 DEF Unpend, Step, Goto
  <1>18. CASE Mirror(p)
    BY <1>18 DEF Mirror, Deliver, Step, Goto
  <1>19. CASE Reclaim(p)
    BY <1>19 DEF Reclaim, Step, Goto
  <1>20. CASE Withdraw(p)
    BY <1>20 DEF Withdraw, EdgeDelete, AfterWithdrawal, Step, Goto
  <1>21. CASE Reread(p)
    BY <1>21 DEF Reread, AfterWithdrawal, Step, Goto
  <1>22. CASE Unlist(p)
    BY <1>22 DEF Unlist, Write, Step, Goto
  <1>23. CASE Reactivate(p)
    BY <1>23 DEF Reactivate, Write, Step, Goto
  <1>24. CASE Note(p)
    BY <1>24 DEF Note, Step, Goto
  <1>25. CASE Rotated(p)
    BY <1>25 DEF Rotated, Deliver, Step, Goto
  <1>26. CASE Wipe(p)
    BY <1>26 DEF Wipe, Step, Goto
  <1>27. CASE ClearRows(p)
    BY <1>27 DEF ClearRows, WriteAndLeave, Step, Goto
  <1> HIDE DEF Targets
  <1> QED
    BY <1>4, <1>5, <1>6, <1>7, <1>8, <1>9, <1>10, <1>11, <1>12, <1>13, <1>14, <1>15, <1>16,
       <1>17, <1>18, <1>19, <1>20, <1>21, <1>22, <1>23, <1>24, <1>25, <1>26, <1>27 DEF SectionStep

LEMMA NotItselfStep ==
  ASSUME Typed, NotItself, [Next]_vars
  PROVE  NotItself'
  <1>1. /\ WellFormed /\ Types /\ Unknown /\ op \in [Procs -> OpRecords]
        /\ Ops \subseteq Procs /\ NoProc \notin Ops /\ Ops \cap Runners = {}
    BY CredentialsAssumption DEF Typed, WellFormed, Types, Procs
  <1>2. ASSUME NEW p \in Procs, SectionStep(p), ~ Enter(p), NEW q \in Ops
        PROVE  op'[q].target # q
    <2>1. OpKeeps(p)
      BY <1>1, <1>2, SectionMoves DEF Moves
    <2> QED
      BY <1>1, <2>1 DEF OpKeeps, NotItself
  <1>3. ASSUME OutsideStep, NEW q \in Ops PROVE op'[q].target # q
    <2>1. PICK p : Outside(p)
      BY <1>1, <1>3, OutsideIs
    <2>2. CASE q # p
      BY <1>1, <2>1, <2>2 DEF Outside, NotItself
    <2>3. CASE q = p /\ ~ Fresh(q)
      BY <1>1, <2>1, <2>3 DEF Outside, NotItself
    <2>4. CASE q = p /\ Fresh(q)
      <3>1. q \notin LiveRows
        BY <1>1, <2>4 DEF Unknown, CanMint, LiveRows, Live
      <3> QED
        BY <1>1, <2>1, <2>4, <3>1 DEF Outside, NotItself
    <2> QED
      BY <2>2, <2>3, <2>4
  <1> QED
    BY <1>2, <1>3, NextIs DEF NotItself

LEMMA TargetIsLiveStep ==
  ASSUME Typed, NotItself, TargetIsLive, [Next]_vars
  PROVE  TargetIsLive'
  <1>1. /\ WellFormed /\ Types /\ Places /\ Numbered /\ Ops \subseteq Procs /\ NoProc \notin Procs
    BY CredentialsAssumption DEF Typed, WellFormed, Procs
  <1>2. ASSUME NEW p \in Procs, SectionStep(p), ~ Enter(p)
        PROVE  TargetIsLive'
    <2> DEFINE t == op[p].target
    <2>1. /\ lease = p /\ OpKeeps(p) /\ (Leaves(p) \/ Stays(p))
          /\ (op'[p].len = op[p].len \/ pc[p] = "get")
      BY <1>1, <1>2, SectionMoves DEF Moves
    <2>2. Targets(p)
      BY <1>1, <1>2, SectionTargets
    <2>3. \A q \in Procs : lease' = q => q = p
      BY <1>1, <2>1 DEF Leaves, Stays
    <2>4. ASSUME t \in LiveRows, pc[p] \in {"place", "gate", "pend", "append", "mirror"}
          PROVE  t \in LiveRows'
      <3>1. t \in Secrets /\ row[t].st \in {"active", "retiring"}
        BY <2>4 DEF LiveRows, Live
      <3>2. RowStep(p, t)
        BY <1>1, <1>2, <3>1, SectionRow
      <3>3. row'[t].st \in {"active", "retiring"}
        BY <2>4, <3>1, <3>2 DEF RowStep, Becomes, Minted, Settling
      <3> QED
        BY <3>1, <3>3 DEF LiveRows, Live
    <2>5. /\ pc[p] = "gate" /\ op[p].kind = "rotate" => t \in LiveRows
          /\ pc[p] \in {"pend", "append", "mirror"} /\ AppendFirst(p) => t \in LiveRows
      BY <2>1 DEF TargetIsLive
    <2>6. op'[p].target = t /\ op'[p].kind = op[p].kind
      BY <2>1 DEF OpKeeps
    <2>7. op[p].len \in Nat /\ Cap \in Nat
      BY <1>1, CredentialsAssumption DEF Types, OpRecords
    <2>8. /\ pc'[p] = "intent" => t \in LiveRows'
          /\ pc'[p] = "gate" /\ op[p].kind = "rotate" => t \in LiveRows'
      BY <2>2, <2>4, <2>5 DEF Targets
    <2>9. pc'[p] \in {"pend", "append", "mirror"} /\ AppendFirst(p)' => t \in LiveRows'
      BY <2>1, <2>2, <2>4, <2>5, <2>6, <2>7 DEF Targets, AppendFirst, DeleteFirst
    <2> HIDE DEF t
    <2> QED
      BY <2>3, <2>6, <2>8, <2>9 DEF TargetIsLive
  <1>3. ASSUME OutsideStep PROVE TargetIsLive'
    <2>1. PICK p : Outside(p)
      BY <1>1, <1>3, OutsideIs
    <2>2. LiveRows' = LiveRows
      BY <2>1 DEF Outside, LiveRows, Live
    <2> QED
      BY <2>1, <2>2 DEF Outside, TargetIsLive, AppendFirst
  <1> QED
    BY <1>2, <1>3, NextIs

(* How the runner of a recovery, and what happens to the account, touch    *)
(* the generations and the job.                                            *)
LEMMA OpenedIs ==
  ASSUME WellFormed, OutsideStep
  PROVE  opened' \in Nat /\ opened' >= opened
  <1>1. opened \in Nat /\ resets \in Nat /\ opened <= resets
    BY DEF WellFormed, Types
  <1>2. opened' \in {opened, resets}
    BY DEF OutsideStep, Begin, Enter, Crash, RunnerStep, Claim, List, RevokeNext, Barrier, Finish,
           Fail, ReleaseStale, Reset, Disable, Enable, outside, recovery, vars
  <1> QED
    BY <1>1, <1>2

LEMMA RowsAreDatedStep ==
  ASSUME Typed, RowsAreDated, [Next]_vars
  PROVE  RowsAreDated'
  <1>1. /\ WellFormed /\ Types /\ Numbered /\ opened \in Nat
        /\ \A c \in Secrets : row[c].late \in Nat
    BY DEF Typed, WellFormed, Types, Rows
  <1>2. ASSUME NEW p \in Procs, SectionStep(p), ~ Enter(p), NEW c \in Secrets
        PROVE  row'[c].late <= opened'
    <2>1. RowStep(p, c) /\ opened' = opened
      BY <1>1, <1>2, SectionRow, SectionMoves DEF Moves
    <2> QED
      BY <1>1, <2>1 DEF RowStep, Becomes, Minted, NoRow, RowsAreDated
  <1>3. ASSUME OutsideStep, NEW c \in Secrets PROVE row'[c].late <= opened'
    <2>1. row' = row
      BY <1>1, <1>3, OutsideIs DEF Outside
    <2> QED
      BY <1>1, <1>3, <2>1, OpenedIs DEF RowsAreDated
  <1> QED
    BY <1>2, <1>3, NextIs DEF RowsAreDated

(* A step inside the section under a running sweep. *)
LEMMA SectionSwept ==
  ASSUME Typed, NotItself, TargetIsLive, Swept, NEW p \in Procs, SectionStep(p), ~ Enter(p)
  PROVE  Swept'
  <1>1. /\ WellFormed /\ Types /\ Places /\ Numbered /\ Unknown
        /\ Ops \subseteq Procs /\ Ops \subseteq Secrets /\ Runners \subseteq Procs /\ NoProc \notin Procs
    BY CredentialsAssumption DEF Typed, WellFormed, Procs, Secrets
  <1>2. /\ lease = p /\ OpKeeps(p) /\ (Leaves(p) \/ Stays(p))
        /\ UNCHANGED <<job, opened, resets>> /\ pc' = [pc EXCEPT ![p] = pc'[p]]
    BY <1>1, SectionMoves DEF Moves
  <1>3. Flows(p) /\ \A c \in Secrets : RowStep(p, c)
    BY <1>1, SectionFlow, SectionRow
  <1>4. withdrawn \subseteq withdrawn'
    BY <1>1, SectionRow
  <1>5. pc[p] \in Inside /\ Fits(p)
    BY <1>1, <1>2 DEF Places
  <1>6. pc \in [Procs -> Labels] /\ op \in [Procs -> OpRecords] /\ opened \in Nat /\ resets \in Nat
        /\ opened <= resets
    BY <1>1 DEF Types
  <1>7. ASSUME NEW r \in Runners, Holds(r)', pc'[r] \notin {"idle", "rfail"}
        PROVE  Sweeps(r)'
    <2>1. Holds(r)
      BY <1>2, <1>7 DEF Holds
    <2>2. pc[r] \notin {"idle", "rfail"}
      BY <1>1, <1>2, <1>5, <1>6, <1>7 DEF Inside, Entering, Minting, Retirement
    <2>3. op'[r].phase = op[r].phase /\ op'[r].cutoff = op[r].cutoff
      BY <1>1, <1>2, <1>6 DEF OpKeeps
    <2>4. /\ op[r].cutoff = IF opened = resets THEN resets ELSE 0
          /\ op[r].phase \in 1..6
          /\ pc[r] = "barrier" => op[r].phase = 3
          /\ pc[r] = "rdone" <=> op[r].phase = 6
          /\ op[r].phase >= 4 => Cleared
          /\ op[r].phase >= 5 => \A c \in Secrets : row[c].st = "active" => Done(c)
          /\ op[r].phase = 6 => \A c \in Secrets : Live(c) => Done(c)
      BY <2>1, <2>2 DEF Swept, Sweeps
    <2>5. /\ pc'[r] = "barrier" => op[r].phase = 3
          /\ pc'[r] = "rdone" <=> op[r].phase = 6
      <3>1. CASE r = p
        <4>1. pc[r] \notin {"barrier", "rdone"} /\ pc'[r] \notin {"barrier", "rdone"}
          BY <1>2, <1>5, <3>1 DEF Leaves, Stays, Inside, Entering, Minting, Retirement
        <4> QED
          BY <2>4, <4>1
      <3>2. CASE r # p
        BY <1>1, <1>2, <1>6, <2>4, <3>2
      <3> QED
        BY <3>1, <3>2
    <2>6. ASSUME Cleared, p \in Ops, Mints(p), pc[p] \notin Entering \cup {"gate"}
          PROVE  opened = resets /\ (Live(p) => row[p].late = resets)
      BY <1>2, <2>6 DEF Cleared
    <2>7. ASSUME Cleared, pc[p] \in {"pend", "mirror"}
          PROVE  opened = resets /\ (Live(p) => row[p].late = resets)
      <3>1. p \in Ops /\ Mints(p) /\ pc[p] \notin Entering \cup {"gate"}
        BY <1>5, <2>7 DEF Fits, Mints, Minting, Procs, Entering
      <3> QED
        BY <2>6, <2>7, <3>1
    <2>8. ASSUME NEW c \in Secrets, Done(c), row'[c].late = row[c].late PROVE Done(c)'
      BY <1>2, <1>4, <2>8 DEF Done, Kept
    <2>9. ASSUME Cleared PROVE Cleared'
      <3> SUFFICES ASSUME NEW q \in Ops, lease' = q, Mints(q)', pc'[q] \notin Entering \cup {"gate"}
                   PROVE  opened' = resets' /\ (Live(q)' => row'[q].late = resets')
        BY DEF Cleared
      <3>1. q = p /\ Mints(p) /\ pc'[p] \in Inside
        BY <1>1, <1>2 DEF Leaves, Stays, OpKeeps, Mints
      <3>2. pc[p] \in Inside \ Entering /\ (pc[p] = "gate" => ~ Blocks)
        BY <1>3, <3>1 DEF Flows
      <3>3. RowStep(p, p) /\ op[p].target # p /\ p \in Secrets
        BY <1>1, <1>3, <3>1 DEF NotItself
      <3>4. CASE pc[p] = "gate"
        <4>1. opened = resets
          BY <1>6, <2>1, <3>2, <3>4 DEF Blocks, Holds
        <4>2. row[p].st = "none"
          BY <1>1, <3>1, <3>4 DEF Unknown, CanMint, Fresh
        <4>3. ~ Live(p)'
          BY <3>3, <3>4, <4>2 DEF RowStep, Minted, NoRow, Live, Settling
        <4> QED
          BY <1>2, <3>1, <4>1, <4>3
      <3>5. CASE pc[p] # "gate"
        <4>1. opened = resets /\ (Live(p) => row[p].late = resets)
          BY <2>6, <2>9, <3>1, <3>2, <3>5
        <4>2. Live(p)' => row'[p].late = resets
          BY <3>3, <4>1 DEF RowStep, Becomes, Minted, NoRow, Live
        <4> QED
          BY <1>2, <3>1, <4>1, <4>2
      <3> QED
        BY <3>4, <3>5
    <2>10. ASSUME op[r].phase >= 5, NEW c \in Secrets, row'[c].st = "active" PROVE Done(c)'
      <3>1. Cleared /\ (row[c].st = "active" => Done(c)) /\ RowStep(p, c)
        BY <1>3, <2>4, <2>10
      <3>2. CASE row'[c] = row[c]
        BY <2>8, <2>10, <3>1, <3>2
      <3>3. CASE c \in withdrawn'
        BY <3>3 DEF Done
      <3>4. CASE Becomes(c, "active") /\ c = p /\ row[c].st = "retiring" /\ pc[p] = "mirror"
        BY <1>2, <2>7, <3>1, <3>4 DEF Becomes, Live, Done, Kept
      <3>5. CASE Minted(p) /\ c = p
        BY <1>2, <2>7, <3>1, <3>5 DEF Minted, Done, Kept
      <3> QED
        BY <2>10, <3>1, <3>2, <3>3, <3>4, <3>5 DEF RowStep, Becomes, NoRow
    <2>11. ASSUME op[r].phase = 6, NEW c \in Secrets, Live(c)' PROVE Done(c)'
      <3>1. Cleared /\ (Live(c) => Done(c)) /\ RowStep(p, c)
        BY <1>3, <2>4, <2>11
      <3>2. CASE row'[c] = row[c]
        BY <2>8, <2>11, <3>1, <3>2 DEF Live
      <3>3. CASE c \in withdrawn'
        BY <3>3 DEF Done
      <3>4. CASE Becomes(c, "active") /\ c = p /\ row[c].st = "retiring" /\ pc[p] = "mirror"
        BY <2>8, <3>1, <3>4 DEF Becomes, Live
      <3>5. CASE Minted(p) /\ c = p
        BY <1>2, <2>7, <3>1, <3>5 DEF Minted, Done, Kept
      <3>6. CASE Becomes(c, "retiring") /\ c = op[p].target /\ pc[p] = "intent"
        <4>1. Live(c)
          BY <1>2, <3>6 DEF TargetIsLive, LiveRows
        <4> QED
          BY <2>8, <3>1, <3>6, <4>1 DEF Becomes
      <3> QED
        BY <2>11, <3>1, <3>2, <3>3, <3>4, <3>5, <3>6 DEF RowStep, Becomes, NoRow, Live
    <2> QED
      BY <1>2, <2>3, <2>4, <2>5, <2>9, <2>10, <2>11 DEF Sweeps
  <1>8. job'.st # "none" => resets' > 0
    BY <1>2 DEF Swept
  <1>9. ASSUME NEW r \in Runners PROVE Sweeps(r)'
    BY <1>7 DEF Sweeps
  <1> QED
    BY <1>8, <1>9 DEF Swept

(* The steps of the runner, and the others outside the section. *)
LEMMA OutsideSwept ==
  ASSUME Typed, RowsAreDated, Swept, OutsideStep
  PROVE  Swept'
  <1>1. /\ WellFormed /\ Types /\ Places /\ pc \in [Procs -> Labels] /\ op \in [Procs -> OpRecords]
        /\ opened \in Nat /\ resets \in Nat /\ opened <= resets /\ job \in Jobs
        /\ Ops \subseteq Procs /\ Runners \subseteq Procs /\ NoProc \notin Procs /\ Ops \cap Runners = {}
    BY CredentialsAssumption DEF Typed, WellFormed, Types, Procs
  <1>2. PICK m : Outside(m)
    BY <1>1, OutsideIs
  <1>3. row' = row
    BY <1>2 DEF Outside
  <1>4. ASSUME UNCHANGED <<opened, resets>>, Cleared PROVE Cleared'
    <2> SUFFICES ASSUME NEW q \in Ops, lease' = q, Mints(q)', pc'[q] \notin Entering \cup {"gate"}
                 PROVE  opened' = resets' /\ (Live(q)' => row'[q].late = resets')
      BY DEF Cleared
    <2>1. pc'[q] = "check" \/ (lease = q /\ pc'[q] = pc[q])
      BY <1>1, <1>2 DEF Outside
    <2>2. op'[q] = op[q]
      BY <1>1, <1>2 DEF Outside
    <2>3. lease = q /\ pc'[q] = pc[q] /\ Mints(q)
      BY <2>1, <2>2 DEF Entering, Mints
    <2> QED
      BY <1>3, <1>4, <2>3 DEF Cleared, Live
  (* Who keeps the job keeps what its sweep has established. *)
  <1>5. ASSUME NEW r \in Runners, Sweeps(r), UNCHANGED <<job, opened, resets, withdrawn>>,
               op'[r].phase = op[r].phase, op'[r].cutoff = op[r].cutoff,
               pc[r] \notin {"idle", "rfail"} \/ pc'[r] \in {"idle", "rfail"},
               pc'[r] = pc[r] \/ (pc[r] \notin {"barrier", "rdone"} /\ pc'[r] \notin {"barrier", "rdone"})
                 \/ pc'[r] \in {"idle", "rfail"}
        PROVE  Sweeps(r)'
    <2> SUFFICES ASSUME Holds(r)', pc'[r] \notin {"idle", "rfail"} PROVE Sweeps(r)'
      BY DEF Sweeps
    <2>1. Holds(r) /\ pc[r] \notin {"idle", "rfail"}
      BY <1>5 DEF Holds
    <2> QED
      BY <1>3, <1>4, <1>5, <2>1 DEF Sweeps, Done, Kept, Live
  <1>6. ASSUME NEW r \in Runners, job'.st # "sending" \/ job'.by # r PROVE Sweeps(r)'
    BY <1>6 DEF Sweeps, Holds
  <1>7. ASSUME NEW r \in Runners, pc'[r] \in {"idle", "rfail"} PROVE Sweeps(r)'
    BY <1>7 DEF Sweeps
  <1>8. \A r \in Runners : Sweeps(r)
    BY DEF Swept
  <1>9. job.st # "none" => resets > 0
    BY DEF Swept
  <1>10. ASSUME NEW p \in Ops, NEW k \in Kinds \ {"recover"}, NEW t \in Secrets \cup {NoProc},
                Begin(p, k, t)
         PROVE  Swept'
    <2>1. UNCHANGED <<job, opened, resets, withdrawn>>
      BY <1>10 DEF Begin, history, outside, recovery
    <2>2. ASSUME NEW r \in Runners PROVE pc'[r] = pc[r] /\ op'[r] = op[r]
      BY <1>1, <1>10 DEF Begin, Goto
    <2>3. ASSUME NEW r \in Runners PROVE Sweeps(r)'
      BY <1>5, <1>8, <2>1, <2>2
    <2> QED
      BY <1>9, <2>1, <2>3 DEF Swept
  <1>11. ASSUME NEW p \in Procs, Enter(p) PROVE Swept'
    <2>1. UNCHANGED <<job, opened, resets, withdrawn, op>> /\ pc[p] = "key"
      BY <1>11 DEF Enter, history, outside, recovery
    <2>2. /\ pc' = [pc EXCEPT ![p] = pc'[p]]
          /\ p \in Runners => pc'[p] \in {"check", "rfail"}
      BY <1>1, <1>11 DEF Enter, ReadFails, Leave, Goto
    <2>3. ASSUME NEW r \in Runners PROVE Sweeps(r)'
      <3>1. CASE r = p
        BY <1>5, <1>8, <2>1, <2>2, <3>1
      <3>2. CASE r # p
        BY <1>1, <1>5, <1>8, <2>1, <2>2, <3>2
      <3> QED
        BY <3>1, <3>2
    <2> QED
      BY <1>9, <2>1, <2>3 DEF Swept
  <1>12. ASSUME NEW p \in Procs, Crash(p) PROVE Swept'
    <2>1. UNCHANGED <<job, opened, resets, withdrawn>>
      BY <1>12 DEF Crash
    <2>2. ASSUME NEW r \in Runners PROVE Sweeps(r)'
      <3>1. CASE r = p
        BY <1>1, <1>7, <1>12, <3>1 DEF Crash
      <3>2. CASE r # p
        <4>1. pc'[r] = pc[r] /\ op'[r] = op[r]
          BY <1>1, <1>12, <3>2 DEF Crash
        <4> QED
          BY <1>5, <1>8, <2>1, <4>1
      <3> QED
        BY <3>1, <3>2
    <2> QED
      BY <1>9, <2>1, <2>2 DEF Swept
  <1>13. ASSUME ReleaseStale \/ Reset PROVE Swept'
    <2>1. job'.st = "pending"
      <3>1. CASE Reset
        BY <3>1 DEF Reset
      <3>2. CASE ReleaseStale
        <4>1. job' = [job EXCEPT !.st = "pending", !.by = NoProc]
          BY <3>2 DEF ReleaseStale
        <4> QED
          BY <1>1, <4>1 DEF Jobs
      <3> QED
        BY <1>13, <3>1, <3>2
    <2>2. resets' > 0
      BY <1>1, <1>9, <1>13 DEF ReleaseStale, Reset
    <2> QED
      BY <1>6, <2>1, <2>2 DEF Swept
  <1>14. ASSUME Disable \/ Enable \/ UNCHANGED vars PROVE Swept'
    <2>1. UNCHANGED <<job, opened, resets, withdrawn, pc, op>>
      BY <1>14 DEF Disable, Enable, vars, history, recovery
    <2> QED
      BY <1>5, <1>8, <1>9, <2>1 DEF Swept
  <1>15. ASSUME NEW r \in Runners, RunnerStep(r) PROVE Swept'
    <2>1. ASSUME NEW q \in Runners, q # r, UNCHANGED <<job, opened, resets, withdrawn>>,
                 NEW l, NEW o, pc' = [pc EXCEPT ![r] = l], op' = [op EXCEPT ![r] = o]
          PROVE  Sweeps(q)'
      <3>1. pc'[q] = pc[q] /\ op'[q] = op[q]
        BY <1>1, <2>1
      <3> QED
        BY <1>5, <1>8, <2>1, <3>1
    <2>2. ASSUME Sweeps(r)', \A q \in Runners \ {r} : Sweeps(q)', job'.st # "none" => resets' > 0
          PROVE  Swept'
      BY <2>2 DEF Swept
    <2>3. CASE Claim(r)
      <3> DEFINE n == IF opened = resets THEN resets ELSE 0
      <3>1. /\ job'.st = "sending" /\ job'.by = r /\ job.st = "pending"
            /\ UNCHANGED <<opened, resets>>
        BY <1>1, <2>3 DEF Claim, Jobs
      <3>2. op'[r] = [NoOp EXCEPT !.kind = "recover", !.cutoff = n] /\ pc'[r] = "list"
        BY <1>1, <2>3 DEF Claim, Goto
      <3>3. op'[r].phase = 1 /\ op'[r].cutoff = n
        BY <3>2 DEF NoOp
      <3>4. Sweeps(r)'
        BY <3>1, <3>2, <3>3 DEF Sweeps
      <3>5. \A q \in Runners \ {r} : Sweeps(q)'
        BY <1>6, <3>1
      <3> QED
        BY <1>9, <2>2, <3>1, <3>4, <3>5
    <2>4. CASE List(r)
      <3>1. pc[r] = "list" /\ UNCHANGED <<job, opened, resets, withdrawn>>
        BY <2>4 DEF List, history
      <3>2. op[r].phase \in Nat /\ op[r] \in OpRecords
        BY <1>1 DEF OpRecords
      <3>3. /\ \A q \in Runners \ {r} : pc'[q] = pc[q] /\ op'[q] = op[q]
        BY <1>1, <2>4 DEF List, Goto
      <3>4. ASSUME NEW q \in Runners \ {r} PROVE Sweeps(q)'
        BY <1>5, <1>8, <3>1, <3>3
      <3>5. CASE pc'[r] = "rfail"
        BY <1>7, <1>9, <2>2, <3>1, <3>4, <3>5
      <3>6. CASE op[r].phase = 3 /\ pc'[r] = "barrier" /\ op' = op
        <4> SUFFICES ASSUME Holds(r)' PROVE Sweeps(r)'
          BY <1>9, <2>2, <3>1, <3>4 DEF Sweeps
        <4>1. Holds(r) /\ Sweeps(r)
          BY <1>8, <3>1 DEF Holds
        <4> QED
          BY <3>1, <3>6, <4>1 DEF Sweeps
      <3>7. CASE pc'[r] = "list" /\ op' = op
        BY <1>5, <1>8, <1>9, <2>2, <3>1, <3>4, <3>7
      <3>8. CASE /\ op[r].phase # 3 /\ Listed(r) = {}
                 /\ op' = [op EXCEPT ![r].phase = @ + 1]
                 /\ pc'[r] = IF op[r].phase = 5 THEN "rdone" ELSE "list"
        <4> SUFFICES ASSUME Holds(r)' PROVE Sweeps(r)'
          BY <1>9, <2>2, <3>1, <3>4 DEF Sweeps
        <4>1. Holds(r) /\ Sweeps(r)
          BY <1>8, <3>1 DEF Holds
        <4>2. /\ op[r].cutoff = IF opened = resets THEN resets ELSE 0
              /\ op[r].phase \in {1, 2, 4, 5}
              /\ op[r].phase >= 4 => Cleared
              /\ op[r].phase >= 5 => \A c \in Secrets : row[c].st = "active" => Done(c)
          BY <3>1, <3>8, <4>1 DEF Sweeps
        <4>3. op'[r].phase = op[r].phase + 1 /\ op'[r].cutoff = op[r].cutoff
          <5>1. op'[r] = [op[r] EXCEPT !.phase = op[r].phase + 1]
            BY <1>1, <3>8
          <5> QED
            BY <3>2, <5>1 DEF OpRecords
        <4>4. ASSUME NEW c \in Secrets, row[c].st = ListedStatus(r) PROVE Done(c)
          <5>1. Spared(r, c)
            BY <3>8, <4>4 DEF Listed
          <5>2. row[c].late \in Nat /\ row[c].late <= opened
            BY <1>1 DEF RowsAreDated, Types, Rows
          <5> QED
            BY <1>1, <4>2, <5>1, <5>2 DEF Spared, Done, Kept
        <4>5. op[r].phase >= 4 => Cleared'
          BY <1>4, <3>1, <4>2
        <4>6. op[r].phase >= 4 => \A c \in Secrets : row[c].st = "active" => Done(c)
          BY <4>2, <4>4 DEF ListedStatus
        <4>7. op[r].phase = 5 => \A c \in Secrets : Live(c) => Done(c)
          BY <4>2, <4>4, <4>6 DEF ListedStatus, Live
        <4>8. \A c \in Secrets : (Done(c) => Done(c)') /\ (Live(c)' = Live(c))
          BY <1>3, <3>1 DEF Done, Kept, Live
        <4>9. op'[r].phase \in 1..6 /\ (op'[r].phase = 6 <=> op[r].phase = 5)
              /\ (op'[r].phase >= 5 => op[r].phase >= 4) /\ (op'[r].phase >= 4 => op[r].phase >= 4)
          BY <4>2, <4>3
        <4> QED
          BY <1>3, <3>1, <3>8, <4>2, <4>3, <4>5, <4>6, <4>7, <4>8, <4>9 DEF Sweeps
      <3> QED
        <4>1. pc' = [pc EXCEPT ![r] = pc'[r]]
          BY <1>1, <2>4 DEF List, Goto
        <4> QED
          BY <1>1, <2>4, <3>1, <3>5, <3>6, <3>7, <3>8 DEF List, Goto
    <2>5. CASE RevokeNext(r)
      <3>1. /\ pc[r] = "list" /\ pc' = [pc EXCEPT ![r] = "key"]
            /\ UNCHANGED <<job, opened, resets, withdrawn>>
        BY <2>5 DEF RevokeNext, history, Goto
      <3>2. PICK c \in todo[r] :
              op' = [op EXCEPT ![r] = [NoOp EXCEPT !.kind = "recover", !.target = c,
                                       !.phase = op[r].phase, !.cutoff = op[r].cutoff]]
        BY <2>5 DEF RevokeNext
      <3>3. op'[r].phase = op[r].phase /\ op'[r].cutoff = op[r].cutoff
        BY <1>1, <3>2 DEF NoOp
      <3>4. pc'[r] = "key"
        BY <1>1, <3>1
      <3>5. Sweeps(r)'
        BY <1>5, <1>8, <3>1, <3>3, <3>4
      <3> QED
        BY <1>9, <2>1, <2>2, <3>1, <3>2, <3>5
    <2>6. CASE Barrier(r)
      <3>1. pc[r] = "barrier" /\ UNCHANGED <<job, opened, resets, withdrawn, lease>>
        BY <2>6 DEF Barrier, history, outside, recovery
      <3>2. /\ \A q \in Runners \ {r} : pc'[q] = pc[q] /\ op'[q] = op[q]
        BY <1>1, <2>6 DEF Barrier, Goto
      <3>3. ASSUME NEW q \in Runners \ {r} PROVE Sweeps(q)'
        BY <1>5, <1>8, <3>1, <3>2
      <3>4. CASE pc'[r] = "rfail"
        BY <1>7, <1>9, <2>2, <3>1, <3>3, <3>4
      <3>5. CASE lease = NoProc /\ op' = [op EXCEPT ![r].phase = 4] /\ pc'[r] = "list"
        <4> SUFFICES ASSUME Holds(r)' PROVE Sweeps(r)'
          BY <1>9, <2>2, <3>1, <3>3 DEF Sweeps
        <4>1. Holds(r) /\ Sweeps(r)
          BY <1>8, <3>1 DEF Holds
        <4>2. op'[r].phase = 4 /\ op'[r].cutoff = op[r].cutoff
          BY <1>1, <3>5 DEF OpRecords
        <4>3. Cleared'
          BY <1>1, <3>1, <3>5 DEF Cleared
        <4> QED
          BY <3>1, <3>5, <4>1, <4>2, <4>3 DEF Sweeps
      <3> QED
        BY <1>1, <2>6, <3>4, <3>5 DEF Barrier, Goto
    <2>7. CASE Finish(r)
      <3>1. UNCHANGED <<opened, resets, withdrawn, op>>
        BY <2>7 DEF Finish, history
      <3>2. CASE job' = NoJob
        BY <1>6, <2>2, <3>2 DEF NoJob
      <3>3. CASE UNCHANGED job /\ Goto(r, "rfail")
        <4>1. pc' = [pc EXCEPT ![r] = "rfail"] /\ op' = [op EXCEPT ![r] = op[r]] /\ pc'[r] = "rfail"
          BY <1>1, <3>1, <3>3 DEF Goto
        <4> QED
          BY <1>7, <1>9, <2>1, <2>2, <3>1, <3>3, <4>1
      <3> QED
        BY <2>7, <3>2, <3>3 DEF Finish
    <2>8. CASE Fail(r)
      <3>1. /\ pc' = [pc EXCEPT ![r] = "idle"] /\ op' = [op EXCEPT ![r] = NoOp]
            /\ UNCHANGED <<resets, withdrawn>> /\ pc'[r] = "idle"
        BY <1>1, <2>8 DEF Fail, Goto, history
      <3>2. CASE job' = [job EXCEPT !.st = "pending"] /\ Holds(r)
        <4>1. job'.st = "pending" /\ job.st = "sending"
          BY <1>1, <3>2 DEF Jobs, Holds
        <4> QED
          BY <1>6, <1>9, <2>2, <3>1, <4>1
      <3>3. CASE UNCHANGED <<job, opened>>
        BY <1>7, <1>9, <2>1, <2>2, <3>1, <3>3
      <3> QED
        BY <2>8, <3>2, <3>3 DEF Fail
    <2> QED
      BY <1>15, <2>3, <2>4, <2>5, <2>6, <2>7, <2>8 DEF RunnerStep
  <1> QED
    BY <1>10, <1>11, <1>12, <1>13, <1>14, <1>15 DEF OutsideStep

SweptInv == Typed /\ NotItself /\ TargetIsLive /\ RowsAreDated /\ Swept

(* When a runner deletes the job of a recovery, every row that is live is  *)
(* of after the reset, or was taken back from a retirement since: the two  *)
(* sweeps with the section's barrier between them miss nothing else,       *)
(* however requests, failed writes, stale claims and crashes fall between. *)
THEOREM RecoveryIsComplete == Spec => RecoveryRevokesAll
  <1>1. Init => SweptInv
    <2> SUFFICES ASSUME Init PROVE SweptInv
      OBVIOUS
    <2>1. Typed
      BY InitTyped
    <2>2. /\ lease = NoProc /\ NoProc \notin Procs /\ job = NoJob /\ op = [p \in Procs |-> NoOp]
          /\ opened = 0 /\ Ops \subseteq Procs
      BY CredentialsAssumption DEF Init, Procs
    <2>3. NotItself
      BY <2>2 DEF NotItself, NoOp
    <2>4. TargetIsLive
      BY <2>2 DEF TargetIsLive
    <2>5. Swept
      BY <2>2 DEF Swept, Sweeps, Holds, NoJob
    <2>6. RowsAreDated
      <3>1. \A c \in Secrets : row[c].late = 0
        BY DEF Init, NoRow
      <3> QED
        BY <2>2, <3>1 DEF RowsAreDated
    <2> QED
      BY <2>1, <2>3, <2>4, <2>5, <2>6 DEF SweptInv
  <1>2. SweptInv /\ [Next]_vars => SweptInv'
    <2> SUFFICES ASSUME SweptInv, [Next]_vars PROVE SweptInv'
      OBVIOUS
    <2>1. Typed /\ NotItself /\ TargetIsLive /\ RowsAreDated /\ Swept
      BY DEF SweptInv
    <2>2. Swept'
      BY <2>1, NextIs, SectionSwept, OutsideSwept
    <2> QED
      BY <2>1, <2>2, NextTyped, NotItselfStep, TargetIsLiveStep, RowsAreDatedStep DEF SweptInv
  <1>3. SweptInv /\ [Next]_vars => [SettlesRecovery => \A c \in LiveRows \ withdrawn : Kept(c)]_vars
    <2> SUFFICES ASSUME SweptInv, [Next]_vars, SettlesRecovery, NEW c \in LiveRows \ withdrawn
                 PROVE  Kept(c)
      OBVIOUS
    <2>1. WellFormed /\ Types /\ Swept /\ job \in Jobs
      BY DEF SweptInv, Typed, WellFormed, Types
    <2>2. PICK r \in Runners : Finish(r) /\ Holds(r)
      <3>1. job' # job /\ job'.st = "none" /\ job.st = "sending"
        BY DEF SettlesRecovery
      <3>2. OutsideStep
        BY <2>1, <3>1, NextIs, SectionMoves DEF Moves
      <3>3. \E r \in Runners : RunnerStep(r)
        <4>1. ~ ReleaseStale
          <5> SUFFICES ASSUME ReleaseStale PROVE FALSE
            OBVIOUS
          <5>1. job' = [job EXCEPT !.st = "pending", !.by = NoProc]
            BY DEF ReleaseStale
          <5> QED
            BY <2>1, <3>1, <5>1 DEF Jobs
        <4>2. ~ Reset
          BY <3>1 DEF Reset
        <4> QED
          BY <3>1, <3>2, <4>1, <4>2 DEF OutsideStep, Begin, Enter, Crash, Disable, Enable, outside,
             recovery, vars
      <3>4. PICK r \in Runners : RunnerStep(r)
        BY <3>3
      <3>5. ~ Claim(r)
        BY <3>1 DEF Claim
      <3>6. ~ Fail(r)
        <4> SUFFICES ASSUME Fail(r) PROVE FALSE
          OBVIOUS
        <4>1. job' = [job EXCEPT !.st = "pending"]
          BY <3>1 DEF Fail
        <4> QED
          BY <2>1, <3>1, <4>1 DEF Jobs
      <3>7. Finish(r)
        BY <3>1, <3>4, <3>5, <3>6 DEF RunnerStep, List, RevokeNext, Barrier, outside, recovery
      <3> QED
        BY <3>1, <3>7 DEF Finish
    <2>3. pc[r] = "rdone" /\ Sweeps(r)
      BY <2>1, <2>2 DEF Finish, Swept
    <2>4. Done(c)
      BY <2>2, <2>3 DEF Sweeps, LiveRows
    <2> QED
      BY <2>4 DEF Done
  <1> QED
    BY <1>1, <1>2, <1>3, PTL DEF Spec, RecoveryRevokesAll

-----------------------------------------------------------------------------
(* Rows and entries.  As long as no rollback was noted and no operation    *)
(* died, and unless a wipe left rows behind, what the rows say can be      *)
(* traced to the array.                                                    *)
Traceable == ~ emptied /\ noted = {} /\ blind = {}

(* A recovery does not give up placing a key of a type that reads show and *)
(* empty the type instead.                                                 *)
NeverFallsBack == shown => \A r \in Runners : ~ op[r].whole

Dead == LiveRows \ Working
Exact == Working = LiveRows

(* What holds between two sections: every secret has its row, and a row    *)
(* without a secret is retiring; of basicauth, some row is.                *)
Steady ==
    /\ Working \subseteq LiveRows
    /\ shown => Dead \subseteq Retiring
    /\ ~ shown /\ Retiring = {} => Dead = {}

(* The array is in the order of the ordinals. *)
Precedes(c, d) == row[c].ord < row[d].ord \/ (row[c].ord = 0 /\ row[d].ord = 0)
Sorted ==
    \A i, j \in DOMAIN entries :
      i < j /\ Live(entries[i]) /\ Live(entries[j]) => Precedes(entries[i], entries[j])

Placed(p) == op[p].pos \in DOMAIN entries /\ entries[op[p].pos] = op[p].target
IsLast(p) == Len(entries) \in DOMAIN entries /\ entries[Len(entries)] = p
HasLength(n) == shown => Len(entries) = n

(* The awaits between which the two are one step apart at most, and those  *)
(* of an append that is being taken back, which ends with a note.          *)
Calm == {"check", "get", "settle", "place", "gate", "intent", "delete", "probe", "unretire",
         "retired", "close", "unpend", "wipe"}
TakingBack == {"reclaim", "withdraw", "reread", "unlist", "reactivate", "note"}

Entered(p) ==
    /\ pc[p] \in Calm => Steady
    /\ pc[p] \notin TakingBack => Sorted
    /\ pc[p] = "settle" =>
         /\ shown /\ Retiring \cap Working = {} /\ HasLength(op[p].len)
         /\ Cardinality(LiveRows) = Len(entries) + 1
    /\ pc[p] = "place" =>
         HasLength(op[p].len) /\ ~ (shown /\ entries = <<>> /\ Cardinality(LiveRows) = 1)
    /\ pc[p] = "gate" =>
         /\ HasLength(op[p].len) /\ ~ op[p].whole
         /\ ~ shown => Exact
         /\ op[p].kind = "rotate" => Exact /\ Placed(p)
Retires(p) ==
    /\ pc[p] \in {"intent", "delete"} =>
         /\ IF op[p].whole THEN ~ shown /\ op[p].kind # "rotate" ELSE Exact /\ Placed(p)
         /\ AppendFirst(p) => IsLast(p) /\ HasLength(op[p].len + 1) /\ ~ op[p].whole
         /\ ~ AppendFirst(p) => HasLength(op[p].len)
    /\ pc[p] = "delete" =>
         op[p].target \in Retiring /\ (AppendFirst(p) => op[p].why = "swap")
    /\ pc[p] = "probe" => (HasLength(op[p].len) /\ shown => op[p].target \in Working)
    /\ pc[p] = "unretire" => shown /\ op[p].target \in Working
    /\ pc[p] = "retired" =>
         op[p].target \notin Working /\ Dead \subseteq {op[p].target} /\ HasLength(op[p].len - 1)
         /\ ~ op[p].whole
    /\ pc[p] = "close" /\ op[p].whole => Working = {}
    /\ pc[p] = "close" /\ ~ op[p].whole =>
         op[p].target \notin Working /\ (op[p].target \in LiveRows => Dead \subseteq {op[p].target})
    /\ pc[p] = "rotated" =>
         /\ op[p].target \notin Working
         /\ Working \subseteq LiveRows /\ Dead \subseteq {op[p].target}
Appends(p) ==
    /\ pc[p] \in {"pend", "append", "mirror"} =>
         /\ Working \ {p} \subseteq LiveRows /\ ~ op[p].whole
         /\ shown => Dead \subseteq Retiring
         /\ ~ shown \/ AppendFirst(p) => Dead \subseteq {p}
         /\ AppendFirst(p) => Placed(p)
    /\ pc[p] = "append" =>
         /\ HasLength(AppendIndex(p))
         /\ ~ shown => p \in Retiring /\ \A c \in Working : row[c].ord < row[p].ord
    /\ pc[p] = "mirror" => IsLast(p) /\ HasLength(AppendIndex(p) + 1) /\ (~ shown => p \in LiveRows)
    /\ pc[p] = "unpend" => ~ shown /\ p \notin Working /\ Dead \subseteq {p}
TakesBack(p) ==
    /\ pc[p] \in TakingBack =>
         /\ Working \ {p} \subseteq LiveRows /\ (~ shown => Working \subseteq LiveRows)
         /\ p \in Working => row[p].st # "revoked"
    /\ pc[p] \in {"reclaim", "withdraw"} /\ shown /\ Len(entries) = AppendIndex(p) + 1 => IsLast(p)
    /\ pc[p] = "reclaim" /\ op[p].why = "post" =>
         /\ shown /\ Sorted /\ Dead \subseteq Retiring
         /\ Len(entries) = AppendIndex(p) => p \notin Working
    /\ pc[p] \in {"withdraw", "reread", "unlist", "reactivate"} => shown

InSection(p) == Entered(p) /\ Retires(p) /\ Appends(p) /\ TakesBack(p)
Mirrored ==
    Traceable =>
      /\ lease = NoProc => Steady /\ Sorted
      /\ \A p \in Procs : lease = p => InSection(p)

(* A secret is handed out at the end of its operation. *)
HandedOut == \A p \in Ops : p \in delivered => pc[p] = "done"

-----------------------------------------------------------------------------
(* An array that holds everything once is as long as what it holds. *)
LEMMA ArrayCount ==
  ASSUME Typed, NEW m \in Nat, m <= Len(entries)
  PROVE  /\ IsFiniteSet({entries[j] : j \in 1..m})
         /\ Cardinality({entries[j] : j \in 1..m}) = m
  <1> DEFINE T == {entries[j] : j \in 1..m}
             f == [j \in 1..m |-> entries[j]]
  <1>1. /\ entries \in Seq(Secrets) /\ Len(entries) \in Nat /\ DOMAIN entries = 1..Len(entries)
        /\ \A i, j \in DOMAIN entries : entries[i] = entries[j] => i = j
    BY LenProperties DEF Typed, WellFormed, Types, Array
  <1>2. 1..m \subseteq DOMAIN entries
    BY <1>1
  <1>3. f \in Surjection(1..m, T)
    BY DEF Surjection
  <1>4. f \in Injection(1..m, T)
    BY <1>1, <1>2 DEF Injection, IsInjective
  <1>5. IsFiniteSet(1..m) /\ Cardinality(1..m) = m
    <2>1. 1 \in Int /\ m \in Int
      OBVIOUS
    <2>2. IsFiniteSet(1..m) /\ Cardinality(1..m) = IF 1 > m THEN 0 ELSE m - 1 + 1
      BY <2>1, FS_Interval
    <2> QED
      BY <2>2
  <1> HIDE DEF f, T
  <1>6. IsFiniteSet(T) /\ (Cardinality(T) = Cardinality(1..m) <=> f \in Injection(1..m, T))
    BY <1>3, <1>5, FS_Surjection
  <1>7. IsFiniteSet(T) /\ Cardinality(T) = m
    BY <1>4, <1>5, <1>6
  <1> QED
    BY <1>7 DEF T

LEMMA WorkingCount ==
  ASSUME Typed
  PROVE  /\ IsFiniteSet(Working) /\ Cardinality(Working) = Len(entries)
         /\ IsFiniteSet(LiveRows) /\ Cardinality(LiveRows) \in Nat
         /\ Len(entries) \in Nat /\ Working \subseteq Secrets
         /\ entries = <<>> <=> Working = {}
  <1>1. /\ entries \in Seq(Secrets) /\ Len(entries) \in Nat /\ DOMAIN entries = 1..Len(entries)
    BY LenProperties DEF Typed, WellFormed, Types
  <1>2. Working = {entries[j] : j \in 1..Len(entries)} /\ Working \subseteq Secrets
    BY <1>1 DEF Working
  <1>3. IsFiniteSet(Working) /\ Cardinality(Working) = Len(entries)
    <2> DEFINE m == Len(entries)
    <2>1. m \in Nat /\ m <= Len(entries)
      BY <1>1
    <2>2. /\ IsFiniteSet({entries[j] : j \in 1..m})
          /\ Cardinality({entries[j] : j \in 1..m}) = m
      BY <2>1, ArrayCount
    <2> QED
      BY <1>2, <2>2
  <1>4. LiveRows \subseteq Secrets
    BY DEF LiveRows
  <1>5. entries = <<>> <=> Working = {}
    <2>1. Working = {} <=> Len(entries) = 0
      BY <1>3, FS_EmptySet
    <2> QED
      BY <1>1, <2>1, EmptySeq
  <1> QED
    BY <1>1, <1>2, <1>3, <1>4, <1>5, FiniteRows

(* Rows that are as many as the entries, or known not to be more, are the  *)
(* entries' own.                                                           *)
LEMMA AlignedIsExact ==
  ASSUME Typed, Working \subseteq LiveRows, Cardinality(LiveRows) = Len(entries)
  PROVE  Exact
  BY WorkingCount, FS_Subset DEF Exact

(* Then the index of a row that is not one of several without an ordinal   *)
(* is the position of its entry.                                           *)
LEMMA IndexIsPosition ==
  ASSUME Typed, Sorted, Exact, NEW t \in LiveRows, ~ Ambiguous(t)
  PROVE  Index(t) \in DOMAIN entries /\ entries[Index(t)] = t
  <1>1. /\ entries \in Seq(Secrets) /\ Len(entries) \in Nat /\ DOMAIN entries = 1..Len(entries)
        /\ \A i, j \in DOMAIN entries : entries[i] = entries[j] => i = j
        /\ \A c \in Secrets : row[c].ord \in Nat
        /\ t \in Secrets
    BY LenProperties DEF Typed, WellFormed, Types, Array, Rows, LiveRows
  <1>2. PICK k \in DOMAIN entries : entries[k] = t
    BY DEF Exact, Working
  <1>3. ASSUME NEW j \in DOMAIN entries
        PROVE  entries[j] \in LiveRows /\ Live(entries[j]) /\ entries[j] \in Secrets
    BY DEF Exact, Working, LiveRows
  <1> DEFINE S == {d \in LiveRows : row[d].ord < row[t].ord}
             T == {entries[j] : j \in 1..(k - 1)}
  <1>4. ASSUME NEW j \in 1..(k - 1) PROVE entries[j] \in S
    <2>1. j \in DOMAIN entries /\ j < k
      BY <1>1
    <2>2. Precedes(entries[j], t)
      BY <1>2, <1>3, <2>1 DEF Sorted
    <2>3. entries[j] # t
      BY <1>1, <1>2, <2>1
    <2>4. ~ (row[entries[j]].ord = 0 /\ row[t].ord = 0)
      BY <1>3, <2>1, <2>3 DEF Ambiguous
    <2> QED
      BY <1>3, <2>1, <2>2, <2>4 DEF Precedes
  <1>5. ASSUME NEW d \in S PROVE d \in T
    <2>1. PICK j \in DOMAIN entries : entries[j] = d
      BY DEF Exact, Working
    <2>2. j < k
      <3> SUFFICES ASSUME ~ (j < k) PROVE FALSE
        OBVIOUS
      <3>1. row[d].ord < row[t].ord /\ d \in Secrets
        BY <1>3, <2>1
      <3>2. j # k
        BY <1>1, <1>2, <2>1, <3>1
      <3>3. k < j
        BY <1>1, <3>2
      <3>4. Precedes(t, d)
        BY <1>2, <1>3, <2>1, <3>3 DEF Sorted
      <3> QED
        BY <1>1, <3>1, <3>4 DEF Precedes
    <2> QED
      BY <1>1, <2>1, <2>2
  <1>6. S = T
    BY <1>4, <1>5
  <1>7. Cardinality(T) = k - 1
    <2>1. k - 1 \in Nat /\ k - 1 <= Len(entries)
      BY <1>1
    <2> QED
      BY <2>1, ArrayCount
  <1>8. Index(t) = k
    <2>1. Index(t) = 1 + Cardinality(S)
      BY DEF Index
    <2> HIDE DEF S, T
    <2> QED
      BY <1>1, <1>6, <1>7, <2>1
  <1> QED
    BY <1>2, <1>8

LEMMA NextOrdinalTops ==
  ASSUME Types, Numbered, NEW c \in Secrets
  PROVE  row[c].ord < NextOrdinal
  <1>1. Cardinality(Secrets) \in Nat /\ Cardinality(CanMint) \in Nat
    <2>1. CanMint \subseteq Secrets
      BY DEF CanMint, Secrets
    <2> QED
      BY <2>1, FiniteRows
  <1>2. \A d \in Secrets : row[d].ord \in Nat /\ row[d].ord <= Cardinality(Secrets)
    BY <1>1 DEF Numbered, Types, Rows
  <1> DEFINE T == {row[d].ord : d \in Secrets}
  <1>3. T \subseteq Nat /\ T # {} /\ \A k \in T : k <= Cardinality(Secrets)
    BY <1>2
  <1>4. \E m \in T : \A k \in T : k <= m
    BY <1>1, <1>3, LargestExists
  <1>5. \E m \in T : \A d \in Secrets : row[d].ord <= m
    BY <1>4
  <1> DEFINE o == CHOOSE m \in T : \A d \in Secrets : row[d].ord <= m
  <1>6. o \in T /\ \A d \in Secrets : row[d].ord <= o
    BY <1>5
  <1>7. NextOrdinal = 1 + o
    BY DEF NextOrdinal
  <1> HIDE DEF o
  <1> QED
    BY <1>2, <1>3, <1>6, <1>7

-----------------------------------------------------------------------------
(* What the writes do to the rows that count. *)
Keeps == \A c \in LiveRows' \cap Working : c \in LiveRows /\ row'[c].ord = row[c].ord

LEMMA Retire ==
  ASSUME Types, NEW t \in LiveRows, SetStatus(t, "retiring")
  PROVE  LiveRows' = LiveRows /\ Retiring' = Retiring \cup {t} /\ Keeps
  <1>1. "retiring" \in States /\ t \in Secrets
    BY DEF States, LiveRows
  <1>2. \A c \in Secrets : IF c = t THEN Becomes(c, "retiring") ELSE row'[c] = row[c]
    BY <1>1, SetStatusIs DEF SetStatus
  <1> QED
    BY <1>1, <1>2 DEF LiveRows, Live, Retiring, Becomes, Keeps

LEMMA Revoke ==
  ASSUME Types, NEW t, SetStatus(t, "revoked")
  PROVE  LiveRows' = LiveRows \ {t} /\ Retiring' = Retiring \ {t} /\ Keeps
  <1>1. "revoked" \in States
    BY DEF States
  <1>2. \A c \in Secrets : IF c = t THEN Becomes(c, "revoked") ELSE row'[c] = row[c]
    BY <1>1, SetStatusIs DEF SetStatus
  <1> QED
    BY <1>2 DEF LiveRows, Live, Retiring, Becomes, Keeps

LEMMA Activate ==
  ASSUME Types, NEW t \in Secrets, SetStatus(t, "active")
  PROVE  LiveRows' = LiveRows \cup {t} /\ \A c \in Secrets : row'[c].st = "revoked" => row[c].st = "revoked"
  <1>1. "active" \in States
    BY DEF States
  <1>2. \A c \in Secrets : IF c = t THEN Becomes(c, "active") ELSE row'[c] = row[c]
    BY <1>1, SetStatusIs DEF SetStatus
  <1> QED
    BY <1>1, <1>2 DEF LiveRows, Live, Becomes

LEMMA Unretire ==
  ASSUME Types, NEW t, row' = [row EXCEPT ![t].st = IF @ = "retiring" THEN "active" ELSE @]
  PROVE  LiveRows' = LiveRows /\ Retiring' = Retiring \ {t} /\ Keeps
         /\ \A c \in Secrets : row'[c].st = "revoked" => row[c].st = "revoked"
  <1> DEFINE s == IF row[t].st = "retiring" THEN "active" ELSE row[t].st
  <1>1. row' = [row EXCEPT ![t].st = s]
    OBVIOUS
  <1>2. CASE t \in Secrets
    <2>1. s \in States
      BY <1>2 DEF Types, Rows, States
    <2> HIDE DEF s
    <2>2. \A c \in Secrets : IF c = t THEN Becomes(c, s) ELSE row'[c] = row[c]
      BY <1>1, <2>1, SetStatusIs
    <2> QED
      BY <2>2 DEF LiveRows, Live, Retiring, Becomes, Keeps, s
  <1>3. CASE t \notin Secrets
    <2>1. row' = row
      BY <1>1, <1>3 DEF Types
    <2> QED
      BY <1>3, <2>1 DEF LiveRows, Live, Retiring, Keeps
  <1> QED
    BY <1>2, <1>3

LEMMA RevokeEvery ==
  ASSUME Types, RevokeAll
  PROVE  LiveRows' = {} /\ Retiring' = {} /\ Keeps
  <1>1. \A c \in Secrets : IF Live(c) THEN Becomes(c, "revoked") ELSE row'[c] = row[c]
    BY RevokeAllIs
  <1> QED
    BY <1>1 DEF LiveRows, Live, Retiring, Becomes, Keeps

LEMMA Unmint ==
  ASSUME Types, NEW p \in Secrets, row' = [row EXCEPT ![p] = NoRow]
  PROVE  LiveRows' = LiveRows \ {p} /\ Retiring' = Retiring \ {p} /\ Keeps
         /\ \A c \in Secrets : row'[c].st = "revoked" => row[c].st = "revoked"
  <1>1. \A c \in Secrets : row'[c] = IF c = p THEN NoRow ELSE row[c]
    BY DEF Types
  <1> QED
    BY <1>1 DEF LiveRows, Live, Retiring, Keeps, NoRow

LEMMA Mint ==
  ASSUME Typed, NEW p \in Secrets, NEW s \in {"active", "retiring"}, NewRow(p, s)
  PROVE  /\ LiveRows' = LiveRows \cup {p}
         /\ Retiring' = IF s = "retiring" THEN Retiring \cup {p} ELSE Retiring \ {p}
         /\ row'[p].st = s
         /\ \A c \in Secrets \ {p} : row'[c] = row[c] /\ row'[c].ord < row'[p].ord
         /\ p \notin Working => Keeps
  <1>1. Types /\ Numbered /\ s \in States
    BY DEF Typed, WellFormed, States
  <1>2. row'[p].st = s /\ \A d \in Secrets : d # p => row'[d] = row[d]
    BY <1>1, NewRowIs
  <1>3. row'[p].ord = NextOrdinal
    BY <1>1 DEF NewRow, Types
  <1>4. \A c \in Secrets : row[c].ord < NextOrdinal
    BY <1>1, NextOrdinalTops
  <1> QED
    BY <1>2, <1>3, <1>4 DEF LiveRows, Live, Retiring, Keeps

LEMMA NothingWritten ==
  ASSUME row' = row
  PROVE  LiveRows' = LiveRows /\ Retiring' = Retiring /\ Keeps
  BY DEF LiveRows, Live, Retiring, Keeps

(* What the gateway's calls do to the array. *)
LEMMA TakeOut ==
  ASSUME Typed, NEW i \in DOMAIN entries, entries' = Without(i)
  PROVE  /\ Working' = Working \ {entries[i]} /\ Len(entries') = Len(entries) - 1
         /\ Len(entries) \in Nat \ {0}
  <1>1. /\ entries \in Seq(Secrets) /\ Len(entries) \in Nat /\ DOMAIN entries = 1..Len(entries)
        /\ \A k, j \in DOMAIN entries : entries[k] = entries[j] => k = j
    BY LenProperties DEF Typed, WellFormed, Types, Array
  <1>2. /\ Without(i) \in Seq(Secrets) /\ Len(Without(i)) = Len(entries) - 1
        /\ \A j \in 1..(Len(entries) - 1) : Without(i)[j] = entries[IF j < i THEN j ELSE j + 1]
    BY <1>1, WithoutIs
  <1>3. DOMAIN entries' = 1..(Len(entries) - 1)
    BY <1>2, LenProperties
  <1>4. ASSUME NEW j \in DOMAIN entries' PROVE entries'[j] \in Working \ {entries[i]}
    <2> DEFINE k == IF j < i THEN j ELSE j + 1
    <2>1. k \in DOMAIN entries /\ k # i
      BY <1>1, <1>3
    <2>2. entries'[j] = entries[k]
      BY <1>2, <1>3
    <2> HIDE DEF k
    <2> QED
      BY <1>1, <2>1, <2>2 DEF Working
  <1>5. ASSUME NEW j \in DOMAIN entries, j # i PROVE entries[j] \in Working'
    <2>1. CASE j < i
      <3>1. j \in DOMAIN entries' /\ entries'[j] = entries[j]
        BY <1>1, <1>2, <1>3, <2>1
      <3> QED
        BY <3>1 DEF Working
    <2>2. CASE i < j
      <3>1. j - 1 \in DOMAIN entries' /\ entries'[j - 1] = entries[j]
        BY <1>1, <1>2, <1>3, <2>2
      <3> QED
        BY <3>1 DEF Working
    <2> QED
      BY <1>1, <1>5, <2>1, <2>2
  <1> QED
    BY <1>1, <1>2, <1>4, <1>5 DEF Working

LEMMA PutLast ==
  ASSUME Typed, NEW p \in Secrets, entries' = Append(entries, p)
  PROVE  /\ Working' = Working \cup {p} /\ Len(entries') = Len(entries) + 1 /\ IsLast(p)'
         /\ DOMAIN entries = 1..Len(entries) /\ DOMAIN entries' = 1..(Len(entries) + 1)
         /\ Len(entries) \in Nat /\ entries'[Len(entries) + 1] = p
         /\ \A i \in DOMAIN entries : i \in DOMAIN entries' /\ entries'[i] = entries[i]
  <1>1. /\ entries \in Seq(Secrets) /\ Len(entries) \in Nat /\ DOMAIN entries = 1..Len(entries)
    BY LenProperties DEF Typed, WellFormed, Types
  <1>2. /\ entries' \in Seq(Secrets) /\ Len(entries') = Len(entries) + 1
        /\ \A i \in 1..Len(entries) : entries'[i] = entries[i]
        /\ entries'[Len(entries) + 1] = p
    BY <1>1, AppendProperties
  <1>3. DOMAIN entries' = 1..(Len(entries) + 1)
    BY <1>2, LenProperties
  <1> QED
    BY <1>1, <1>2, <1>3 DEF Working, IsLast

LEMMA SortedKept ==
  ASSUME Typed, Sorted, Keeps, entries' = entries \/ \E i \in DOMAIN entries : entries' = Without(i)
  PROVE  Sorted'
  <1>1. /\ entries \in Seq(Secrets) /\ Len(entries) \in Nat /\ DOMAIN entries = 1..Len(entries)
        /\ \A j \in DOMAIN entries : entries[j] \in Secrets
    BY LenProperties DEF Typed, WellFormed, Types
  <1>2. ASSUME NEW c \in Working, Live(c)' PROVE Live(c) /\ row'[c].ord = row[c].ord
    <2>1. c \in LiveRows' \cap Working
      BY <1>1, <1>2 DEF LiveRows, Working
    <2> QED
      BY <2>1 DEF Keeps, LiveRows
  <1>3. CASE entries' = entries
    BY <1>2, <1>3 DEF Sorted, Precedes, Working
  <1>4. ASSUME NEW i \in DOMAIN entries, entries' = Without(i) PROVE Sorted'
    <2>1. /\ Without(i) \in Seq(Secrets) /\ Len(Without(i)) = Len(entries) - 1
          /\ \A j \in 1..(Len(entries) - 1) : Without(i)[j] = entries[IF j < i THEN j ELSE j + 1]
      BY <1>1, WithoutIs
    <2>2. DOMAIN entries' = 1..(Len(entries) - 1)
      BY <1>4, <2>1, LenProperties
    <2> SUFFICES ASSUME NEW k \in DOMAIN entries', NEW j \in DOMAIN entries', k < j,
                        Live(entries[k])', Live(entries[j])'
                 PROVE  Precedes(entries[k], entries[j])'
      BY DEF Sorted
    <2>3. PICK k1 \in DOMAIN entries, j1 \in DOMAIN entries :
            k1 < j1 /\ entries'[k] = entries[k1] /\ entries'[j] = entries[j1]
      <3> DEFINE u == IF k < i THEN k ELSE k + 1
                 v == IF j < i THEN j ELSE j + 1
      <3>1. u \in DOMAIN entries /\ v \in DOMAIN entries /\ u < v
        BY <1>1, <2>2
      <3>2. entries'[k] = entries[u] /\ entries'[j] = entries[v]
        BY <1>4, <2>1, <2>2
      <3> HIDE DEF u, v
      <3> QED
        BY <3>1, <3>2
    <2>4. /\ entries[k1] \in Working /\ entries[j1] \in Working
          /\ Live(entries[k1]) /\ Live(entries[j1])
          /\ row'[entries[k1]].ord = row[entries[k1]].ord /\ row'[entries[j1]].ord = row[entries[j1]].ord
      BY <1>2, <2>3 DEF Working
    <2>5. Precedes(entries[k1], entries[j1])
      BY <2>3, <2>4 DEF Sorted
    <2> QED
      BY <2>3, <2>4, <2>5 DEF Precedes
  <1> QED
    BY <1>3, <1>4

LEMMA EmptyIsSorted ==
  ASSUME entries' = <<>>
  PROVE  Sorted' /\ Working' = {}
  BY DEF Sorted, Working

-----------------------------------------------------------------------------
(* One step of a section at a time. *)
Goes(p) ==
    /\ lease' = NoProc => Steady' /\ Sorted'
    /\ lease' = p => InSection(p)'
Context(p) ==
    /\ Typed /\ NotItself /\ TargetIsLive /\ Emptied /\ p \in Procs /\ lease = p /\ InSection(p)
    /\ NeverFallsBack'

LEMMA ContextIs ==
  ASSUME NEW p, Context(p)
  PROVE  /\ p \in Procs /\ p # NoProc /\ lease = p
         /\ Typed /\ WellFormed /\ Types /\ Numbered /\ Array /\ Fits(p)
         /\ pc \in [Procs -> Labels] /\ op \in [Procs -> OpRecords] /\ op[p] \in OpRecords
         /\ op[p].len \in Nat /\ Cap \in Nat \ {0} /\ shown \in BOOLEAN
         /\ op[p].whole \in BOOLEAN
         /\ InSection(p) /\ Entered(p) /\ Retires(p) /\ Appends(p) /\ TakesBack(p)
         /\ pc[p] \in Minting \cup {"gate"} => p \in Ops /\ p \in Secrets
         /\ p \in Ops => op[p].target # p
         /\ p \in Ops /\ Fresh(p) => p \notin LiveRows
         /\ Working \subseteq Secrets /\ LiveRows \subseteq Secrets /\ Retiring \subseteq LiveRows
  <1>1. Typed /\ WellFormed /\ Types /\ Places /\ Unknown /\ Numbered /\ Array
    BY DEF Context, Typed, WellFormed
  <1>2. p \in Procs /\ p # NoProc /\ lease = p /\ Fits(p)
    BY <1>1, CredentialsAssumption DEF Context, Places, Procs
  <1>3. op[p] \in OpRecords /\ op \in [Procs -> OpRecords] /\ pc \in [Procs -> Labels]
        /\ shown \in BOOLEAN
    BY <1>1, <1>2 DEF Types
  <1>4. op[p].len \in Nat /\ op[p].whole \in BOOLEAN
    BY <1>3 DEF OpRecords
  <1>5. pc[p] \in Minting \cup {"gate"} => p \in Ops /\ p \in Secrets
    BY <1>2 DEF Fits, Mints, Minting, Procs, Secrets
  <1>6. p \in Ops /\ Fresh(p) => p \notin LiveRows
    BY <1>1 DEF Unknown, CanMint, LiveRows, Live
  <1>7. InSection(p) /\ Entered(p) /\ Retires(p) /\ Appends(p) /\ TakesBack(p)
    BY DEF Context, InSection
  <1>8. Working \subseteq Secrets /\ LiveRows \subseteq Secrets /\ Retiring \subseteq LiveRows
    BY <1>1, WorkingCount DEF LiveRows, Retiring, Live
  <1>9. p \in Ops => op[p].target # p
    BY DEF Context, NotItself
  <1> QED
    BY <1>1, <1>2, <1>3, <1>4, <1>5, <1>6, <1>7, <1>8, <1>9, CredentialsAssumption

LEMMA NothingMoves ==
  ASSUME UNCHANGED <<shown, entries, row>>
  PROVE  /\ Working' = Working /\ LiveRows' = LiveRows /\ Retiring' = Retiring /\ Dead' = Dead
         /\ Steady' = Steady /\ Sorted' = Sorted /\ Exact' = Exact
  BY DEF Working, LiveRows, Live, Retiring, Dead, Steady, Sorted, Precedes, Exact

LEMMA LeavesGoes ==
  ASSUME NEW p, p # NoProc, lease' = NoProc, Steady', Sorted'
  PROVE  Goes(p)
  BY DEF Goes

LEMMA CheckGoes ==
  ASSUME NEW p, Context(p), Check(p)
  PROVE  Goes(p)
  <1> USE ContextIs
  <1>1. Steady' /\ Sorted'
    BY NothingMoves DEF Check, At, outside, Entered, Calm, TakingBack
  <1>2. (lease' = NoProc) \/ (lease' = lease /\ pc'[p] \in {"get", "wipe"})
    BY LeaveIs DEF Check, ReadFails, Step, Goto
  <1>3. pc'[p] \in {"get", "wipe"} => InSection(p)'
    BY <1>1 DEF InSection, Entered, Retires, Appends, TakesBack, TakingBack
  <1> QED
    BY <1>1, <1>2, <1>3 DEF Goes

LEMMA GetGoes ==
  ASSUME NEW p, Context(p), Get(p)
  PROVE  Goes(p)
  <1> USE ContextIs
  <1>1. /\ Steady' /\ Sorted' /\ Steady /\ pc[p] = "get"
        /\ UNCHANGED <<shown, entries, row>>
        /\ Working' = Working /\ LiveRows' = LiveRows /\ Retiring' = Retiring
    BY NothingMoves DEF Get, At, outside, Entered, Calm, TakingBack
  <1>2. CASE ReadFails(p)
    <2>1. lease' = NoProc
      BY <1>2, LeaveIs DEF ReadFails
    <2> QED
      BY <1>1, <2>1, LeavesGoes
  <1>3. CASE ~ ReadFails(p)
    <2>1. /\ op' = [op EXCEPT ![p].len = ArrayLength] /\ lease' = lease
          /\ pc'[p] = IF /\ Cardinality(LiveRows) = ArrayLength + 1
                          /\ Cardinality(Retiring) = 1
                       THEN "settle" ELSE "place"
      BY <1>3 DEF Get, Step, Goto
    <2>2. op'[p].len = ArrayLength
      BY <2>1
    <2>3. /\ IsFiniteSet(Working) /\ Cardinality(Working) = Len(entries)
          /\ IsFiniteSet(LiveRows) /\ Cardinality(LiveRows) \in Nat
          /\ Len(entries) \in Nat /\ (entries = <<>> <=> Working = {})
      BY WorkingCount
    <2>4. HasLength(op[p].len)'
      BY <1>1, <2>2 DEF HasLength, ArrayLength
    <2>5. Working \subseteq LiveRows /\ (shown => Dead \subseteq Retiring)
      BY <1>1 DEF Steady
    <2>6. IsFiniteSet(Retiring)
      BY <2>3, FS_Subset
    <2>7. CASE pc'[p] = "settle"
      <3>1. Cardinality(LiveRows) = ArrayLength + 1 /\ Cardinality(Retiring) = 1
        BY <2>1, <2>7
      <3>2. shown /\ ArrayLength = Len(entries)
        BY <2>3, <3>1 DEF ArrayLength
      <3>3. Dead # {}
        <4> SUFFICES ASSUME Dead = {} PROVE FALSE
          OBVIOUS
        <4>1. LiveRows = Working
          BY <2>5 DEF Dead
        <4> QED
          BY <2>3, <3>1, <3>2, <4>1
      <3>4. PICK c : Retiring = {c}
        BY <2>6, <3>1, FS_Singleton
      <3>5. Retiring \cap Working = {}
        BY <2>5, <3>2, <3>3, <3>4 DEF Dead
      <3>6. /\ shown' /\ (Retiring \cap Working = {})'
            /\ (Cardinality(LiveRows) = Len(entries) + 1)'
        BY <1>1, <3>1, <3>2, <3>5
      <3>7. InSection(p)'
        BY <1>1, <2>4, <2>7, <3>6 DEF InSection, Entered, Retires, Appends, TakesBack, TakingBack
      <3> QED
        BY <2>1, <3>7 DEF Goes
    <2>8. CASE pc'[p] = "place"
      <3>1. ~ (shown /\ entries = <<>> /\ Cardinality(LiveRows) = 1)
        <4> SUFFICES ASSUME shown, entries = <<>>, Cardinality(LiveRows) = 1 PROVE FALSE
          OBVIOUS
        <4>1. PICK d : LiveRows = {d}
          BY <2>3, FS_Singleton
        <4>2. Retiring = {d}
          BY <2>3, <2>5, <4>1 DEF Dead
        <4>3. Cardinality(Retiring) = 1
          BY <4>2, FS_Singleton
        <4>4. Len(entries) = 0
          OBVIOUS
        <4> QED
          BY <2>1, <2>8, <4>3, <4>4 DEF ArrayLength
      <3>2. (~ (shown /\ entries = <<>> /\ Cardinality(LiveRows) = 1))'
        BY <1>1, <3>1
      <3>3. InSection(p)'
        BY <1>1, <2>4, <2>8, <3>2 DEF InSection, Entered, Retires, Appends, TakesBack, TakingBack
      <3> QED
        BY <2>1, <3>3 DEF Goes
    <2> QED
      BY <2>1, <2>7, <2>8
  <1> QED
    BY <1>2, <1>3

LEMMA SettleGoes ==
  ASSUME NEW p, Context(p), SettleLostRetirement(p)
  PROVE  Goes(p)
  <1> USE ContextIs
  <1>1. /\ pc[p] = "settle" /\ Steady /\ Sorted /\ shown /\ Retiring \cap Working = {}
        /\ HasLength(op[p].len) /\ Cardinality(LiveRows) = Len(entries) + 1
        /\ shown' = shown /\ entries' = entries /\ op' = op
    BY DEF SettleLostRetirement, At, outside, Entered, Calm, TakingBack
  <1>2. PICK c \in Retiring : WriteOrLeave(p, SetStatus(c, "revoked"), "place")
    BY DEF SettleLostRetirement
  <1>3. CASE row' = row /\ Leave(p, FALSE)
    BY <1>1, <1>3, NothingMoves, LeaveIs, LeavesGoes
  <1>4. CASE SetStatus(c, "revoked")
    <2>1. LiveRows' = LiveRows \ {c} /\ Retiring' = Retiring \ {c} /\ Keeps
      BY <1>4, Revoke
    <2>2. Working' = Working /\ c \notin Working /\ c \in LiveRows
      BY <1>1 DEF Working
    <2>3. Steady'
      BY <1>1, <2>1, <2>2 DEF Steady, Dead
    <2>4. Sorted'
      BY <1>1, <2>1, SortedKept
    <2>5. Cardinality(LiveRows') = Len(entries)
      <3>1. IsFiniteSet(LiveRows) /\ Len(entries) \in Nat
        BY WorkingCount
      <3>2. Cardinality(LiveRows \ {c}) = Cardinality(LiveRows) - 1
        BY <2>2, <3>1, FS_RemoveElement
      <3> QED
        BY <1>1, <2>1, <3>1, <3>2
    <2>6. pc'[p] = "place" => InSection(p)'
      <3>1. (~ (shown /\ entries = <<>> /\ Cardinality(LiveRows) = 1))'
        BY <1>1, <2>5
      <3>2. HasLength(op[p].len)'
        BY <1>1 DEF HasLength
      <3> QED
        BY <2>3, <2>4, <3>1, <3>2 DEF InSection, Entered, Retires, Appends, TakesBack, TakingBack
    <2>7. lease' = NoProc \/ (lease' = lease /\ pc'[p] = "place")
      BY <1>2, LeaveIs DEF WriteOrLeave, Step, Goto
    <2> QED
      BY <2>3, <2>4, <2>6, <2>7 DEF Goes
  <1> QED
    BY <1>2, <1>3, <1>4 DEF WriteOrLeave

(* Where an operation goes from its placement. *)
Moved(p, label, pos, whole) ==
    /\ lease' = lease /\ pc'[p] = label
    /\ op'[p].pos = pos /\ op'[p].whole = whole
    /\ op'[p].len = op[p].len /\ op'[p].kind = op[p].kind /\ op'[p].target = op[p].target

LEMMA PlaceIs ==
  ASSUME NEW p, Context(p), Place(p)
  PROVE  LET t == op[p].target
         IN  \/ lease' = NoProc
             \/ op[p].kind = "issue" /\ Confirmed /\ Moved(p, "gate", 0, FALSE)
             \/ /\ op[p].kind = "rotate" /\ Confirmed /\ t \in LiveRows /\ Aligned(p) /\ ~ Ambiguous(t)
                /\ Moved(p, "gate", Index(t), FALSE)
             \/ op[p].kind \notin {"issue", "rotate"} /\ t \notin LiveRows /\ Moved(p, "close", 0, FALSE)
             \/ /\ op[p].kind \notin {"issue", "rotate"} /\ t \in LiveRows
                /\ Position(p, t) = "whole" \/ op[p].kind = "recover"
                /\ Moved(p, "intent", 0, TRUE)
             \/ /\ op[p].kind \notin {"issue", "rotate"} /\ t \in LiveRows
                /\ Position(p, t) = "index" /\ Moved(p, "intent", Index(t), FALSE)
  <1> USE ContextIs
  <1> DEFINE t == op[p].target
             to(label, pos, whole) ==
               /\ Step(p, label)
               /\ op' = [op EXCEPT ![p] = [@ EXCEPT !.pos = pos, !.whole = whole]]
  <1>1. ASSUME NEW label, NEW pos, NEW whole, to(label, pos, whole)
        PROVE  Moved(p, label, pos, whole)
    <2>1. lease' = lease /\ pc'[p] = label
      BY <1>1 DEF Step, Goto
    <2>2. op'[p] = [op[p] EXCEPT !.pos = pos, !.whole = whole]
      BY <1>1
    <2> QED
      BY <2>1, <2>2 DEF Moved, OpRecords
  <1>2. ASSUME Leave(p, FALSE) PROVE lease' = NoProc
    BY <1>2, LeaveIs
  <1>3. \/ Leave(p, FALSE)
        \/ op[p].kind = "issue" /\ Confirmed /\ to("gate", 0, FALSE)
        \/ /\ op[p].kind = "rotate" /\ Confirmed /\ t \in LiveRows /\ Aligned(p) /\ ~ Ambiguous(t)
           /\ to("gate", Index(t), FALSE)
        \/ op[p].kind \notin {"issue", "rotate"} /\ Position(p, t) = "notlive" /\ to("close", 0, FALSE)
        \/ op[p].kind \notin {"issue", "rotate"} /\ Position(p, t) = "whole" /\ to("intent", 0, TRUE)
        \/ op[p].kind \notin {"issue", "rotate"} /\ Position(p, t) = "index" /\ to("intent", Index(t), FALSE)
        \/ /\ op[p].kind = "recover" /\ Position(p, t) \notin {"notlive", "whole", "index"}
           /\ to("intent", 0, TRUE)
    <2>1. CASE op[p].kind = "issue"
      BY <2>1 DEF Place
    <2>2. CASE op[p].kind = "rotate"
      BY <2>2 DEF Place
    <2>3. CASE op[p].kind \notin {"issue", "rotate"}
      BY <2>3 DEF Place
    <2> QED
      BY <2>1, <2>2, <2>3
  <1>4. /\ Position(p, t) = "notlive" => t \notin LiveRows
        /\ Position(p, t) # "notlive" => t \in LiveRows
    BY DEF Position
  <1> HIDE DEF to, t
  <1>5. QED
    BY <1>1, <1>2, <1>3, <1>4 DEF t

LEMMA PlaceGoes ==
  ASSUME NEW p, Context(p), Place(p)
  PROVE  Goes(p)
  <1> USE ContextIs
  <1> DEFINE t == op[p].target
  <1>1. /\ pc[p] = "place" /\ Steady /\ Sorted /\ HasLength(op[p].len)
        /\ ~ (shown /\ entries = <<>> /\ Cardinality(LiveRows) = 1)
        /\ UNCHANGED <<shown, entries, row>>
    BY DEF Place, At, outside, Entered, Calm, TakingBack
  <1>2. /\ Steady' /\ Sorted' /\ Exact' = Exact /\ Working' = Working /\ LiveRows' = LiveRows
        /\ Dead' = Dead
    BY <1>1, NothingMoves
  <1>3. Working \subseteq LiveRows /\ (~ shown /\ Retiring = {} => Exact)
    BY <1>1 DEF Steady, Dead, Exact
  <1>4. Confirmed /\ Aligned(p) => Exact
    BY <1>1, <1>3, AlignedIsExact DEF Confirmed, Aligned, HasLength
  <1>5. ASSUME t \in LiveRows, Confirmed, Aligned(p), ~ Ambiguous(t)
        PROVE  Index(t) \in DOMAIN entries /\ entries[Index(t)] = t
    BY <1>1, <1>4, <1>5, IndexIsPosition
  <1>6. op'[p].len = op[p].len => HasLength(op[p].len)'
    BY <1>1 DEF HasLength
  <1>7. CASE lease' = NoProc
    BY <1>2, <1>7, LeavesGoes
  <1>8. CASE op[p].kind = "issue" /\ Confirmed /\ Moved(p, "gate", 0, FALSE)
    <2>1. ~ shown => Exact
      BY <1>3, <1>8 DEF Confirmed
    <2>2. InSection(p)'
      BY <1>1, <1>2, <1>6, <1>8, <2>1
         DEF Moved, InSection, Entered, Retires, Appends, TakesBack, TakingBack
    <2> QED
      BY <1>8, <2>2 DEF Goes, Moved
  <1>9. CASE /\ op[p].kind = "rotate" /\ Confirmed /\ t \in LiveRows /\ Aligned(p) /\ ~ Ambiguous(t)
             /\ Moved(p, "gate", Index(t), FALSE)
    <2>1. Exact' /\ Placed(p)'
      BY <1>1, <1>2, <1>4, <1>5, <1>9 DEF Placed, Moved
    <2>2. InSection(p)'
      BY <1>1, <1>2, <1>6, <1>9, <2>1
         DEF Moved, InSection, Entered, Retires, Appends, TakesBack, TakingBack
    <2> QED
      BY <1>9, <2>2 DEF Goes, Moved
  <1>10. CASE op[p].kind \notin {"issue", "rotate"} /\ t \notin LiveRows /\ Moved(p, "close", 0, FALSE)
    <2>1. t \notin Working' /\ t \notin LiveRows'
      BY <1>2, <1>3, <1>10
    <2>2. InSection(p)'
      BY <1>2, <1>10, <2>1
         DEF Moved, InSection, Entered, Retires, Appends, TakesBack, TakingBack
    <2> QED
      BY <1>10, <2>2 DEF Goes, Moved
  <1>11. CASE /\ op[p].kind \notin {"issue", "rotate"} /\ t \in LiveRows
              /\ Position(p, t) = "whole" \/ op[p].kind = "recover"
              /\ Moved(p, "intent", 0, TRUE)
    <2>1. ~ shown
      <3>1. CASE op[p].kind = "recover"
        <4>1. p \in Runners
          BY <3>1 DEF Fits, Procs
        <4> QED
          BY <1>1, <1>11, <4>1 DEF Context, NeverFallsBack, Moved
      <3>2. CASE Position(p, t) = "whole"
        <4> SUFFICES ASSUME shown PROVE FALSE
          OBVIOUS
        <4>1. ~ Aligned(p) /\ LiveRows \ {t} = {}
          BY <3>2 DEF Position
        <4>2. LiveRows = {t}
          BY <1>11, <4>1
        <4>3. Cardinality(LiveRows) = 1
          BY <4>2, FS_Singleton
        <4>4. Len(entries) # 1
          BY <1>1, <4>1, <4>3 DEF Aligned, HasLength
        <4>5. Working # {t}
          BY <4>3, <4>2, <4>4, WorkingCount
        <4>6. Working = {}
          BY <1>3, <4>2, <4>5
        <4> QED
          BY <1>1, <4>3, <4>6, WorkingCount
      <3> QED
        BY <1>11, <3>1, <3>2
    <2>2. ~ AppendFirst(p)'
      BY <1>11 DEF Moved, AppendFirst
    <2>3. InSection(p)'
      BY <1>1, <1>2, <1>6, <1>11, <2>1, <2>2
         DEF Moved, InSection, Entered, Retires, Appends, TakesBack, TakingBack
    <2> QED
      BY <1>11, <2>3 DEF Goes, Moved
  <1>12. CASE /\ op[p].kind \notin {"issue", "rotate"} /\ t \in LiveRows
              /\ Position(p, t) = "index" /\ Moved(p, "intent", Index(t), FALSE)
    <2>1. Aligned(p) /\ Confirmed /\ ~ Ambiguous(t)
      BY <1>12 DEF Position
    <2>2. Exact' /\ Placed(p)'
      BY <1>1, <1>2, <1>4, <1>5, <1>12, <2>1 DEF Placed, Moved
    <2>3. ~ AppendFirst(p)'
      BY <1>12 DEF Moved, AppendFirst
    <2>4. InSection(p)'
      BY <1>1, <1>2, <1>6, <1>12, <2>2, <2>3
         DEF Moved, InSection, Entered, Retires, Appends, TakesBack, TakingBack
    <2> QED
      BY <1>12, <2>4 DEF Goes, Moved
  <1> HIDE DEF t
  <1> QED
    BY <1>7, <1>8, <1>9, <1>10, <1>11, <1>12, PlaceIs DEF t

LEMMA GateGoes ==
  ASSUME NEW p, Context(p), Gate(p)
  PROVE  Goes(p)
  <1> USE ContextIs
  <1>1. /\ pc[p] = "gate" /\ Steady /\ Sorted /\ HasLength(op[p].len) /\ ~ op[p].whole
        /\ ~ shown => Exact
        /\ op[p].kind = "rotate" => Exact /\ Placed(p)
        /\ UNCHANGED <<shown, entries, row, op>>
    BY DEF Gate, At, outside, Entered, Calm, TakingBack
  <1>2. /\ Steady' /\ Sorted' /\ Exact' = Exact /\ Working' = Working /\ LiveRows' = LiveRows
        /\ Dead' = Dead /\ Retiring' = Retiring
    BY <1>1, NothingMoves
  <1>3. \/ lease' = NoProc
        \/ lease' = lease /\ pc'[p] = "intent" /\ DeleteFirst(p)
        \/ lease' = lease /\ pc'[p] = "append" /\ ~ DeleteFirst(p) /\ shown
        \/ lease' = lease /\ pc'[p] = "pend" /\ ~ DeleteFirst(p) /\ ~ shown
    BY LeaveIs DEF Gate, ReadFails, Step, Goto, ToAppend
  <1>4. CASE lease' = NoProc
    BY <1>2, <1>4, LeavesGoes
  <1>5. Placed(p)' = Placed(p) /\ HasLength(op[p].len)' = HasLength(op[p].len)
    BY <1>1 DEF Placed, HasLength
  <1>6. CASE lease' = lease /\ pc'[p] = "intent" /\ DeleteFirst(p)
    <2>1. ~ AppendFirst(p)' /\ op[p].kind = "rotate"
      BY <1>1, <1>6 DEF AppendFirst, DeleteFirst
    <2>2. InSection(p)'
      BY <1>1, <1>2, <1>5, <1>6, <2>1 DEF InSection, Entered, Retires, Appends, TakesBack, TakingBack
    <2> QED
      BY <1>6, <2>2 DEF Goes
  <1>7. Working \subseteq LiveRows /\ (shown => Dead \subseteq Retiring) /\ (Exact => Dead = {})
    BY <1>1 DEF Steady, Exact, Dead
  <1>8. AppendFirst(p)' = AppendFirst(p) /\ (AppendFirst(p) => op[p].kind = "rotate")
    BY <1>1 DEF AppendFirst
  <1>9. CASE lease' = lease /\ pc'[p] = "append" /\ ~ DeleteFirst(p) /\ shown
    <2>1. HasLength(AppendIndex(p))'
      BY <1>1, <1>9 DEF HasLength, AppendIndex, DeleteFirst
    <2>2. InSection(p)'
      BY <1>1, <1>2, <1>5, <1>7, <1>8, <1>9, <2>1
         DEF InSection, Entered, Retires, Appends, TakesBack, TakingBack, Calm
    <2> QED
      BY <1>9, <2>2 DEF Goes
  <1>10. CASE lease' = lease /\ pc'[p] = "pend" /\ ~ DeleteFirst(p) /\ ~ shown
    <2>2. InSection(p)'
      BY <1>1, <1>2, <1>5, <1>7, <1>8, <1>10
         DEF InSection, Entered, Retires, Appends, TakesBack, TakingBack, Calm
    <2> QED
      BY <1>10, <2>2 DEF Goes
  <1> QED
    BY <1>3, <1>4, <1>6, <1>9, <1>10

LEMMA IntentGoes ==
  ASSUME NEW p, Context(p), Intent(p)
  PROVE  Goes(p)
  <1> USE ContextIs
  <1> DEFINE t == op[p].target
  <1>1. /\ pc[p] = "intent" /\ Steady /\ Sorted
        /\ IF op[p].whole THEN ~ shown /\ op[p].kind # "rotate" ELSE Exact /\ Placed(p)
        /\ AppendFirst(p) => IsLast(p) /\ HasLength(op[p].len + 1) /\ ~ op[p].whole
        /\ ~ AppendFirst(p) => HasLength(op[p].len)
        /\ UNCHANGED <<shown, entries>>
    BY DEF Intent, At, outside, Entered, Retires, Calm, TakingBack
  <1>2. t \in LiveRows
    BY <1>1 DEF Context, TargetIsLive
  <1>3. SetStatus(t, "retiring") \/ row' = row
    BY DEF Intent, Write, WriteOrLeave
  <1>4. /\ LiveRows' = LiveRows /\ Working' = Working /\ Keeps
        /\ Retiring \subseteq Retiring' /\ (row' # row => t \in Retiring')
    BY <1>1, <1>2, <1>3, Retire, NothingWritten DEF Working
  <1>5. Steady'
    BY <1>1, <1>4 DEF Steady, Dead
  <1>6. Sorted'
    BY <1>1, <1>4, SortedKept
  <1>7. \/ lease' = NoProc
        \/ lease' = lease /\ pc'[p] = "delete" /\ SetStatus(t, "retiring")
        \/ lease' = lease /\ pc'[p] = "reclaim" /\ AppendFirst(p)
    BY LeaveIs DEF Intent, Write, WriteOrLeave, Step, Goto
  <1>8. /\ op'[p].whole = op[p].whole /\ op'[p].len = op[p].len /\ op'[p].kind = op[p].kind
        /\ op'[p].target = t /\ op'[p].pos = op[p].pos
        /\ AppendFirst(p) => op'[p].why = "swap"
    <2>1. op' = op \/ op' = [op EXCEPT ![p].why = "swap"]
      BY DEF Intent
    <2>2. AppendFirst(p) => op' = [op EXCEPT ![p].why = "swap"]
      BY DEF Intent
    <2>3. CASE op' = [op EXCEPT ![p].why = "swap"]
      <3>1. op'[p] = [op[p] EXCEPT !.why = "swap"]
        BY <2>3
      <3> QED
        BY <3>1 DEF OpRecords
    <2> QED
      BY <2>1, <2>2, <2>3
  <1>9. /\ AppendFirst(p)' = AppendFirst(p) /\ Placed(p)' = Placed(p) /\ IsLast(p)' = IsLast(p)
        /\ HasLength(op[p].len)' = HasLength(op[p].len)
        /\ HasLength(op[p].len + 1)' = HasLength(op[p].len + 1)
    BY <1>1, <1>8 DEF AppendFirst, Placed, IsLast, HasLength
  <1>10. CASE lease' = lease /\ pc'[p] = "delete" /\ SetStatus(t, "retiring")
    <2>1. t \in Retiring'
      BY <1>2, <1>10, Retire
    <2>2. Exact' = Exact
      BY <1>4 DEF Exact
    <2>3. InSection(p)'
      BY <1>1, <1>5, <1>6, <1>8, <1>9, <1>10, <2>1, <2>2
         DEF InSection, Entered, Retires, Appends, TakesBack, TakingBack
    <2> QED
      BY <1>10, <2>3 DEF Goes
  <1>11. CASE lease' = lease /\ pc'[p] = "reclaim" /\ AppendFirst(p)
    <2>1. Working' \subseteq LiveRows'
      BY <1>5 DEF Steady
    <2>2. p \in Working' => row'[p].st # "revoked"
      BY <2>1 DEF LiveRows, Live
    <2>3. InSection(p)'
      BY <1>1, <1>8, <1>9, <1>11, <2>1, <2>2
         DEF InSection, Entered, Retires, Appends, TakesBack, TakingBack, Calm
    <2> QED
      BY <1>11, <2>3 DEF Goes
  <1> QED
    BY <1>5, <1>6, <1>7, <1>10, <1>11, LeavesGoes

LEMMA DeleteGoes ==
  ASSUME NEW p, Context(p), Delete(p)
  PROVE  Goes(p)
  <1> USE ContextIs
  <1> DEFINE t == op[p].target
  <1>1. /\ pc[p] = "delete" /\ Steady /\ Sorted /\ t \in Retiring
        /\ AppendFirst(p) => op[p].why = "swap"
        /\ IF op[p].whole THEN ~ shown /\ op[p].kind # "rotate" ELSE Exact /\ Placed(p)
        /\ AppendFirst(p) => IsLast(p) /\ HasLength(op[p].len + 1) /\ ~ op[p].whole
        /\ ~ AppendFirst(p) => HasLength(op[p].len)
        /\ UNCHANGED <<shown, row, op>>
    BY DEF Delete, At, outside, Entered, Retires, Calm, TakingBack
  <1>2. LiveRows' = LiveRows /\ Retiring' = Retiring /\ Keeps
    BY <1>1, NothingWritten
  <1>3. op[p].whole \/ op[p].pos \in DOMAIN entries
    BY <1>1 DEF Placed
  <1> DEFINE result == IF op[p].whole THEN <<>> ELSE Without(op[p].pos)
             next == IF DeleteFirst(p) THEN "retired" ELSE IF AppendFirst(p) THEN "rotated" ELSE "close"
             orelse == IF AppendFirst(p) THEN "reclaim" ELSE "probe"
  <1>4. EdgeDelete(p, result, next, orelse)
    BY <1>3 DEF Delete
  <1>5. /\ entries' = entries \/ entries' = result
        /\ lease' = lease
        /\ \/ pc'[p] = next /\ entries' = result
           \/ pc'[p] = orelse
    BY <1>4 DEF EdgeDelete, Step, Goto
  <1>6. Len(entries) \in Nat
    BY WorkingCount
  <1>7. CASE entries' = result /\ op[p].whole
    <2>1. Working' = {} /\ Sorted'
      BY <1>7, EmptyIsSorted
    <2>2. Steady'
      BY <1>1, <1>2, <1>7, <2>1 DEF Steady
    <2>3. ~ AppendFirst(p)
      BY <1>1, <1>7
    <2>4. pc'[p] \in {"retired", "close", "probe"}
      BY <1>5, <2>3
    <2>5. pc'[p] # "retired"
      <3>1. pc'[p] = "retired" => DeleteFirst(p)
        BY <1>5, <2>3
      <3> QED
        BY <1>1, <1>7, <3>1 DEF DeleteFirst
    <2>6. InSection(p)'
      BY <1>1, <1>7, <2>1, <2>2, <2>4, <2>5
         DEF InSection, Entered, Retires, Appends, TakesBack, TakingBack
    <2> QED
      BY <1>5, <2>6 DEF Goes
  <1>8. (Dead = {} /\ t \in Working /\ (~ op[p].whole => Placed(p))) \/ op[p].whole
    BY <1>1 DEF Exact, Dead
  <1>9. /\ AppendFirst(p)' = AppendFirst(p) /\ AppendIndex(p)' = AppendIndex(p)
        /\ AppendFirst(p) => AppendIndex(p) = op[p].len /\ ~ DeleteFirst(p)
        /\ op'[p] = op[p]
    BY <1>1 DEF AppendFirst, AppendIndex, DeleteFirst
  <1>10. CASE entries' = result /\ ~ op[p].whole
    <2>1. op[p].pos \in DOMAIN entries /\ entries[op[p].pos] = t /\ entries' = Without(op[p].pos)
      BY <1>1, <1>10 DEF Placed
    <2>2. Working' = Working \ {t} /\ Len(entries') = Len(entries) - 1 /\ Len(entries) \in Nat \ {0}
      BY <2>1, TakeOut
    <2>3. Sorted'
      BY <1>1, <1>2, <2>1, SortedKept
    <2>4. Steady' /\ Working' \subseteq LiveRows' /\ Dead' \subseteq {t} /\ t \notin Working'
      BY <1>1, <1>2, <1>8, <1>10, <2>2 DEF Steady, Dead
    <2>5. CASE pc'[p] = "retired"
      <3>1. DeleteFirst(p)
        BY <1>5, <2>5
      <3>2. HasLength(op[p].len - 1)'
        BY <1>1, <1>9, <2>2, <3>1 DEF HasLength
      <3> QED
        BY <1>5, <1>9, <1>10, <2>3, <2>4, <2>5, <3>2
           DEF Goes, InSection, Entered, Retires, Appends, TakesBack, TakingBack
    <2>6. CASE pc'[p] \in {"rotated", "close"}
      BY <1>5, <1>9, <1>10, <2>3, <2>4, <2>6
         DEF Goes, InSection, Entered, Retires, Appends, TakesBack, TakingBack, Calm
    <2>7. CASE pc'[p] = "probe"
      <3>1. ~ AppendFirst(p)
        BY <1>5, <2>7
      <3>2. ~ (HasLength(op[p].len)' /\ shown')
        BY <1>1, <1>9, <2>2, <3>1 DEF HasLength
      <3> QED
        BY <1>5, <2>3, <2>4, <2>7, <3>2
           DEF Goes, InSection, Entered, Retires, Appends, TakesBack, TakingBack
    <2>8. CASE pc'[p] = "reclaim"
      <3>1. AppendFirst(p)
        BY <1>5, <2>8
      <3>2. shown => Len(entries') # AppendIndex(p)' + 1
        BY <1>1, <1>9, <2>2, <3>1 DEF HasLength
      <3>3. p \in Working' => row'[p].st # "revoked"
        BY <2>4 DEF LiveRows, Live
      <3>4. op'[p].why = "swap"
        BY <1>1, <1>9, <3>1
      <3>5. InSection(p)'
        BY <1>1, <2>4, <2>8, <3>2, <3>3, <3>4
           DEF InSection, Entered, Retires, Appends, TakesBack, TakingBack, Calm
      <3> QED
        BY <1>5, <3>5 DEF Goes
    <2> QED
      BY <1>5, <2>5, <2>6, <2>7, <2>8
  <1>11. CASE entries' = entries
    <2>1. Steady' /\ Sorted' /\ Working' = Working /\ Dead' = Dead
      BY <1>1, <1>11, NothingMoves
    <2>2. Working' \subseteq LiveRows'
      BY <2>1 DEF Steady
    <2>3. CASE pc'[p] = "probe"
      <3>1. HasLength(op[p].len)' /\ shown' => t \in Working'
        BY <1>1, <1>8, <2>1
      <3> QED
        BY <1>5, <1>9, <2>1, <2>3, <3>1
           DEF Goes, InSection, Entered, Retires, Appends, TakesBack, TakingBack
    <2>4. CASE pc'[p] = "reclaim"
      <3>1. AppendFirst(p)
        BY <1>5, <2>4
      <3>2. IsLast(p)'
        BY <1>1, <1>11, <3>1 DEF IsLast
      <3>3. p \in Working' => row'[p].st # "revoked"
        BY <2>2 DEF LiveRows, Live
      <3>4. op'[p].why = "swap"
        BY <1>1, <1>9, <3>1
      <3>5. InSection(p)'
        BY <1>1, <2>2, <2>4, <3>2, <3>3, <3>4
           DEF InSection, Entered, Retires, Appends, TakesBack, TakingBack, Calm
      <3> QED
        BY <1>5, <3>5 DEF Goes
    <2>5. CASE entries' = result /\ pc'[p] = next
      BY <1>7, <1>10, <2>5
    <2> QED
      BY <1>5, <2>3, <2>4, <2>5
  <1> QED
    BY <1>5, <1>7, <1>10, <1>11

LEMMA ProbeGoes ==
  ASSUME NEW p, Context(p), Probe(p)
  PROVE  Goes(p)
  <1> USE ContextIs
  <1>1. /\ pc[p] = "probe" /\ Steady /\ Sorted
        /\ HasLength(op[p].len) /\ shown => op[p].target \in Working
        /\ UNCHANGED <<shown, entries, row, op>>
    BY DEF Probe, At, outside, Entered, Retires, Calm, TakingBack
  <1>2. Steady' /\ Sorted' /\ Working' = Working
    BY <1>1, NothingMoves
  <1>3. \/ lease' = NoProc
        \/ lease' = lease /\ pc'[p] = "unretire" /\ shown /\ Len(entries) = op[p].len
    BY LeaveIs DEF Probe, ReadFails, Step, Goto
  <1>4. CASE lease' = lease /\ pc'[p] = "unretire" /\ shown /\ Len(entries) = op[p].len
    <2>1. op[p].target \in Working'
      BY <1>1, <1>2, <1>4 DEF HasLength
    <2> QED
      BY <1>1, <1>2, <1>4, <2>1
         DEF Goes, InSection, Entered, Retires, Appends, TakesBack, TakingBack
  <1> QED
    BY <1>2, <1>3, <1>4, LeavesGoes

LEMMA WithdrawRetirementGoes ==
  ASSUME NEW p, Context(p), WithdrawRetirement(p)
  PROVE  Goes(p)
  <1> USE ContextIs
  <1> DEFINE t == op[p].target
  <1>1. /\ pc[p] = "unretire" /\ Steady /\ Sorted /\ shown /\ t \in Working
        /\ UNCHANGED <<shown, entries>>
    BY DEF WithdrawRetirement, At, outside, Entered, Retires, Calm, TakingBack
  <1>2. row' = row \/ row' = [row EXCEPT ![t].st = IF @ = "retiring" THEN "active" ELSE @]
    BY DEF WithdrawRetirement
  <1>3. LiveRows' = LiveRows /\ Retiring \ {t} \subseteq Retiring' /\ Keeps /\ Working' = Working
    BY <1>1, <1>2, Unretire, NothingWritten DEF Working
  <1>4. Steady' /\ Sorted'
    BY <1>1, <1>3, SortedKept DEF Steady, Dead
  <1>5. \/ lease' = NoProc
        \/ lease' = lease /\ pc'[p] = "unretire" /\ op' = [op EXCEPT ![p].tries = @ + 1]
    BY LeaveIs DEF WithdrawRetirement, Step, Goto
  <1>6. CASE lease' = lease /\ pc'[p] = "unretire" /\ op' = [op EXCEPT ![p].tries = @ + 1]
    <2>1. op'[p].target = t
      BY <1>6 DEF OpRecords
    <2> QED
      BY <1>1, <1>3, <1>4, <1>6, <2>1
         DEF Goes, InSection, Entered, Retires, Appends, TakesBack, TakingBack
  <1> QED
    BY <1>4, <1>5, <1>6, LeavesGoes

LEMMA RetiredGoes ==
  ASSUME NEW p, Context(p), Retired(p)
  PROVE  Goes(p)
  <1> USE ContextIs
  <1> DEFINE t == op[p].target
  <1>1. /\ pc[p] = "retired" /\ Steady /\ Sorted /\ t \notin Working /\ Dead \subseteq {t}
        /\ HasLength(op[p].len - 1) /\ ~ op[p].whole
        /\ UNCHANGED <<shown, entries, op>>
    BY DEF Retired, At, outside, Entered, Retires, Calm, TakingBack
  <1>2. CASE row' = row /\ Leave(p, FALSE)
    BY <1>1, <1>2, NothingMoves, LeaveIs, LeavesGoes
  <1>3. CASE SetStatus(t, "revoked")
    <2>1. LiveRows' = LiveRows \ {t} /\ Retiring' = Retiring \ {t} /\ Keeps /\ Working' = Working
      BY <1>1, <1>3, Revoke DEF Working
    <2>2. Steady' /\ Sorted' /\ Dead' = {} /\ Working' \subseteq LiveRows'
      BY <1>1, <2>1, SortedKept DEF Steady, Dead
    <2>3. \/ lease' = NoProc
          \/ lease' = lease /\ pc'[p] = IF shown THEN "append" ELSE "pend"
      BY LeaveIs DEF Retired, WriteOrLeave, Step, Goto, ToAppend
    <2>4. DeleteFirst(p) /\ ~ AppendFirst(p)' /\ AppendIndex(p)' = op[p].len - 1
      BY <1>1 DEF Fits, DeleteFirst, AppendFirst, AppendIndex
    <2>5. HasLength(AppendIndex(p))'
      BY <1>1, <2>4 DEF HasLength
    <2>6. lease' = lease => InSection(p)'
      BY <1>1, <2>2, <2>3, <2>4, <2>5
         DEF InSection, Entered, Retires, Appends, TakesBack, TakingBack, Calm
    <2> QED
      BY <2>2, <2>3, <2>6 DEF Goes
  <1> QED
    BY <1>2, <1>3 DEF Retired, WriteOrLeave

LEMMA CloseGoes ==
  ASSUME NEW p, Context(p), Close(p)
  PROVE  Goes(p)
  <1> USE ContextIs
  <1> DEFINE t == op[p].target
  <1>1. /\ pc[p] = "close" /\ Steady /\ Sorted
        /\ op[p].whole => Working = {}
        /\ ~ op[p].whole => t \notin Working /\ (t \in LiveRows => Dead \subseteq {t})
        /\ UNCHANGED <<shown, entries>>
    BY DEF Close, At, outside, Entered, Retires, Calm, TakingBack
  <1>2. lease' = NoProc
    BY LeaveIs DEF Close, WriteAndLeave
  <1>3. CASE row' = row
    BY <1>1, <1>2, <1>3, NothingMoves, LeavesGoes
  <1>4. CASE op[p].whole /\ RevokeAll
    <2>1. LiveRows' = {} /\ Keeps /\ Working' = {}
      BY <1>1, <1>4, RevokeEvery DEF Working
    <2> QED
      BY <1>1, <1>2, <2>1, SortedKept, LeavesGoes DEF Steady, Dead
  <1>5. CASE ~ op[p].whole /\ SetStatus(t, "revoked")
    <2>1. LiveRows' = LiveRows \ {t} /\ Retiring' = Retiring \ {t} /\ Keeps /\ Working' = Working
      BY <1>1, <1>5, Revoke DEF Working
    <2>2. t \notin LiveRows => LiveRows' = LiveRows /\ Retiring' = Retiring
      BY <2>1
    <2>3. Steady'
      BY <1>1, <1>5, <2>1, <2>2 DEF Steady, Dead
    <2> QED
      BY <1>1, <1>2, <2>1, <2>3, SortedKept, LeavesGoes
  <1> QED
    BY <1>3, <1>4, <1>5 DEF Close, WriteAndLeave

LEMMA PendGoes ==
  ASSUME NEW p, Context(p), Pend(p)
  PROVE  Goes(p)
  <1> USE ContextIs
  <1>1. /\ pc[p] = "pend" /\ Sorted /\ ~ shown /\ p \in Ops /\ p \in Secrets
        /\ Working \ {p} \subseteq LiveRows /\ Dead \subseteq {p} /\ ~ op[p].whole
        /\ AppendFirst(p) => Placed(p)
        /\ UNCHANGED <<shown, entries, op>>
    BY DEF Pend, At, outside, Entered, Appends, TakingBack, Minting, Fits
  <1>2. p \notin LiveRows /\ p \notin Working
    BY <1>1 DEF Fresh, Typed, Unappended
  <1>3. CASE row' = row /\ Leave(p, FALSE)
    <2>1. Steady
      BY <1>1, <1>2 DEF Steady, Dead
    <2> QED
      BY <1>1, <1>3, <2>1, NothingMoves, LeaveIs, LeavesGoes
  <1>4. CASE NewRow(p, "retiring")
    <2>1. /\ LiveRows' = LiveRows \cup {p} /\ Retiring' = Retiring \cup {p}
          /\ \A c \in Secrets \ {p} : row'[c] = row[c] /\ row'[c].ord < row'[p].ord
          /\ Keeps /\ Working' = Working
      BY <1>1, <1>2, <1>4, Mint DEF Working
    <2>2. /\ Steady' /\ Sorted' /\ Working' \ {p} \subseteq LiveRows' /\ Dead' \subseteq {p}
          /\ p \in Retiring'
      BY <1>1, <1>2, <2>1, SortedKept DEF Steady, Dead
    <2>3. \A c \in Working' : row'[c].ord < row'[p].ord
      BY <1>2, <2>1
    <2>4. lease' = NoProc \/ (lease' = lease /\ pc'[p] = "append")
      BY LeaveIs DEF Pend, WriteOrLeave, Step, Goto
    <2>5. AppendFirst(p)' = AppendFirst(p) /\ Placed(p)' = Placed(p)
      BY <1>1 DEF AppendFirst, Placed
    <2>6. pc'[p] = "append" => InSection(p)'
      BY <1>1, <2>2, <2>3, <2>5
         DEF InSection, Entered, Retires, Appends, TakesBack, TakingBack, Calm, HasLength
    <2> QED
      BY <2>2, <2>4, <2>6 DEF Goes
  <1> QED
    BY <1>3, <1>4 DEF Pend, WriteOrLeave

LEMMA AppendGoes ==
  ASSUME NEW p, Context(p), AppendEntry(p)
  PROVE  Goes(p)
  <1> USE ContextIs
  <1>1. /\ pc[p] = "append" /\ Sorted /\ p \in Ops /\ p \in Secrets
        /\ Working \ {p} \subseteq LiveRows /\ ~ op[p].whole
        /\ shown => Dead \subseteq Retiring
        /\ ~ shown \/ AppendFirst(p) => Dead \subseteq {p}
        /\ AppendFirst(p) => Placed(p)
        /\ HasLength(AppendIndex(p))
        /\ ~ shown => p \in Retiring /\ \A c \in Working : row[c].ord < row[p].ord
        /\ UNCHANGED <<shown, row>>
    BY DEF AppendEntry, At, outside, Entered, Appends, TakingBack, Minting
  <1>2. /\ p \notin Working /\ (shown => p \notin LiveRows /\ row[p].st = "none")
    BY <1>1 DEF Fresh, Typed, Unappended, Unknown, CanMint
  <1>3. LiveRows' = LiveRows /\ Retiring' = Retiring /\ Keeps
    BY <1>1, NothingWritten
  <1>4. /\ op'[p].whole = op[p].whole /\ op'[p].len = op[p].len /\ op'[p].kind = op[p].kind
        /\ op'[p].target = op[p].target /\ op'[p].pos = op[p].pos
    <2>1. op' = op \/ op' = [op EXCEPT ![p].why = "post"]
      BY DEF AppendEntry
    <2>2. CASE op' = [op EXCEPT ![p].why = "post"]
      <3>1. op'[p] = [op[p] EXCEPT !.why = "post"]
        BY <2>2
      <3> QED
        BY <3>1 DEF OpRecords
    <2> QED
      BY <2>1, <2>2
  <1>5. AppendFirst(p)' = AppendFirst(p) /\ AppendIndex(p)' = AppendIndex(p)
    BY <1>4 DEF AppendFirst, AppendIndex, DeleteFirst
  <1>6. /\ lease' = lease
        /\ \/ entries' = Append(entries, p) /\ pc'[p] = "mirror"
           \/ entries' = Append(entries, p) /\ pc'[p] = IF shown THEN "reclaim" ELSE "note"
           \/ entries' = entries /\ pc'[p] = IF shown THEN "reclaim" ELSE "unpend"
           \/ entries' = entries /\ ~ shown /\ pc'[p] = "note"
    BY DEF AppendEntry, Step, Goto
  <1>7. Len(entries) \in Nat /\ AppendIndex(p) \in Nat
    BY WorkingCount DEF AppendIndex, DeleteFirst
  <1>8. CASE entries' = entries
    <2>1. Sorted' /\ Working' = Working /\ Dead' = Dead
      BY <1>1, <1>8, NothingMoves
    <2>2. shown' => Len(entries') = AppendIndex(p)'
      BY <1>1, <1>5, <1>8 DEF HasLength
    <2>3. CASE pc'[p] = "reclaim" /\ shown
      <3>1. shown' => Len(entries') # AppendIndex(p)' + 1
        BY <1>5, <1>7, <2>2
      <3>2. InSection(p)'
        BY <1>1, <1>2, <1>3, <2>1, <2>3, <3>1
           DEF InSection, Entered, Retires, Appends, TakesBack, TakingBack, Calm
      <3> QED
        BY <1>6, <3>2 DEF Goes
    <2>4. CASE pc'[p] = "unpend" /\ ~ shown
      <3>1. Steady'
        BY <1>1, <1>2, <1>3, <2>1, <2>4 DEF Steady, Dead
      <3>2. InSection(p)'
        BY <1>1, <1>2, <1>3, <2>1, <2>4, <3>1
           DEF InSection, Entered, Retires, Appends, TakesBack, TakingBack
      <3> QED
        BY <1>6, <3>2 DEF Goes
    <2>6. CASE pc'[p] = "note" /\ ~ shown
      <3>1. InSection(p)'
        BY <1>1, <1>2, <1>3, <2>1, <2>6
           DEF InSection, Entered, Retires, Appends, TakesBack, TakingBack, Calm, Dead, Retiring
      <3> QED
        BY <1>6, <3>1 DEF Goes
    <2>5. entries' # Append(entries, p)
      <3> SUFFICES ASSUME entries' = Append(entries, p) PROVE FALSE
        OBVIOUS
      <3>1. Len(entries') = Len(entries) + 1
        BY <1>1, PutLast
      <3> QED
        BY <1>7, <1>8, <3>1
    <2> QED
      BY <1>6, <2>3, <2>4, <2>5, <2>6
  <1>9. CASE entries' = Append(entries, p)
    <2>1. /\ Working' = Working \cup {p} /\ Len(entries') = Len(entries) + 1 /\ IsLast(p)'
          /\ DOMAIN entries = 1..Len(entries) /\ DOMAIN entries' = 1..(Len(entries) + 1)
          /\ entries'[Len(entries) + 1] = p
          /\ \A i \in DOMAIN entries : i \in DOMAIN entries' /\ entries'[i] = entries[i]
      BY <1>1, <1>9, PutLast
    <2>2. Sorted'
      <3> SUFFICES ASSUME NEW i \in DOMAIN entries', NEW j \in DOMAIN entries', i < j,
                          Live(entries[i])', Live(entries[j])'
                   PROVE  Precedes(entries[i], entries[j])'
        BY DEF Sorted
      <3>1. i \in DOMAIN entries /\ entries'[i] = entries[i] /\ entries[i] \in Working
        BY <1>7, <2>1 DEF Working
      <3>2. CASE j \in DOMAIN entries
        BY <1>1, <2>1, <3>1, <3>2 DEF Sorted, Precedes, Live
      <3>3. CASE j \notin DOMAIN entries
        <4>1. entries'[j] = p
          BY <1>7, <2>1, <3>3
        <4>2. ~ shown
          BY <1>1, <1>2, <4>1 DEF LiveRows, Live
        <4> QED
          BY <1>1, <3>1, <4>1, <4>2 DEF Precedes
      <3> QED
        BY <3>2, <3>3
    <2>3. /\ Working' \ {p} \subseteq LiveRows' /\ Dead' = Dead \ {p}
          /\ shown => Dead' \subseteq Retiring'
          /\ ~ shown \/ AppendFirst(p) => Dead' \subseteq {p}
          /\ ~ shown => p \in LiveRows' /\ Working' \subseteq LiveRows'
      BY <1>1, <1>3, <2>1 DEF Dead
    <2>4. AppendFirst(p) => Placed(p)'
      BY <1>1, <1>4, <2>1 DEF Placed
    <2>5. HasLength(AppendIndex(p) + 1)' /\ (shown => Len(entries') # AppendIndex(p)')
      BY <1>1, <1>5, <1>7, <2>1 DEF HasLength
    <2>6. row'[p].st # "revoked"
      BY <1>1, <1>2 DEF Retiring
    <2>7. CASE pc'[p] = "mirror"
      <3>1. InSection(p)'
        BY <1>1, <1>4, <1>5, <2>1, <2>2, <2>3, <2>4, <2>5, <2>7
           DEF InSection, Entered, Retires, Appends, TakesBack, TakingBack, Calm
      <3> QED
        BY <1>6, <3>1 DEF Goes
    <2>8. CASE pc'[p] = "reclaim" /\ shown
      <3>1. InSection(p)'
        BY <1>1, <2>1, <2>2, <2>3, <2>5, <2>6, <2>8
           DEF InSection, Entered, Retires, Appends, TakesBack, TakingBack, Calm
      <3> QED
        BY <1>6, <3>1 DEF Goes
    <2>9. CASE pc'[p] = "note" /\ ~ shown
      <3>1. InSection(p)'
        BY <1>1, <2>3, <2>6, <2>9
           DEF InSection, Entered, Retires, Appends, TakesBack, TakingBack, Calm
      <3> QED
        BY <1>6, <3>1 DEF Goes
    <2>10. CASE entries' = entries
      BY <1>8, <2>10
    <2> QED
      BY <1>6, <2>7, <2>8, <2>9, <2>10
  <1> QED
    BY <1>6, <1>8, <1>9

LEMMA UnpendGoes ==
  ASSUME NEW p, Context(p), Unpend(p)
  PROVE  Goes(p)
  <1> USE ContextIs
  <1>1. /\ pc[p] = "unpend" /\ Steady /\ Sorted /\ ~ shown /\ p \notin Working /\ Dead \subseteq {p}
        /\ p \in Secrets /\ UNCHANGED <<shown, entries>>
    BY DEF Unpend, At, outside, Entered, Appends, Calm, TakingBack, Minting
  <1>2. lease' = NoProc
    BY LeaveIs DEF Unpend
  <1>3. CASE row' = row
    BY <1>1, <1>2, <1>3, NothingMoves, LeavesGoes
  <1>4. CASE row' = [row EXCEPT ![p] = NoRow]
    <2>1. LiveRows' = LiveRows \ {p} /\ Keeps
      BY <1>1, <1>4, Unmint
    <2>3. Working' = Working
      BY <1>1 DEF Working
    <2>2. Steady' /\ Sorted'
      BY <1>1, <2>1, <2>3, SortedKept DEF Steady, Dead
    <2> QED
      BY <1>2, <2>2, LeavesGoes
  <1> QED
    BY <1>3, <1>4 DEF Unpend

LEMMA MirrorGoes ==
  ASSUME NEW p, Context(p), Mirror(p)
  PROVE  Goes(p)
  <1> USE ContextIs
  <1>1. /\ pc[p] = "mirror" /\ Sorted /\ p \in Ops /\ p \in Secrets
        /\ Working \ {p} \subseteq LiveRows /\ ~ op[p].whole
        /\ shown => Dead \subseteq Retiring
        /\ ~ shown \/ AppendFirst(p) => Dead \subseteq {p}
        /\ AppendFirst(p) => Placed(p)
        /\ IsLast(p) /\ HasLength(AppendIndex(p) + 1) /\ (~ shown => p \in LiveRows)
        /\ UNCHANGED <<shown, entries>>
    BY DEF Mirror, At, outside, Entered, Appends, TakingBack, Minting
  <1>2. /\ p \in Working /\ (shown => p \notin LiveRows /\ row[p].st = "none")
    BY <1>1 DEF Fresh, Typed, Unknown, CanMint, Working, IsLast
  <1>3. Working' = Working
    BY <1>1 DEF Working
  <1> DEFINE effect == IF shown THEN NewRow(p, "active")
                       ELSE row' = [row EXCEPT ![p].st = IF @ = "retiring" THEN "active" ELSE @]
  <1>4. \/ /\ effect /\ op' = op
           /\ lease' = NoProc \/ (lease' = lease /\ pc'[p] = "intent" /\ AppendFirst(p))
        \/ /\ row' = row \/ effect
           /\ lease' = lease /\ pc'[p] = IF shown THEN "reclaim" ELSE "note"
           /\ op' = [op EXCEPT ![p].why = "row"]
    BY LeaveIs DEF Mirror, Deliver, Step, Goto
  <1>5. ASSUME effect
        PROVE  /\ LiveRows' = LiveRows \cup {p} /\ Retiring \ {p} \subseteq Retiring' /\ Sorted'
               /\ row'[p].st # "revoked"
    <2>1. CASE shown
      <3>1. NewRow(p, "active")
        BY <1>5, <2>1
      <3>2. /\ LiveRows' = LiveRows \cup {p} /\ Retiring' = Retiring \ {p} /\ row'[p].st = "active"
            /\ \A c \in Secrets \ {p} : row'[c] = row[c] /\ row'[c].ord < row'[p].ord
        BY <1>1, <3>1, Mint
      <3>3. Sorted'
        <4> SUFFICES ASSUME NEW i \in DOMAIN entries', NEW j \in DOMAIN entries', i < j,
                            Live(entries[i])', Live(entries[j])'
                     PROVE  Precedes(entries[i], entries[j])'
          BY DEF Sorted
        <4>1. /\ entries' = entries /\ DOMAIN entries = 1..Len(entries) /\ Len(entries) \in Nat
              /\ \A k, l \in DOMAIN entries : entries[k] = entries[l] => k = l
              /\ entries[i] \in Secrets /\ entries[j] \in Secrets
          BY <1>1, LenProperties DEF Types, Array
        <4>2. i \in DOMAIN entries /\ j \in DOMAIN entries /\ entries[i] # p
          BY <1>1, <4>1 DEF IsLast
        <4>3. CASE entries[j] = p
          BY <3>2, <4>1, <4>2, <4>3 DEF Precedes
        <4>4. CASE entries[j] # p
          <5>1. row'[entries[i]] = row[entries[i]] /\ row'[entries[j]] = row[entries[j]]
            BY <3>2, <4>1, <4>2, <4>4
          <5>2. Live(entries[i]) /\ Live(entries[j])
            BY <4>1, <5>1 DEF Live
          <5> QED
            BY <1>1, <4>1, <4>2, <5>1, <5>2 DEF Sorted, Precedes
        <4> QED
          BY <4>3, <4>4
      <3> QED
        BY <3>2, <3>3
    <2>2. CASE ~ shown
      <3>1. row' = [row EXCEPT ![p].st = IF @ = "retiring" THEN "active" ELSE @]
        BY <1>5, <2>2
      <3>2. /\ LiveRows' = LiveRows /\ Retiring' = Retiring \ {p} /\ Keeps
        BY <3>1, Unretire
      <3>3. p \in LiveRows /\ LiveRows' = LiveRows \cup {p}
        BY <1>1, <2>2, <3>2
      <3>4. Sorted'
        BY <1>1, <3>2, SortedKept
      <3>5. row'[p].st # "revoked"
        BY <3>3 DEF LiveRows, Live
      <3> QED
        BY <3>2, <3>3, <3>4, <3>5
    <2> QED
      BY <2>1, <2>2
  <1> HIDE DEF effect
  <1>6. CASE effect /\ op' = op
    <2>1. Steady'
      BY <1>1, <1>2, <1>3, <1>5, <1>6 DEF Steady, Dead
    <2>2. CASE lease' = NoProc
      BY <1>5, <1>6, <2>1, <2>2, LeavesGoes
    <2>3. CASE lease' = lease /\ pc'[p] = "intent" /\ AppendFirst(p)
      <3>1. Exact'
        BY <1>1, <1>2, <1>3, <1>5, <1>6, <2>3 DEF Exact, Dead
      <3>2. AppendFirst(p)' /\ Placed(p)' /\ IsLast(p)' /\ op'[p] = op[p]
        BY <1>1, <1>6, <2>3 DEF AppendFirst, Placed, IsLast
      <3>3. HasLength(op[p].len + 1)'
        BY <1>1, <1>6, <2>3 DEF HasLength, AppendFirst, AppendIndex, DeleteFirst
      <3>4. InSection(p)'
        BY <1>1, <1>5, <1>6, <2>1, <2>3, <3>1, <3>2, <3>3
           DEF InSection, Entered, Retires, Appends, TakesBack, TakingBack
      <3> QED
        BY <2>3, <3>4 DEF Goes
    <2>4. CASE lease' = lease /\ pc'[p] \in {"reclaim", "note"} /\ op' = [op EXCEPT ![p].why = "row"]
      <3>1. op'[p].why = "row"
        BY <2>4
      <3>2. IsLast(p)' /\ Working' \subseteq LiveRows'
        BY <1>1, <2>1 DEF IsLast, Steady
      <3>3. InSection(p)'
        BY <1>5, <1>6, <2>4, <3>1, <3>2
           DEF InSection, Entered, Retires, Appends, TakesBack, TakingBack, Calm
      <3> QED
        BY <2>4, <3>3 DEF Goes
    <2> QED
      BY <1>4, <2>2, <2>3, <2>4
  <1>7. CASE /\ row' = row \/ effect
             /\ lease' = lease /\ pc'[p] = IF shown THEN "reclaim" ELSE "note"
             /\ op' = [op EXCEPT ![p].why = "row"]
    <2>1. op'[p].why = "row"
      BY <1>7
    <2>2. LiveRows \subseteq LiveRows'
      BY <1>5, <1>7, NothingWritten
    <2>3. Working' \ {p} \subseteq LiveRows' /\ (~ shown => Working' \subseteq LiveRows')
      BY <1>1, <1>3, <2>2
    <2>4. row'[p].st # "revoked"
      BY <1>1, <1>2, <1>5, <1>7 DEF LiveRows, Live
    <2>5. IsLast(p)'
      BY <1>1 DEF IsLast
    <2>6. InSection(p)'
      BY <1>1, <1>7, <2>1, <2>3, <2>4, <2>5
         DEF InSection, Entered, Retires, Appends, TakesBack, TakingBack, Calm
    <2> QED
      BY <1>7, <2>6 DEF Goes
  <1> QED
    BY <1>4, <1>6, <1>7

LEMMA ReclaimGoes ==
  ASSUME NEW p, Context(p), Reclaim(p)
  PROVE  Goes(p)
  <1> USE ContextIs
  <1>1. /\ pc[p] = "reclaim" /\ Working \ {p} \subseteq LiveRows /\ (~ shown => Working \subseteq LiveRows)
        /\ p \in Working => row[p].st # "revoked"
        /\ shown /\ Len(entries) = AppendIndex(p) + 1 => IsLast(p)
        /\ op[p].why = "post" =>
             /\ shown /\ Sorted /\ Dead \subseteq Retiring
             /\ Len(entries) = AppendIndex(p) => p \notin Working
        /\ UNCHANGED <<shown, entries, row, op>>
    BY DEF Reclaim, At, outside, TakesBack, TakingBack
  <1>2. /\ Working' = Working /\ LiveRows' = LiveRows /\ Steady' = Steady /\ Sorted' = Sorted
    BY <1>1, NothingMoves
  <1>3. \/ lease' = NoProc /\ shown /\ op[p].why = "post" /\ Len(entries) = AppendIndex(p)
        \/ lease' = lease /\ pc'[p] = "withdraw" /\ shown /\ Len(entries) = AppendIndex(p) + 1
        \/ lease' = lease /\ pc'[p] = "note"
    BY LeaveIs DEF Reclaim, Step, Goto
  <1>4. CASE lease' = NoProc /\ shown /\ op[p].why = "post" /\ Len(entries) = AppendIndex(p)
    <2>1. Steady /\ Sorted
      BY <1>1, <1>4 DEF Steady
    <2> QED
      BY <1>2, <1>4, <2>1, LeavesGoes
  <1>5. CASE lease' = lease /\ pc'[p] = "withdraw" /\ shown /\ Len(entries) = AppendIndex(p) + 1
    <2>1. IsLast(p)'
      BY <1>1, <1>5 DEF IsLast
    <2>2. InSection(p)'
      BY <1>1, <1>2, <1>5, <2>1
         DEF InSection, Entered, Retires, Appends, TakesBack, TakingBack, Calm
    <2> QED
      BY <1>5, <2>2 DEF Goes
  <1>6. CASE lease' = lease /\ pc'[p] = "note"
    <2>1. InSection(p)'
      BY <1>1, <1>2, <1>6
         DEF InSection, Entered, Retires, Appends, TakesBack, TakingBack, Calm
    <2> QED
      BY <1>6, <2>1 DEF Goes
  <1> QED
    BY <1>3, <1>4, <1>5, <1>6

(* The rest of a failed append: nothing but the entry and the row of the   *)
(* operation itself, and the target's row, is touched.                     *)
LEMMA TakingBackGoes ==
  ASSUME NEW p, Context(p), lease' = lease, shown' = shown, shown,
         pc'[p] \in {"reread", "unlist", "reactivate", "note"},
         Working' \ {p} \subseteq LiveRows', p \in Working' => row'[p].st # "revoked"
  PROVE  Goes(p)
  <1>1. InSection(p)'
    BY DEF InSection, Entered, Retires, Appends, TakesBack, TakingBack, Calm
  <1> QED
    BY <1>1, ContextIs DEF Goes

LEMMA WithdrawGoes ==
  ASSUME NEW p, Context(p), Withdraw(p)
  PROVE  Goes(p)
  <1> USE ContextIs
  <1>1. /\ pc[p] = "withdraw" /\ Working \ {p} \subseteq LiveRows /\ shown
        /\ p \in Working => row[p].st # "revoked"
        /\ shown /\ Len(entries) = AppendIndex(p) + 1 => IsLast(p)
        /\ UNCHANGED <<shown, row, op>>
    BY DEF Withdraw, At, outside, TakesBack, TakingBack
  <1>2. /\ entries' = entries \/ entries' = Without(AppendIndex(p) + 1)
        /\ lease' = lease /\ pc'[p] \in {"reread", "unlist", "note"}
    BY DEF Withdraw, EdgeDelete, Step, Goto, AfterWithdrawal
  <1>3. p \in Ops
    BY <1>1 DEF Minting
  <1>4. Len(entries) = AppendIndex(p) + 1 /\ IsLast(p)
    BY <1>1, <1>3 DEF Array, At
  <1>5. LiveRows' = LiveRows
    BY <1>1, NothingWritten
  <1>6. Working' = Working \/ Working' = Working \ {p}
    <2>1. entries' = entries => Working' = Working
      BY DEF Working
    <2>2. AppendIndex(p) + 1 \in DOMAIN entries /\ entries[AppendIndex(p) + 1] = p
      BY <1>4 DEF IsLast
    <2> QED
      BY <1>2, <2>1, <2>2, TakeOut
  <1> QED
    BY <1>1, <1>2, <1>5, <1>6, TakingBackGoes

LEMMA RereadGoes ==
  ASSUME NEW p, Context(p), Reread(p)
  PROVE  Goes(p)
  <1> USE ContextIs
  <1>1. /\ pc[p] = "reread" /\ Working \ {p} \subseteq LiveRows /\ shown
        /\ p \in Working => row[p].st # "revoked"
        /\ UNCHANGED <<shown, entries, row>>
    BY DEF Reread, At, outside, TakesBack, TakingBack
  <1>2. lease' = lease /\ pc'[p] \in {"reread", "unlist", "reactivate", "note"}
    BY DEF Reread, Step, Goto, AfterWithdrawal
  <1> QED
    BY <1>1, <1>2, NothingMoves, TakingBackGoes

LEMMA UnlistGoes ==
  ASSUME NEW p, Context(p), Unlist(p)
  PROVE  Goes(p)
  <1> USE ContextIs
  <1>1. /\ pc[p] = "unlist" /\ Working \ {p} \subseteq LiveRows /\ shown /\ p \in Secrets
        /\ p \in Working => row[p].st # "revoked"
        /\ UNCHANGED <<shown, entries>>
    BY DEF Unlist, At, outside, TakesBack, TakingBack, Minting
  <1>2. /\ row' = row \/ row' = [row EXCEPT ![p] = NoRow]
        /\ lease' = lease /\ pc'[p] = "reactivate"
    BY DEF Unlist, Write, Step, Goto
  <1>3. Working' = Working
    BY <1>1 DEF Working
  <1>4. LiveRows \ {p} \subseteq LiveRows' /\ (row'[p].st = "revoked" => row[p].st = "revoked")
    BY <1>1, <1>2, Unmint, NothingWritten
  <1> QED
    BY <1>1, <1>2, <1>3, <1>4, TakingBackGoes

LEMMA ReactivateGoes ==
  ASSUME NEW p, Context(p), Reactivate(p)
  PROVE  Goes(p)
  <1> USE ContextIs
  <1> DEFINE t == op[p].target
  <1>1. /\ pc[p] = "reactivate" /\ Working \ {p} \subseteq LiveRows /\ shown /\ p \in Secrets
        /\ p \in Working => row[p].st # "revoked"
        /\ UNCHANGED <<shown, entries>>
    BY DEF Reactivate, At, outside, TakesBack, TakingBack, Minting
  <1>2. /\ row' = row \/ SetStatus(t, "active")
        /\ lease' = lease /\ pc'[p] = "note"
    BY DEF Reactivate, Write, Step, Goto
  <1>3. Working' = Working
    BY <1>1 DEF Working
  <1>4. LiveRows \subseteq LiveRows' /\ (row'[p].st = "revoked" => row[p].st = "revoked")
    <2>1. CASE row' = row
      BY <2>1, NothingWritten
    <2>2. CASE SetStatus(t, "active") /\ t \in Secrets
      BY <1>1, <2>2, Activate
    <2>3. CASE SetStatus(t, "active") /\ t \notin Secrets
      <3>1. row' = row
        BY <2>3 DEF SetStatus, Types
      <3> QED
        BY <3>1, NothingWritten
    <2> QED
      BY <1>2, <2>1, <2>2, <2>3
  <1> QED
    BY <1>1, <1>2, <1>3, <1>4, TakingBackGoes

LEMMA RotatedGoes ==
  ASSUME NEW p, Context(p), Rotated(p)
  PROVE  Goes(p)
  <1> USE ContextIs
  <1> DEFINE t == op[p].target
  <1>1. /\ pc[p] = "rotated" /\ Sorted /\ t \notin Working /\ Working \subseteq LiveRows
        /\ Dead \subseteq {t} /\ UNCHANGED <<shown, entries>>
    BY DEF Rotated, At, outside, Entered, Retires, TakingBack
  <1>2. \/ SetStatus(t, "revoked") /\ lease' = NoProc
        \/ (row' = row \/ SetStatus(t, "revoked")) /\ lease' = lease /\ pc'[p] = "note"
    BY LeaveIs DEF Rotated, Deliver, Step, Goto
  <1>3. Working' = Working
    BY <1>1 DEF Working
  <1>4. SetStatus(t, "revoked") => LiveRows' = LiveRows \ {t} /\ Retiring' = Retiring \ {t} /\ Keeps
    BY Revoke
  <1>5. Working' \subseteq LiveRows'
    BY <1>1, <1>2, <1>3, <1>4, NothingWritten
  <1>6. CASE SetStatus(t, "revoked") /\ lease' = NoProc
    <2>1. Steady' /\ Sorted'
      BY <1>1, <1>3, <1>4, <1>6, SortedKept DEF Steady, Dead
    <2> QED
      BY <1>6, <2>1, LeavesGoes
  <1>7. CASE lease' = lease /\ pc'[p] = "note"
    <2>1. p \in Working' => row'[p].st # "revoked"
      BY <1>5 DEF LiveRows, Live
    <2>2. InSection(p)'
      BY <1>5, <1>7, <2>1 DEF InSection, Entered, Retires, Appends, TakesBack, TakingBack, Calm
    <2> QED
      BY <1>7, <2>2 DEF Goes
  <1> QED
    BY <1>2, <1>6, <1>7

LEMMA WipeGoes ==
  ASSUME NEW p, Context(p), Wipe(p), ~ emptied'
  PROVE  Goes(p)
  <1> USE ContextIs
  <1>1. Steady /\ Sorted /\ UNCHANGED <<shown, row>>
    BY DEF Wipe, At, outside, Entered, Calm, TakingBack
  <1>2. UNCHANGED entries /\ Leave(p, FALSE)
    BY DEF Wipe
  <1> QED
    BY <1>1, <1>2, NothingMoves, LeaveIs, LeavesGoes

LEMMA ClearRowsGoes ==
  ASSUME Typed, Emptied, NEW p \in Procs, ClearRows(p), ~ emptied'
  PROVE  lease' = NoProc /\ Steady' /\ Sorted'
  <1>1. Types /\ lease = p
    BY DEF Typed, WellFormed, ClearRows, At
  <1>2. lease' = NoProc
    BY <1>1, LeaveIs DEF ClearRows, WriteAndLeave
  <1>3. entries' = <<>>
    BY DEF ClearRows, Emptied
  <1>4. row' = row \/ RevokeAll
    BY DEF ClearRows, WriteAndLeave
  <1>5. ~ (row' = row /\ LiveRows # {})
    BY DEF ClearRows
  <1>6. LiveRows' = {}
    BY <1>1, <1>4, <1>5, RevokeEvery, NothingWritten
  <1>7. Sorted' /\ Working' = {}
    BY <1>3, EmptyIsSorted
  <1> QED
    BY <1>2, <1>6, <1>7 DEF Steady, Dead

-----------------------------------------------------------------------------
(* What was noted stays noted, and a secret is handed out when its         *)
(* operation ends.                                                         *)
Remembers(p) ==
    /\ noted \subseteq noted' /\ blind \subseteq blind'
    /\ emptied => emptied' \/ ClearRows(p)
    /\ delivered' = delivered \/ (delivered' = delivered \cup {p} /\ lease' = NoProc)

LEMMA SectionRemembers ==
  ASSUME Typed, NEW p \in Procs, SectionStep(p), ~ Enter(p)
  PROVE  Remembers(p)
  <1>1. Types /\ lease = p
    BY SectionMoves DEF Typed, WellFormed
  <1>2. ASSUME UNCHANGED history PROVE Remembers(p)
    BY <1>2 DEF Remembers, history
  <1>3. CASE Check(p) \/ Get(p) \/ SettleLostRetirement(p) \/ Place(p) \/ Gate(p) \/ Intent(p)
    BY <1>2, <1>3 DEF Check, Get, SettleLostRetirement, Place, Gate, Intent
  <1>4. CASE Delete(p) \/ Probe(p) \/ Retired(p) \/ Close(p) \/ Pend(p) \/ AppendEntry(p) \/ Unpend(p)
    BY <1>2, <1>4 DEF Delete, Probe, Retired, Close, Pend, AppendEntry, Unpend
  <1>5. CASE Reclaim(p) \/ Withdraw(p) \/ Reread(p) \/ Unlist(p)
    BY <1>2, <1>5 DEF Reclaim, Withdraw, Reread, Unlist
  <1>6. CASE WithdrawRetirement(p)
    BY <1>6 DEF WithdrawRetirement, Remembers
  <1>7. CASE Reactivate(p)
    BY <1>7 DEF Reactivate, Remembers
  <1>8. CASE Mirror(p)
    BY <1>1, <1>8, LeaveIs DEF Mirror, Deliver, Remembers
  <1>9. CASE Rotated(p)
    BY <1>1, <1>9, LeaveIs DEF Rotated, Deliver, Remembers
  <1>10. CASE Note(p)
    BY <1>10 DEF Note, Remembers
  <1>11. CASE Wipe(p)
    <2>1. UNCHANGED <<noted, blind, delivered>> /\ (emptied' = TRUE \/ emptied' = emptied)
      BY <1>11 DEF Wipe
    <2>2. noted' = noted /\ blind' = blind /\ delivered' = delivered
      BY <2>1
    <2>3. emptied => emptied'
      BY <2>1
    <2> QED
      BY <2>2, <2>3 DEF Remembers
  <1>12. CASE ClearRows(p)
    BY <1>12 DEF ClearRows, Remembers
  <1> QED
    BY <1>3, <1>4, <1>5, <1>6, <1>7, <1>8, <1>9, <1>10, <1>11, <1>12 DEF SectionStep

(* Outside a section the lease changes hands in two ways only. *)
LEMMA OutsideLease ==
  ASSUME WellFormed, OutsideStep
  PROVE  /\ blind \subseteq blind'
         /\ \/ lease' = lease /\ \A q \in Procs : lease = q => pc'[q] = pc[q]
            \/ lease = NoProc /\ \E q \in Procs : lease' = q /\ pc'[q] = "check"
            \/ lease' = NoProc /\ lease \in Procs /\ (lease \in Ops => blind' # {})
  <1>1. /\ Types /\ pc \in [Procs -> Labels] /\ \A q \in Procs : lease = q => pc[q] \in Inside
        /\ NoProc \notin Procs /\ Ops \subseteq Procs /\ Runners \subseteq Procs
    BY CredentialsAssumption DEF WellFormed, Places, Types, Procs
  <1>2. ASSUME NEW q \in Procs, lease = q PROVE pc[q] \notin Running \cup {"idle", "key"}
    BY <1>1, <1>2 DEF Inside, Entering, Minting, Retirement, Running
  <1>3. ASSUME NEW p \in Ops, NEW k, NEW t, Begin(p, k, t)
        PROVE  lease' = lease /\ blind' = blind /\ \A q \in Procs : lease = q => pc'[q] = pc[q]
    BY <1>1, <1>2, <1>3 DEF Begin, Goto, history
  <1>4. ASSUME NEW p \in Procs, Enter(p)
        PROVE  /\ blind' = blind
               /\ \/ lease' = lease /\ \A q \in Procs : lease = q => pc'[q] = pc[q]
                  \/ lease = NoProc /\ \E q \in Procs : lease' = q /\ pc'[q] = "check"
    <2>1. pc[p] = "key" /\ lease # p /\ blind' = blind
      BY <1>2, <1>4 DEF Enter, history
    <2>2. CASE lease = NoProc /\ lease' = p /\ Goto(p, "check")
      BY <1>1, <2>1, <2>2 DEF Goto
    <2>3. CASE Leave(p, FALSE)
      BY <1>1, <2>1, <2>3 DEF Leave, Goto
    <2> QED
      BY <1>4, <2>1, <2>2, <2>3 DEF Enter, ReadFails
  <1>5. ASSUME NEW p \in Procs, Crash(p)
        PROVE  /\ blind \subseteq blind'
               /\ \/ lease' = lease /\ \A q \in Procs : lease = q => pc'[q] = pc[q]
                  \/ lease' = NoProc /\ lease \in Procs /\ (lease \in Ops => blind' # {})
    BY <1>1, <1>5 DEF Crash
  <1>6. ASSUME NEW r \in Runners, RunnerStep(r)
        PROVE  lease' = lease /\ blind' = blind /\ \A q \in Procs : lease = q => pc'[q] = pc[q]
    <2>1. pc[r] \in Running \cup {"idle"} /\ lease' = lease /\ blind' = blind
      BY <1>6 DEF RunnerStep, Claim, List, RevokeNext, Barrier, Finish, Fail, Running, history
    <2>2. lease # r
      BY <1>1, <1>2, <2>1
    <2>3. \A q \in Procs \ {r} : pc'[q] = pc[q]
      BY <1>1, <1>6 DEF RunnerStep, Claim, List, RevokeNext, Barrier, Finish, Fail, Goto
    <2> QED
      BY <2>1, <2>2, <2>3
  <1>7. ASSUME ReleaseStale \/ Reset \/ Disable \/ Enable \/ UNCHANGED vars
        PROVE  lease' = lease /\ blind' = blind /\ pc' = pc
    BY <1>7 DEF ReleaseStale, Reset, Disable, Enable, vars, history
  <1> QED
    BY <1>3, <1>4, <1>5, <1>6, <1>7 DEF OutsideStep

LEMMA HandedOutStep ==
  ASSUME Typed, HandedOut, [Next]_vars
  PROVE  HandedOut'
  <1>1. /\ WellFormed /\ Types /\ pc \in [Procs -> Labels] /\ Ops \subseteq Procs
        /\ NoProc \notin Procs
    BY CredentialsAssumption DEF Typed, WellFormed, Types, Procs
  <1>2. ASSUME NEW p \in Procs, SectionStep(p), ~ Enter(p), NEW q \in Ops, q \in delivered'
        PROVE  pc'[q] = "done"
    <2>1. /\ lease = p /\ pc' = [pc EXCEPT ![p] = pc'[p]] /\ (Leaves(p) \/ Stays(p))
          /\ pc[p] \in Inside
      BY <1>1, <1>2, SectionMoves DEF Moves, WellFormed, Places
    <2>2. Remembers(p)
      BY <1>2, SectionRemembers
    <2>3. CASE q = p
      <3>1. q \notin delivered
        BY <2>1, <2>3 DEF HandedOut, Inside, Entering, Minting, Retirement
      <3>2. lease' = NoProc
        BY <1>2, <2>2, <2>3, <3>1 DEF Remembers
      <3> QED
        BY <1>1, <2>1, <2>3, <3>2 DEF Leaves, Stays
    <2>4. CASE q # p
      BY <1>1, <1>2, <2>1, <2>2, <2>4 DEF Remembers, HandedOut
    <2> QED
      BY <2>3, <2>4
  <1>3. ASSUME OutsideStep, NEW q \in Ops, q \in delivered' PROVE pc'[q] = "done"
    <2>1. delivered' = delivered
      BY <1>1, <1>3, OutsideIs DEF Outside
    <2>2. pc[q] = "done" /\ q \in Procs /\ q \notin Runners
      BY <1>1, <1>3, <2>1, CredentialsAssumption DEF HandedOut
    <2>3. ASSUME NEW p \in Procs, Enter(p) PROVE pc'[q] = "done"
      BY <1>1, <2>2, <2>3 DEF Enter, ReadFails, Leave, Goto
    <2>4. ASSUME NEW r \in Runners, RunnerStep(r) PROVE pc'[q] = "done"
      BY <1>1, <2>2, <2>4 DEF RunnerStep, Claim, List, RevokeNext, Barrier, Finish, Fail, Goto
    <2>5. ASSUME NEW p \in Ops, NEW k, NEW t, Begin(p, k, t) PROVE pc'[q] = "done"
      BY <1>1, <2>2, <2>5 DEF Begin, Goto
    <2>6. ASSUME NEW p \in Procs, Crash(p) PROVE pc'[q] = "done"
      BY <1>1, <2>2, <2>6 DEF Crash
    <2>7. ASSUME ReleaseStale \/ Reset \/ Disable \/ Enable \/ UNCHANGED vars PROVE pc' = pc
      BY <2>7 DEF ReleaseStale, Reset, Disable, Enable, vars
    <2> QED
      BY <1>3, <2>2, <2>3, <2>4, <2>5, <2>6, <2>7 DEF OutsideStep
  <1> QED
    BY <1>2, <1>3, NextIs DEF HandedOut

-----------------------------------------------------------------------------
LEMMA SectionMirrored ==
  ASSUME Typed, NotItself, TargetIsLive, Emptied, Mirrored, NeverFallsBack',
         NEW p \in Procs, SectionStep(p), ~ Enter(p)
  PROVE  Mirrored'
  <1> SUFFICES ASSUME Traceable' PROVE /\ lease' = NoProc => Steady' /\ Sorted'
                                       /\ \A q \in Procs : lease' = q => InSection(q)'
    BY DEF Mirrored
  <1>1. lease = p /\ (lease' = NoProc \/ lease' = p) /\ NoProc \notin Procs /\ Remembers(p)
    BY SectionMoves, SectionRemembers, CredentialsAssumption
       DEF Typed, WellFormed, Leaves, Stays, Procs
  <1>2. CASE ClearRows(p)
    BY <1>1, <1>2, ClearRowsGoes DEF Traceable
  <1>3. CASE ~ ClearRows(p)
    <2>1. Traceable
      BY <1>1, <1>3 DEF Traceable, Remembers
    <2>2. Context(p)
      BY <1>1, <2>1 DEF Context, Mirrored
    <2>3. ~ emptied'
      BY DEF Traceable
    <2>4. ~ Note(p)
      BY DEF Note, Traceable
    <2>5. Goes(p)
      BY <1>3, <2>2, <2>3, <2>4, CheckGoes, GetGoes, SettleGoes, PlaceGoes, GateGoes, IntentGoes,
         DeleteGoes, ProbeGoes, WithdrawRetirementGoes, RetiredGoes, CloseGoes, PendGoes,
         AppendGoes, UnpendGoes, MirrorGoes, ReclaimGoes, WithdrawGoes, RereadGoes, UnlistGoes,
         ReactivateGoes, RotatedGoes, WipeGoes DEF SectionStep
    <2> QED
      BY <1>1, <2>5 DEF Goes
  <1> QED
    BY <1>2, <1>3

LEMMA OutsideMirrored ==
  ASSUME Typed, Mirrored, OutsideStep
  PROVE  Mirrored'
  <1> SUFFICES ASSUME Traceable' PROVE /\ lease' = NoProc => Steady' /\ Sorted'
                                       /\ \A q \in Procs : lease' = q => InSection(q)'
    BY DEF Mirrored
  <1>1. WellFormed /\ Types /\ Places /\ NoProc \notin Procs
    BY CredentialsAssumption DEF Typed, WellFormed, Procs
  <1>2. PICK p : Outside(p)
    BY <1>1, OutsideIs
  <1>3. /\ UNCHANGED <<shown, entries, row, noted, emptied>>
        /\ \A q \in Procs : lease' = q => op'[q] = op[q]
    BY <1>2 DEF Outside
  <1>4. /\ blind \subseteq blind'
        /\ \/ lease' = lease /\ \A q \in Procs : lease = q => pc'[q] = pc[q]
           \/ lease = NoProc /\ \E q \in Procs : lease' = q /\ pc'[q] = "check"
           \/ lease' = NoProc /\ lease \in Procs /\ (lease \in Ops => blind' # {})
    BY <1>1, OutsideLease
  <1>5. Traceable
    BY <1>3, <1>4 DEF Traceable
  <1>6. /\ Working' = Working /\ LiveRows' = LiveRows /\ Retiring' = Retiring /\ Dead' = Dead
        /\ Steady' = Steady /\ Sorted' = Sorted /\ Exact' = Exact
    BY <1>3, NothingMoves
  <1>7. CASE lease' = lease /\ \A q \in Procs : lease = q => pc'[q] = pc[q]
    <2>1. ASSUME NEW q \in Procs, lease' = q PROVE InSection(q)'
      <3>1. pc'[q] = pc[q] /\ op'[q] = op[q] /\ InSection(q)
        BY <1>3, <1>5, <1>7, <2>1 DEF Mirrored
      <3>2. /\ Placed(q)' = Placed(q) /\ IsLast(q)' = IsLast(q)
            /\ AppendFirst(q)' = AppendFirst(q) /\ AppendIndex(q)' = AppendIndex(q)
            /\ HasLength(op[q].len)' = HasLength(op[q].len)
            /\ HasLength(op[q].len + 1)' = HasLength(op[q].len + 1)
            /\ HasLength(op[q].len - 1)' = HasLength(op[q].len - 1)
            /\ HasLength(AppendIndex(q))' = HasLength(AppendIndex(q))
            /\ HasLength(AppendIndex(q) + 1)' = HasLength(AppendIndex(q) + 1)
        BY <1>3, <3>1 DEF Placed, IsLast, AppendFirst, AppendIndex, DeleteFirst, HasLength
      <3>3. Entered(q)'
        BY <1>3, <1>6, <3>1, <3>2 DEF InSection, Entered
      <3>4. Retires(q)'
        BY <1>3, <1>6, <3>1, <3>2 DEF InSection, Retires
      <3>5. Appends(q)'
        BY <1>3, <1>6, <3>1, <3>2 DEF InSection, Appends
      <3>6. TakesBack(q)'
        BY <1>3, <1>6, <3>1, <3>2 DEF InSection, TakesBack
      <3> QED
        BY <3>3, <3>4, <3>5, <3>6 DEF InSection
    <2> QED
      BY <1>5, <1>6, <1>7, <2>1 DEF Mirrored
  <1>8. CASE lease = NoProc /\ \E q \in Procs : lease' = q /\ pc'[q] = "check"
    <2>1. Steady' /\ Sorted'
      BY <1>5, <1>6, <1>8 DEF Mirrored
    <2>2. ASSUME NEW q \in Procs, lease' = q PROVE InSection(q)'
      <3>1. pc'[q] = "check"
        BY <1>8, <2>2
      <3> QED
        BY <2>1, <3>1 DEF InSection, Entered, Retires, Appends, TakesBack, TakingBack
    <2> QED
      BY <2>1, <2>2
  <1>9. CASE lease' = NoProc /\ lease \in Procs /\ (lease \in Ops => blind' # {})
    <2>1. PICK r \in Runners : lease = r
      BY <1>9 DEF Traceable, Procs
    <2>2. r \in Procs /\ pc[r] \in Calm
      <3>1. r \in Procs /\ pc[r] \in Inside /\ Fits(r)
        BY <1>1, <2>1 DEF Places, Procs
      <3> QED
        BY <3>1 DEF Fits, Mints, Inside, Entering, Minting, Retirement, Calm
    <2>3. Steady /\ Sorted
      BY <1>5, <2>1, <2>2 DEF Mirrored, InSection, Entered, Calm, TakingBack
    <2> QED
      BY <1>1, <1>6, <1>9, <2>3
  <1> QED
    BY <1>4, <1>7, <1>8, <1>9

-----------------------------------------------------------------------------
(* At first the rows are the entries' own, in their order. *)
LEMMA InitMirrored == Init => Mirrored
  <1> SUFFICES ASSUME Init PROVE Mirrored
    OBVIOUS
  <1> DEFINE n == Cardinality(Initial)
  <1>1. PICK order \in [1..n -> Initial], unplaced \in {{}, Legacy} :
          /\ \A i, j \in DOMAIN order : order[i] = order[j] => i = j
          /\ \A i, j \in DOMAIN order : order[i] \in unplaced /\ order[j] \notin unplaced => i < j
          /\ entries = order
          /\ row = [c \in Secrets |->
                      IF c \in Initial
                      THEN [st |-> "active", late |-> 0,
                            ord |-> IF c \in unplaced THEN 0
                                    ELSE CHOOSE i \in DOMAIN order : order[i] = c]
                      ELSE NoRow]
    BY DEF Init
  <1>2. /\ lease = NoProc /\ NoProc \notin Procs /\ n \in Nat /\ Initial \subseteq Secrets
        /\ IsFiniteSet(Initial)
    BY CredentialsAssumption, FS_CardinalityType DEF Init, Procs, Secrets
  <1>3. DOMAIN entries = 1..n /\ \A i \in 1..n : order[i] \in Initial
    BY <1>1
  <1>4. Working = Initial
    <2>1. order \in Injection(1..n, Initial)
      BY <1>1, <1>3 DEF Injection, IsInjective
    <2>2. Cardinality(1..n) = n
      <3>1. 1 \in Int /\ n \in Int
        BY <1>2
      <3>2. Cardinality(1..n) = IF 1 > n THEN 0 ELSE n - 1 + 1
        BY <3>1, FS_Interval
      <3> QED
        BY <1>2, <3>2
    <2>3. order \in Surjection(1..n, Initial)
      BY <1>2, <2>1, <2>2, FS_Injection
    <2>4. \A c \in Initial : \E i \in 1..n : order[i] = c
      BY <2>3 DEF Surjection
    <2> QED
      BY <1>1, <1>3, <2>4 DEF Working
  <1>5. ASSUME NEW c \in Secrets
        PROVE  row[c].st = (IF c \in Initial THEN "active" ELSE "none")
    BY <1>1 DEF NoRow
  <1>6. LiveRows = Initial
    BY <1>2, <1>5 DEF LiveRows, Live
  <1>7. Steady
    BY <1>4, <1>6 DEF Steady, Dead
  <1>8. ASSUME NEW i \in 1..n
        PROVE  row[order[i]].ord = IF order[i] \in unplaced THEN 0 ELSE i
    <2>1. (CHOOSE k \in DOMAIN order : order[k] = order[i]) = i
      BY <1>1
    <2>2. order[i] \in Secrets /\ order[i] \in Initial
      BY <1>2, <1>3
    <2> QED
      BY <1>1, <2>1, <2>2
  <1>9. Sorted
    <2> SUFFICES ASSUME NEW i \in DOMAIN entries, NEW j \in DOMAIN entries, i < j
                 PROVE  Precedes(entries[i], entries[j])
      BY DEF Sorted
    <2>1. /\ row[entries[i]].ord = IF order[i] \in unplaced THEN 0 ELSE i
          /\ row[entries[j]].ord = IF order[j] \in unplaced THEN 0 ELSE j
          /\ i \in 1..n /\ j \in 1..n /\ i \in DOMAIN order /\ j \in DOMAIN order
      BY <1>1, <1>3, <1>8
    <2>2. order[j] \in unplaced => order[i] \in unplaced
      BY <1>1, <2>1
    <2> DEFINE a == row[entries[i]].ord
               b == row[entries[j]].ord
    <2>3. (a = 0 /\ b = 0) \/ (a = 0 /\ b = j) \/ (a = i /\ b = j)
      BY <2>1, <2>2
    <2>4. 0 < j /\ i < j
      BY <1>2, <2>1
    <2> HIDE DEF a, b
    <2>5. (a = 0 /\ b = 0) \/ a < b
      BY <2>3, <2>4
    <2> QED
      BY <2>5 DEF Precedes, a, b
  <1> QED
    BY <1>2, <1>7, <1>9 DEF Mirrored

MirroredInv == Typed /\ NotItself /\ TargetIsLive /\ Emptied /\ HandedOut /\ Mirrored

LEMMA InitMirroredInv == Init => MirroredInv
  <1> SUFFICES ASSUME Init PROVE MirroredInv
    OBVIOUS
  <1>1. /\ lease = NoProc /\ NoProc \notin Procs /\ op = [p \in Procs |-> NoOp]
        /\ Ops \subseteq Procs /\ delivered = Initial /\ Initial \cap Ops = {}
        /\ NoProc \notin Ops /\ torn = FALSE
    BY CredentialsAssumption DEF Init, Procs
  <1>2. NotItself
    BY <1>1 DEF NotItself, NoOp
  <1>3. TargetIsLive
    BY <1>1 DEF TargetIsLive
  <1>4. Emptied
    BY <1>1 DEF Emptied, At
  <1>5. HandedOut
    BY <1>1 DEF HandedOut
  <1> QED
    BY <1>2, <1>3, <1>4, <1>5, InitTyped, InitMirrored DEF MirroredInv

LEMMA MirroredInvStep == MirroredInv /\ [Next]_vars /\ NeverFallsBack' => MirroredInv'
  <1> SUFFICES ASSUME MirroredInv, [Next]_vars, NeverFallsBack' PROVE MirroredInv'
    OBVIOUS
  <1>1. Typed /\ NotItself /\ TargetIsLive /\ Emptied /\ HandedOut /\ Mirrored
    BY DEF MirroredInv
  <1>2. Emptied'
    BY <1>1, NextIs, SectionEmptied, OutsideEmptied
  <1>3. Mirrored'
    BY <1>1, NextIs, SectionMirrored, OutsideMirrored
  <1> QED
    BY <1>1, <1>2, <1>3, NextTyped, NotItselfStep, TargetIsLiveStep, HandedOutStep DEF MirroredInv

(* A secret without a live row belongs to the operation inside the section, *)
(* which is appending it or taking it back; and never with a revoked row.   *)
LEMMA WhatHasNoRow ==
  ASSUME MirroredInv, Traceable, NEW c \in Working \ LiveRows
  PROVE  shown /\ c \in Ops /\ pc[c] # "done" /\ row[c].st # "revoked"
  <1>1. /\ Typed /\ WellFormed /\ Types /\ Places /\ Unknown /\ Unappended /\ Emptied
        /\ Mirrored /\ shown \in BOOLEAN
    BY DEF MirroredInv, Typed, WellFormed, Types
  <1>2. ~ (Working \subseteq LiveRows)
    OBVIOUS
  <1>3. PICK p \in Procs : lease = p
    <2>1. lease \in Procs \cup {NoProc}
      BY <1>1 DEF Types
    <2> QED
      BY <1>1, <1>2, <2>1 DEF Mirrored, Steady
  <1>4. pc[p] \in Inside /\ Fits(p) /\ InSection(p)
    BY <1>1, <1>3 DEF Places, Mirrored
  <1>5. pc[p] \notin Calm \cup {"rotated", "clearrows"}
    <2>1. pc[p] \notin Calm
      BY <1>2, <1>4 DEF InSection, Entered, Steady
    <2>2. pc[p] # "rotated"
      BY <1>2, <1>4 DEF InSection, Retires
    <2>3. pc[p] # "clearrows"
      BY <1>1, <1>2, <1>3 DEF Emptied, At, Working
    <2> QED
      BY <2>1, <2>2, <2>3
  <1>6. pc[p] \in {"pend", "append", "mirror"} \cup TakingBack
    BY <1>4, <1>5 DEF Inside, Entering, Minting, Retirement, Calm, TakingBack
  <1>7. p \in Ops /\ pc[p] # "done"
    BY <1>4, <1>6 DEF Fits, Mints, Minting, TakingBack, Procs
  <1>8. CASE pc[p] \in {"pend", "append", "mirror"}
    <2>1. Working \ {p} \subseteq LiveRows
      BY <1>4, <1>8 DEF InSection, Appends
    <2>2. c = p
      BY <2>1
    <2>3. pc[p] = "mirror"
      BY <1>1, <1>7, <1>8, <2>2 DEF Unappended, Fresh
    <2>4. shown
      BY <1>4, <2>2, <2>3 DEF InSection, Appends
    <2>5. row[p].st = "none"
      BY <1>1, <1>7, <2>3, <2>4 DEF Unknown, CanMint, Fresh
    <2> QED
      BY <1>7, <2>2, <2>4, <2>5
  <1>9. CASE pc[p] \in TakingBack
    <2>1. /\ Working \ {p} \subseteq LiveRows /\ (~ shown => Working \subseteq LiveRows)
          /\ p \in Working => row[p].st # "revoked"
      BY <1>4, <1>9 DEF InSection, TakesBack
    <2> QED
      BY <1>7, <2>1
  <1> QED
    BY <1>6, <1>8, <1>9

(* What takes a secret from the array knows whose it is. *)
LEMMA NoKeyIsLost ==
  ASSUME MirroredInv, Traceable, [Next]_vars
  PROVE  ~ KeyLost
  <1> SUFFICES ASSUME NEW c \in delivered, c \in Working, c \notin Working', row[c].st # "retiring",
                      ~ \E p \in Procs : lease = p /\ EmptiesType(p)
               PROVE  FALSE
    BY DEF KeyLost
  <1>1. /\ Typed /\ WellFormed /\ Types /\ Places /\ Array /\ HandedOut /\ Mirrored
    BY DEF MirroredInv, Typed, WellFormed
  <1>2. entries' # entries
    BY DEF Working
  <1>3. PICK p \in Procs : SectionStep(p) /\ ~ Enter(p)
    BY <1>1, <1>2, NextIs, OutsideIs DEF Outside
  <1>4. lease = p /\ ~ EmptiesType(p) /\ InSection(p) /\ pc[p] \in Inside /\ Fits(p)
    BY <1>1, <1>3, SectionMoves DEF Mirrored, Places
  <1>5. ASSUME NEW i \in DOMAIN entries, entries' = Without(i) PROVE entries[i] = c
    BY <1>1, <1>5, TakeOut
  <1>6. ~ Delete(p)
    <2> SUFFICES ASSUME Delete(p) PROVE FALSE
      OBVIOUS
    <2>1. pc[p] = "delete" /\ ~ op[p].whole
      BY <1>4 DEF Delete, At, EmptiesType
    <2>2. Placed(p) /\ op[p].target \in Retiring
      BY <1>4, <2>1 DEF InSection, Retires
    <2>3. op[p].pos \in DOMAIN entries /\ entries[op[p].pos] = op[p].target
      BY <2>2 DEF Placed
    <2>4. entries' = Without(op[p].pos)
      BY <1>2, <2>1, <2>3 DEF Delete, EdgeDelete
    <2>5. op[p].target = c
      BY <1>5, <2>3, <2>4
    <2> QED
      BY <2>2, <2>5 DEF Retiring
  <1>7. ~ Withdraw(p)
    <2> SUFFICES ASSUME Withdraw(p) PROVE FALSE
      OBVIOUS
    <2>1. pc[p] = "withdraw" /\ entries' = Without(AppendIndex(p) + 1)
      BY <1>2 DEF Withdraw, At, EdgeDelete
    <2>2. p \in Ops
      BY <1>4, <2>1 DEF Fits, Mints, Minting, Procs
    <2>3. shown
      BY <1>4, <2>1 DEF InSection, TakesBack
    <2>4. Len(entries) = AppendIndex(p) + 1
      BY <1>1, <1>4, <2>1, <2>2 DEF Array, At
    <2>5. IsLast(p)
      BY <1>4, <2>1, <2>3, <2>4 DEF InSection, TakesBack
    <2>6. c = p
      BY <1>5, <2>1, <2>4, <2>5 DEF IsLast
    <2> QED
      BY <1>1, <2>1, <2>2, <2>6 DEF HandedOut
  <1>8. ~ AppendEntry(p)
    <2> SUFFICES ASSUME entries' = Append(entries, p) PROVE FALSE
      BY <1>2 DEF AppendEntry
    <2>1. entries \in Seq(Secrets)
      BY <1>1 DEF Types
    <2>2. p \in Secrets \/ p \in Runners
      BY DEF Procs, Secrets
    <2>3. PICK i \in DOMAIN entries : entries[i] = c
      BY DEF Working
    <2>4. entries \in Seq(Secrets \cup {p}) /\ i \in 1..Len(entries) /\ Len(entries) \in Nat
      BY <2>1, <2>3, LenProperties
    <2>5. entries'[i] = entries[i] /\ i \in DOMAIN entries'
      BY <2>4, AppendProperties
    <2> QED
      BY <2>3, <2>5 DEF Working
  <1>9. ~ Wipe(p)
    BY <1>4 DEF Wipe, At, EmptiesType
  <1> QED
    BY <1>2, <1>3, <1>6, <1>7, <1>8, <1>9 DEF SectionStep, Check, Get, SettleLostRetirement, Place,
       Gate, Intent, Probe, WithdrawRetirement, Retired, Close, Pend, Unpend, Mirror, Reclaim,
       Reread, Unlist, Reactivate, Note, Rotated, ClearRows

(* A row says revoked only when its secret works no more, as long as the   *)
(* rows are traceable: however operations of any number interleave, and    *)
(* whatever answers, writes and acknowledgements are lost.                 *)
THEOREM RevokedKeysAreDead == Spec /\ []NeverFallsBack => [](Traceable => RevokedIsDead)
  <1>1. MirroredInv => (Traceable => RevokedIsDead)
    <2> SUFFICES ASSUME MirroredInv, Traceable, NEW c \in Secrets, row[c].st = "revoked", c \in Working
                 PROVE  FALSE
      BY DEF RevokedIsDead
    <2>1. c \notin LiveRows
      BY DEF LiveRows, Live
    <2> QED
      BY <2>1, WhatHasNoRow
  <1> QED
    BY <1>1, InitMirroredInv, MirroredInvStep, PTL DEF Spec

(* A secret that works and has no live row is, under the same conditions,  *)
(* in the hands of a running operation; of basicauth there is none.        *)
THEOREM SecretsHaveRows == Spec /\ []NeverFallsBack => [](Traceable => SecretsAreAccountedFor)
  <1>1. MirroredInv => (Traceable => SecretsAreAccountedFor)
    BY WhatHasNoRow DEF SecretsAreAccountedFor
  <1> QED
    BY <1>1, InitMirroredInv, MirroredInvStep, PTL DEF Spec

(* A delete by position lands on the key it retires: no other secret that  *)
(* a client was given stops working, under the same conditions.            *)
THEOREM PositionsHold ==
    Spec /\ []NeverFallsBack => /\ [][Traceable => ~ KeyLost]_vars
                                /\ []Traceable => NoLiveKeyLost
  <1>1. MirroredInv /\ [Next]_vars => [Traceable => ~ KeyLost]_vars
    BY NoKeyIsLost
  <1>2. Spec /\ []NeverFallsBack => [][Traceable => ~ KeyLost]_vars
    BY <1>1, InitMirroredInv, MirroredInvStep, PTL DEF Spec
  <1>3. []Traceable /\ [][Traceable => ~ KeyLost]_vars => NoLiveKeyLost
    <2>1. Traceable /\ [Traceable => ~ KeyLost]_vars => [shown \/ ~ emptied => ~ KeyLost]_vars
      OBVIOUS
    <2> QED
      BY <2>1, PTL DEF NoLiveKeyLost
  <1> QED
    BY <1>2, <1>3, PTL
================================================================================
