------------------------ MODULE AccountLifecycleProofs ------------------------
(***************************************************************************)
(* Theorems about AccountLifecycle: the approvals and revocations of       *)
(* AccessGrants while the account is disabled, torn down and enabled.      *)
(***************************************************************************)
EXTENDS AccountLifecycle, AccessGrantsProofs

TeardownRows ==
    [st : {"none", "pending", "sending", "done"}, gen : Procs \cup {NoProc}]

(* The account's own rows: a teardown is queued only while it is disabled. *)
Queue ==
    /\ tjob \in TeardownRows
    /\ rebuilt \in BOOLEAN
    /\ status = "active" => tjob.st = "none"

-----------------------------------------------------------------------------
(* Leases that never lapse under a running holder are exclusive, and the   *)
(* consumer's section is entered with its lease.                           *)
Exclusive == \A p \in Procs : \A k \in held[p] : lease[k] = p
SectionAt == {"check", "get", "guard", "put", "grant", "grants", "tcreds"}
Sectioned == \A p \in Procs : pc[p] \in SectionAt => consumer \in held[p]

(* The queued teardown will still strip the consumer. *)
TeardownFirm ==
    \/ tjob.st = "pending"
    \/ /\ tjob.st = "sending"
       /\ \A p \in Procs : tjob.gen = p => pc[p] \notin {"tcreds", "tdone"}

(* The consumer is bare, and nobody is about to write a group. *)
Armed(p) ==
    \/ p \in Approvers /\ Adding(p) /\ pc[p] \in {"get", "guard", "put"}
    \/ /\ p \in Workers /\ memo[p].kind = "approve" /\ pc[p] = "put"
       /\ memo[p].live # {} /\ memo[p].on
    \/ p \in Enablers /\ pc[p] \in {"grants", "get", "put"}
Bare ==
    /\ acl = {}
    /\ \A p \in Procs : late[p] \subseteq {{}} /\ ~ Armed(p)

(* A rebuild writes the groups of grants that are active, or that have     *)
(* been revoked under a job which still has to enter the section.          *)
Rebuilding ==
    \A e \in Enablers :
      pc[e] \in {"get", "put"} =>
        \A r \in memo[e].live : ActiveOn(ApiOf[r]) # {} \/ Removal(ApiOf[r])

(* Without a re-enable the account is active only before its first disable. *)
Before ==
    Enablers = {} /\ status = "active" =>
      /\ \A d \in Disablers : pc[d] \in {"idle", "lkey", "flip"}
      /\ \A w \in TeardownWorkers : pc[w] = "idle"

-----------------------------------------------------------------------------
(* What a step of an administrator or a teardown worker does to its place, *)
(* its memory and its leases.                                              *)
OtherPlaces ==
    {"idle", "lkey", "flip", "list", "sweep", "tclaim", "tuser", "towner", "ckey", "check",
     "get", "grants", "put", "tcreds", "tdone", "tfail", "cancel"}

LEMMA OtherIs ==
  ASSUME NEW p \in Others
  PROVE  /\ p \in Procs /\ Places(p) = OtherPlaces
         /\ p \notin Clients /\ p \notin Approvers /\ p \notin Revokers /\ p \notin Workers
         /\ p \notin OneShot /\ p \notin Roles /\ p # NoProc
  BY ConstantsAssumption DEF Places, OtherPlaces, Procs, OneShot, Roles

LEMMA WhoIs ==
  ASSUME NEW p \in Others
  PROVE  /\ p \in Disablers \cup Enablers \cup TeardownWorkers
         /\ p \in GodDisablers => p \in Disablers
         /\ p \in Disablers => p \notin Enablers /\ p \notin TeardownWorkers
         /\ p \in Enablers => p \notin Disablers /\ p \notin TeardownWorkers
                               /\ p \notin GodDisablers
         /\ p \in TeardownWorkers => p \notin Disablers /\ p \notin Enablers
                                      /\ p \notin GodDisablers
  BY LifecycleAssumption

LEMMA OthersAre ==
  /\ Disablers \subseteq Others /\ GodDisablers \subseteq Others /\ Enablers \subseteq Others
  /\ TeardownWorkers \subseteq Others /\ Others \subseteq Procs
  BY LifecycleAssumption DEF Procs

Remembers(p) == \E m \in MemoRecords : memo' = [memo EXCEPT ![p] = m]

(* The leases of p on its way to x. *)
Hands(p, x) ==
    \/ /\ UNCHANGED <<lease, held>>
       /\ x \in SectionAt => pc[p] \in SectionAt
       /\ x = "idle" => pc[p] = "idle"
    \/ \E k \in Keys : TakeKey(p, k) /\ x # "idle" /\ (x \in SectionAt => k = consumer)
    \/ \E keys \in SUBSET Keys :
         Release(p, keys) /\ x \notin SectionAt /\ (x = "idle" => keys = held[p])

(* A step of any process: the section is entered with the consumer's lease. *)
LeaseMove(p) ==
    /\ \/ UNCHANGED <<lease, held>>
       \/ \E k \in Keys : TakeKey(p, k)
       \/ \E keys \in SUBSET Keys : Release(p, keys)
       \/ lease' = lease /\ held' = [held EXCEPT ![p] = {}]
    /\ pc'[p] \in SectionAt =>
         (pc[p] \in SectionAt /\ held' = held) \/ TakeKey(p, consumer)

LEMMA HandsIs ==
  ASSUME WellFormed, NEW p \in Procs, NEW x, Hands(p, x)
  PROVE  /\ lease' \in [Keys -> Procs \cup {NoProc}] /\ held' \in [Procs -> SUBSET Keys]
         /\ \A q \in Procs : q # p => held'[q] = held[q]
         /\ x = "idle" => held'[p] = {}
  <1>1. CASE UNCHANGED <<lease, held>> /\ (x = "idle" => pc[p] = "idle")
    BY <1>1 DEF WellFormed, Leases
  <1>2. ASSUME NEW k \in Keys, TakeKey(p, k), x # "idle"
        PROVE  /\ lease' \in [Keys -> Procs \cup {NoProc}] /\ held' \in [Procs -> SUBSET Keys]
               /\ \A q \in Procs : q # p => held'[q] = held[q]
               /\ x = "idle" => held'[p] = {}
    BY <1>2, TakeKeyIs
  <1>3. ASSUME NEW keys \in SUBSET Keys, Release(p, keys), x = "idle" => keys = held[p]
        PROVE  /\ lease' \in [Keys -> Procs \cup {NoProc}] /\ held' \in [Procs -> SUBSET Keys]
               /\ \A q \in Procs : q # p => held'[q] = held[q]
               /\ x = "idle" => held'[p] = {}
    BY <1>3, ReleaseIs
  <1> QED
    BY <1>1, <1>2, <1>3 DEF Hands

LEMMA OtherGoes ==
  ASSUME WellFormed, NEW p \in Others, NEW x \in OtherPlaces, Moves(p, x), Remembers(p),
         Hands(p, x), Rows',
         subj' = subj \/ \E r \in Requests : subj' = [subj EXCEPT ![p] = r],
         fresh' \in [Procs -> BOOLEAN], late' \in [Procs -> SUBSET (SUBSET Apis)],
         faults' \in 0..MaxFaults
  PROVE  WellFormed' /\ Elsewhere(p) /\ LeaseMove(p) /\ pc'[p] = x
  <1>1. p \in Procs /\ p \notin Workers /\ x \in Places(p)
    BY OtherIs
  <1>2. PICK m \in MemoRecords : memo' = [memo EXCEPT ![p] = m]
    BY DEF Remembers
  <1>3. subj' \in [Procs -> Requests] /\ \A q \in Procs : q # p => subj'[q] = subj[q]
    BY <1>1 DEF WellFormed, Machines
  <1>4. Machines' /\ pc'[p] = x
    BY <1>1, <1>2, <1>3, MachinesMove
  <1>5. x \notin {"done", "crashed", "submit", "proxy"}
    BY DEF OtherPlaces
  <1>6. Leases'
    BY <1>1, <1>5, HandsIs, LeasesMove
  <1>7. Elsewhere(p)
    BY <1>1, <1>2, <1>3 DEF Elsewhere, Moves, WellFormed, Machines
  <1>8. LeaseMove(p)
    BY <1>4, KeysAre DEF LeaseMove, Hands
  <1> QED
    BY <1>4, <1>6, <1>7, <1>8 DEF WellFormed

LEMMA MemoStays ==
  ASSUME WellFormed, NEW p \in Procs, memo' = memo
  PROVE  Remembers(p)
  <1>1. memo[p] \in MemoRecords /\ memo' = [memo EXCEPT ![p] = memo[p]]
    BY DEF WellFormed, Machines
  <1> QED
    BY <1>1 DEF Remembers

LEMMA EndIs ==
  ASSUME WellFormed, NEW p \in Procs, End(p)
  PROVE  Moves(p, "idle") /\ Remembers(p) /\ Hands(p, "idle")
  <1>1. held[p] \in SUBSET Keys
    BY DEF WellFormed, Leases
  <1> QED
    BY <1>1, BlankIs DEF End, Goto, Moves, Recall, Remembers, Hands, SectionAt

LEMMA LeaveIs ==
  ASSUME NEW p \in Procs, NEW x, x \notin SectionAt, x # "idle", LeaveConsumer(p, x)
  PROVE  Moves(p, x) /\ Hands(p, x)
  BY KeysAre DEF LeaveConsumer, Goto, Moves, Hands

LEMMA LateStays == WellFormed /\ UNCHANGED late => late' \in [Procs -> SUBSET (SUBSET Apis)]
  BY DEF WellFormed, Machines

Fits(p) == WellFormed' /\ Queue' /\ Elsewhere(p) /\ LeaseMove(p)

LEMMA FitsQuietly ==
  ASSUME WellFormed, Queue, NEW p \in Others, NEW x \in OtherPlaces, Moves(p, x),
         Remembers(p), Hands(p, x), UNCHANGED <<req, grant, job, status, acl, late, subj>>,
         UNCHANGED <<tjob, rebuilt>>, fresh' \in [Procs -> BOOLEAN], faults' \in 0..MaxFaults
  PROVE  Fits(p) /\ pc'[p] = x
  <1>1. Rows' /\ late' \in [Procs -> SUBSET (SUBSET Apis)]
    BY RowsStay, LateStays
  <1>2. Queue'
    BY DEF Queue
  <1> QED
    BY <1>1, <1>2, OtherGoes DEF Fits

(* What a teardown row may become. *)
LEMMA TeardownRowIs ==
  ASSUME Queue, NEW p \in Procs
  PROVE  /\ [st |-> "pending", gen |-> p] \in TeardownRows
         /\ [st |-> "sending", gen |-> p] \in TeardownRows /\ NoTeardown \in TeardownRows
         /\ [tjob EXCEPT !.st = "done"] \in TeardownRows
         /\ [tjob EXCEPT !.st = "pending"] \in TeardownRows
         /\ NoTeardown.st = "none"
  <1>1. tjob \in TeardownRows
    BY DEF Queue
  <1>2. [tjob EXCEPT !.st = "done"] \in TeardownRows
    BY <1>1, Zenon DEF TeardownRows
  <1>3. [tjob EXCEPT !.st = "pending"] \in TeardownRows
    BY <1>1, Zenon DEF TeardownRows
  <1> QED
    BY <1>2, <1>3 DEF TeardownRows, NoTeardown

LEMMA MemoSeen ==
  ASSUME NEW s \in {"active", "disabled"}
  PROVE  [Blank EXCEPT !.status = s] \in MemoRecords
  BY BlankIs, Zenon DEF MemoRecords

LEMMA FitsFlipStart ==
  ASSUME WellFormed, Queue, NEW p \in Others,
         FlipStart(p) \/ EnableAgain(p) \/ TakeLifecycle(p) \/ LifecycleTimeout(p)
  PROVE  Fits(p)
  <1>0. p \in Procs /\ status \in {"active", "disabled"}
    BY OtherIs DEF WellFormed, Rows
  <1>1. CASE FlipStart(p)
    <2> DEFINE m == [Blank EXCEPT !.status = status]
    <2>1. /\ Moves(p, "lkey") /\ memo' = [memo EXCEPT ![p] = m] /\ m \in MemoRecords
          /\ UNCHANGED <<db, edge, lease, held, subj, faults, tjob, rebuilt>>
      BY <1>0, <1>1, MemoSeen DEF FlipStart, Goto, Moves, Recall
    <2> HIDE DEF m
    <2>2. Remembers(p) /\ Hands(p, "lkey") /\ "lkey" \in OtherPlaces
      BY <2>1 DEF Remembers, Hands, SectionAt, OtherPlaces
    <2> QED
      BY <2>1, <2>2, FitsQuietly, FreshStays, FaultsStay DEF db, edge
  <1>2. CASE EnableAgain(p)
    <2>1. /\ Moves(p, "ckey")
          /\ UNCHANGED <<db, edge, lease, held, subj, memo, faults, tjob, rebuilt>>
      BY <1>2 DEF EnableAgain, Goto, Moves
    <2>2. Remembers(p) /\ Hands(p, "ckey") /\ "ckey" \in OtherPlaces
      BY <1>0, <2>1, MemoStays DEF Hands, SectionAt, OtherPlaces
    <2> QED
      BY <2>1, <2>2, FitsQuietly, FreshStays, FaultsStay DEF db, edge
  <1>3. CASE TakeLifecycle(p)
    <2> DEFINE x == IF p \in TeardownWorkers THEN "cancel" ELSE "flip"
    <2>1. /\ Moves(p, x) /\ TakeKey(p, lifecycle) /\ x \in {"cancel", "flip"}
          /\ UNCHANGED <<db, edge, subj, memo, tjob, rebuilt>>
      BY <1>3 DEF TakeLifecycle, Goto, Moves
    <2> HIDE DEF x
    <2>2. Remembers(p) /\ Hands(p, x) /\ x \in OtherPlaces
      BY <1>0, <2>1, MemoStays, KeysAre DEF Hands, SectionAt, OtherPlaces
    <2>3. faults' \in 0..MaxFaults
      BY <1>0, <2>1, TakeKeyIs, KeysAre
    <2> QED
      BY <2>1, <2>2, <2>3, FitsQuietly, FreshStays DEF db, edge
  <1>4. CASE LifecycleTimeout(p)
    <2>1. End(p) /\ UNCHANGED <<db, edge, subj, faults, tjob, rebuilt>>
      BY <1>4 DEF LifecycleTimeout
    <2>2. "idle" \in OtherPlaces
      BY DEF OtherPlaces
    <2> QED
      BY <1>0, <2>1, <2>2, EndIs, FitsQuietly, FreshStays, FaultsStay DEF db, edge
  <1> QED
    BY <1>1, <1>2, <1>3, <1>4

LEMMA FlipIs ==
  ASSUME WellFormed, Queue, NEW p \in Others, Flip(p), UNCHANGED <<req, grant, job, acl>>
  PROVE  Rows' /\ Queue'
  <1>1. p \in Procs
    BY OtherIs
  <1>2. status' \in {"active", "disabled"} /\ rebuilt' \in BOOLEAN
    BY DEF Flip
  <1>3. tjob' \in TeardownRows /\ (status' = "active" => tjob' = NoTeardown)
    BY <1>1, TeardownRowIs DEF Flip
  <1> QED
    BY <1>1, <1>2, <1>3, TeardownRowIs DEF Queue, WellFormed, Rows

LEMMA FitsFlip ==
  ASSUME WellFormed, Queue, NEW p \in Others, FlipCommit(p) \/ FlipFails(p)
  PROVE  Fits(p)
  <1>0. /\ p \in Procs /\ UNCHANGED <<req, grant, job, edge, subj>>
        /\ subj' \in [Procs -> Requests]
    BY OtherIs DEF FlipCommit, FlipFails, WellFormed, Machines
  <1>1. Rows' /\ Queue'
    <2>1. CASE Flip(p)
      BY <1>0, <2>1, FlipIs DEF edge
    <2>2. CASE UNCHANGED <<status, tjob, rebuilt>>
      BY <1>0, <2>2, RowsStay DEF edge, Queue
    <2> QED
      BY <2>1, <2>2 DEF FlipCommit, FlipFails
  <1>2. /\ fresh' \in [Procs -> BOOLEAN] /\ late' \in [Procs -> SUBSET (SUBSET Apis)]
        /\ faults' \in 0..MaxFaults
    <2>1. faults' \in 0..MaxFaults
      BY FaultIs, FaultsStay DEF FlipCommit, FlipFails
    <2> QED
      BY <1>0, <2>1, FreshStays, LateStays DEF edge
  <1>3. CASE FlipCommit(p)
    <2> DEFINE x == CASE p \in GodDisablers -> "list"
                      [] p \in Disablers \ GodDisablers -> "tclaim"
                      [] p \in Enablers -> "ckey"
    <2>1. /\ Moves(p, x) /\ Release(p, {lifecycle}) /\ UNCHANGED memo
          /\ p \in Disablers \cup Enablers
      BY <1>3 DEF FlipCommit, Goto, Moves
    <2>2. x \in {"list", "tclaim", "ckey"}
      <3>1. CASE p \in GodDisablers
        BY <3>1, WhoIs
      <3>2. CASE p \in Disablers \ GodDisablers
        BY <3>2, WhoIs
      <3>3. CASE p \in Enablers
        BY <3>3, WhoIs
      <3> QED
        BY <2>1, <3>1, <3>2, <3>3
    <2> HIDE DEF x
    <2>3. Remembers(p) /\ Hands(p, x) /\ x \in OtherPlaces
      BY <1>0, <2>1, <2>2, MemoStays, KeysAre DEF Hands, SectionAt, OtherPlaces
    <2> QED
      BY <1>0, <1>1, <1>2, <2>1, <2>3, OtherGoes DEF Fits
  <1>4. CASE FlipFails(p)
    <2>1. "idle" \in OtherPlaces /\ End(p)
      BY <1>4 DEF OtherPlaces, FlipFails
    <2> QED
      BY <1>0, <1>1, <1>2, <2>1, EndIs, OtherGoes DEF Fits
  <1> QED
    BY <1>3, <1>4

LEMMA MemoTodo ==
  ASSUME NEW m \in MemoRecords, NEW L \in SUBSET Requests
  PROVE  [m EXCEPT !.todo = L] \in MemoRecords /\ [m EXCEPT !.live = L] \in MemoRecords
  <1>1. [m EXCEPT !.todo = L] \in MemoRecords
    BY Zenon DEF MemoRecords
  <1>2. [m EXCEPT !.live = L] \in MemoRecords
    BY Zenon DEF MemoRecords
  <1> QED
    BY <1>1, <1>2

LEMMA MemoTeardown ==
  ASSUME NEW m \in MemoRecords
  PROVE  /\ [m EXCEPT !.kind = "teardown"] \in MemoRecords
         /\ [m EXCEPT !.kind = "teardown"].kind = "teardown"
  <1>1. [m EXCEPT !.kind = "teardown"] \in MemoRecords
    BY Zenon DEF MemoRecords
  <1> QED
    BY <1>1 DEF MemoRecords

LEMMA ClaimGrantRows ==
  ASSUME WellFormed, NEW p \in Procs, NEW r \in Requests, ClaimGrant(p, r),
         UNCHANGED <<job, status, acl>>
  PROVE  Rows'
  <1>1. req' \in [Requests -> ReqStatus]
    BY DEF ClaimGrant, WellFormed, Rows, ReqStatus
  <1>2. grant' \in [Requests -> GrantRows]
    BY RowsOf DEF ClaimGrant, WellFormed, Rows
  <1> QED
    BY <1>1, <1>2 DEF WellFormed, Rows

LEMMA FitsSweep ==
  ASSUME WellFormed, Queue, NEW p \in Others,
         SweepList(p) \/ SweepDone(p) \/ \E r \in Requests : SweepClaim(p, r)
  PROVE  Fits(p)
  <1>0. p \in Procs /\ memo[p] \in MemoRecords
    BY OtherIs, RoleOf
  <1>1. CASE SweepList(p)
    <2>1. UNCHANGED <<db, edge, lease, held, subj, tjob, rebuilt>> /\ faults' \in 0..MaxFaults
      BY <1>1, FaultIs, FaultsStay DEF SweepList
    <2>2. CASE Goto(p, "tclaim") /\ UNCHANGED memo
      <3>1. /\ Moves(p, "tclaim") /\ Remembers(p) /\ Hands(p, "tclaim")
            /\ "tclaim" \in OtherPlaces
        BY <1>0, <2>1, <2>2, MemoStays DEF Goto, Moves, Hands, SectionAt, OtherPlaces
      <3> QED
        BY <2>1, <3>1, FitsQuietly, FreshStays DEF db, edge
    <2>3. CASE /\ Goto(p, "sweep")
               /\ Recall(p, [memo[p] EXCEPT !.todo = {r \in Requests : grant[r].st = "active"}])
      <3> DEFINE L == {r \in Requests : grant[r].st = "active"}
                 m == [memo[p] EXCEPT !.todo = L]
      <3>1. L \in SUBSET Requests /\ memo' = [memo EXCEPT ![p] = m]
        BY <2>3 DEF Recall
      <3> HIDE DEF L
      <3>2. m \in MemoRecords
        BY <1>0, <3>1, MemoTodo
      <3> HIDE DEF m
      <3>3. /\ Moves(p, "sweep") /\ Remembers(p) /\ Hands(p, "sweep")
            /\ "sweep" \in OtherPlaces
        BY <2>1, <2>3, <3>1, <3>2 DEF Goto, Moves, Hands, SectionAt, OtherPlaces, Remembers
      <3> QED
        BY <2>1, <3>3, FitsQuietly, FreshStays DEF db, edge
    <2> QED
      BY <1>1, <2>2, <2>3 DEF SweepList
  <1>2. CASE SweepDone(p)
    <2>1. /\ Moves(p, "tclaim")
          /\ UNCHANGED <<db, edge, lease, held, subj, memo, faults, tjob, rebuilt>>
      BY <1>2 DEF SweepDone, Goto, Moves
    <2>2. Remembers(p) /\ Hands(p, "tclaim") /\ "tclaim" \in OtherPlaces
      BY <1>0, <2>1, MemoStays DEF Hands, SectionAt, OtherPlaces
    <2> QED
      BY <2>1, <2>2, FitsQuietly, FreshStays, FaultsStay DEF db, edge
  <1>3. ASSUME NEW r \in Requests, SweepClaim(p, r) PROVE Fits(p)
    <2> DEFINE L == memo[p].todo \ {r}
               m == [memo[p] EXCEPT !.todo = L]
    <2>1. /\ subj' = [subj EXCEPT ![p] = r] /\ pc[p] = "sweep"
          /\ UNCHANGED <<job, status, edge, lease, held, tjob, rebuilt>>
          /\ ClaimGrant(p, r) \/ UNCHANGED <<req, grant>>
          /\ Goto(p, "ckey") \/ UNCHANGED pc
      BY <1>3 DEF SweepClaim
    <2>2. faults' \in 0..MaxFaults
      BY <1>3, FaultIs, FaultsStay DEF SweepClaim
    <2>3. memo' = [memo EXCEPT ![p] = m] /\ L \in SUBSET Requests
      BY <1>0, <1>3 DEF SweepClaim, Recall, MemoRecords
    <2> HIDE DEF L
    <2>4. m \in MemoRecords
      BY <1>0, <2>3, MemoTodo
    <2> HIDE DEF m
    <2>5. Rows' /\ Queue'
      BY <1>0, <2>1, ClaimGrantRows, RowsStay DEF edge, Queue
    <2>6. Moves(p, "ckey") \/ Moves(p, "sweep")
      BY <2>1 DEF Goto, Moves, WellFormed, Machines
    <2>7. /\ Remembers(p) /\ Hands(p, "ckey") /\ Hands(p, "sweep")
          /\ "ckey" \in OtherPlaces /\ "sweep" \in OtherPlaces
      BY <2>1, <2>3, <2>4 DEF Hands, SectionAt, OtherPlaces, Remembers
    <2>8. fresh' \in [Procs -> BOOLEAN] /\ late' \in [Procs -> SUBSET (SUBSET Apis)]
      BY <2>1, FreshStays, LateStays DEF edge
    <2> QED
      BY <2>1, <2>2, <2>5, <2>6, <2>7, <2>8, OtherGoes DEF Fits
  <1> QED
    BY <1>1, <1>2, <1>3

LEMMA FitsClaim ==
  ASSUME WellFormed, Queue, NEW p \in Others, InlineClaim(p) \/ TeardownClaimDue(p)
  PROVE  Fits(p)
  <1>0. /\ p \in Procs /\ memo[p] \in MemoRecords
        /\ UNCHANGED <<db, edge, subj, rebuilt>>
    BY OtherIs, RoleOf DEF InlineClaim, TeardownClaimDue
  <1>1. /\ Rows' /\ fresh' \in [Procs -> BOOLEAN] /\ subj' = subj
        /\ late' \in [Procs -> SUBSET (SUBSET Apis)] /\ faults' \in 0..MaxFaults
    <2>1. faults' \in 0..MaxFaults
      BY FaultIs, FaultsStay DEF InlineClaim, TeardownClaimDue
    <2> QED
      BY <1>0, <2>1, RowsStay, FreshStays, LateStays DEF db, edge
  <1>2. CASE End(p) /\ UNCHANGED tjob
    <2>1. Queue' /\ "idle" \in OtherPlaces
      BY <1>0, <1>2 DEF Queue, db, OtherPlaces
    <2> QED
      BY <1>0, <1>1, <1>2, <2>1, EndIs, OtherGoes DEF Fits
  <1>3. ASSUME NEW m \in MemoRecords, NEW x \in {"towner", "tuser"}, tjob.st = "pending",
               tjob' = [st |-> "sending", gen |-> p], Goto(p, x),
               memo' = [memo EXCEPT ![p] = m], UNCHANGED <<lease, held>>
        PROVE  Fits(p)
    <2>1. Queue'
      BY <1>0, <1>3, TeardownRowIs DEF Queue, db
    <2>2. Moves(p, x) /\ Remembers(p) /\ Hands(p, x) /\ x \in OtherPlaces
      BY <1>3 DEF Goto, Moves, Hands, SectionAt, OtherPlaces, Remembers
    <2> QED
      BY <1>1, <2>1, <2>2, OtherGoes DEF Fits
  <1>4. CASE TeardownClaimDue(p)
    <2> DEFINE m == [Blank EXCEPT !.kind = "teardown"]
    <2>1. m \in MemoRecords
      BY BlankIs, MemoTeardown
    <2> HIDE DEF m
    <2> QED
      BY <1>3, <1>4, <2>1 DEF TeardownClaimDue, Recall, m
  <1>5. CASE InlineClaim(p) /\ ~ (End(p) /\ UNCHANGED tjob)
    <2> DEFINE m == [memo[p] EXCEPT !.kind = "teardown"]
    <2>1. m \in MemoRecords
      BY <1>0, MemoTeardown
    <2> HIDE DEF m
    <2>2. /\ tjob = [st |-> "pending", gen |-> p]
          /\ tjob' = [st |-> "sending", gen |-> p] /\ Goto(p, "towner")
          /\ memo' = [memo EXCEPT ![p] = m] /\ UNCHANGED <<lease, held>>
      BY <1>5 DEF InlineClaim, Recall, m
    <2> QED
      BY <1>3, <2>1, <2>2
  <1> QED
    BY <1>2, <1>4, <1>5

LEMMA FitsOwner ==
  ASSUME WellFormed, Queue, NEW p \in Others, TeardownUser(p) \/ TeardownOwner(p)
  PROVE  Fits(p)
  <1>0. /\ p \in Procs /\ UNCHANGED <<db, edge, lease, held, subj, memo, tjob, rebuilt>>
        /\ faults' \in 0..MaxFaults
    BY OtherIs, FaultIs, FaultsStay DEF TeardownUser, TeardownOwner
  <1>1. PICK x \in {"towner", "lkey", "ckey", "tfail"} : Goto(p, x)
    BY DEF TeardownUser, TeardownOwner
  <1>2. Moves(p, x) /\ Remembers(p) /\ Hands(p, x) /\ x \in OtherPlaces
    BY <1>0, <1>1, MemoStays DEF Goto, Moves, Hands, SectionAt, OtherPlaces
  <1> QED
    BY <1>0, <1>2, FitsQuietly, FreshStays DEF db, edge

LEMMA AccountFailsIs ==
  ASSUME WellFormed, NEW p \in Others, AccountSectionFails(p)
  PROVE  \E x \in {"sweep", "tfail", "idle"} :
           /\ x \in OtherPlaces /\ Moves(p, x) /\ Remembers(p) /\ Hands(p, x)
           /\ x # "idle" => memo' = memo
           /\ x = "idle" => p \in Enablers
  <1>0. p \in Procs /\ {"sweep", "tfail", "idle"} \subseteq OtherPlaces
    BY OtherIs DEF OtherPlaces
  <1>1. CASE LeaveConsumer(p, "sweep") /\ UNCHANGED memo
    <2>1. Moves(p, "sweep") /\ Hands(p, "sweep") /\ Remembers(p)
      BY <1>0, <1>1, LeaveIs, MemoStays DEF SectionAt
    <2> QED
      BY <1>0, <1>1, <2>1
  <1>2. CASE LeaveConsumer(p, "tfail") /\ UNCHANGED memo
    <2>1. Moves(p, "tfail") /\ Hands(p, "tfail") /\ Remembers(p)
      BY <1>0, <1>2, LeaveIs, MemoStays DEF SectionAt
    <2> QED
      BY <1>0, <1>2, <2>1
  <1>3. CASE End(p) /\ p \in Enablers
    BY <1>0, <1>3, EndIs
  <1> QED
    BY <1>1, <1>2, <1>3 DEF AccountSectionFails

LEMMA FitsSection ==
  ASSUME WellFormed, Queue, NEW p \in Others,
         \/ AccountEnter(p) \/ AccountTimeout(p) \/ AccountCheck(p) \/ RebuildGrants(p)
         \/ AccountGet(p)
  PROVE  Fits(p)
  <1>0. /\ p \in Procs /\ memo[p] \in MemoRecords
        /\ UNCHANGED <<req, grant, job, status, acl, late, subj, tjob, rebuilt>>
    BY OtherIs, RoleOf
       DEF AccountEnter, AccountTimeout, AccountCheck, RebuildGrants, AccountGet, db, edge
  <1>1. faults' \in 0..MaxFaults
    BY <1>0, FaultIs, FaultsStay, TakeKeyIs, KeysAre
       DEF AccountEnter, AccountTimeout, AccountCheck, RebuildGrants, AccountGet, LockTimeout
  <1>2. fresh' \in [Procs -> BOOLEAN]
    BY FreshStays DEF AccountEnter, AccountTimeout, AccountCheck, RebuildGrants, AccountGet,
                      edge, WellFormed, Machines
  <1>3. CASE AccountSectionFails(p)
    BY <1>0, <1>1, <1>2, <1>3, AccountFailsIs, FitsQuietly
  <1>4. CASE AccountEnter(p)
    <2>1. PICK x \in {"get", "check"} : Goto(p, x)
      BY <1>4 DEF AccountEnter
    <2>2. Moves(p, x) /\ Remembers(p) /\ Hands(p, x) /\ x \in OtherPlaces
      BY <1>0, <1>4, <2>1, MemoStays, KeysAre
         DEF AccountEnter, Goto, Moves, Hands, OtherPlaces
    <2> QED
      BY <1>0, <1>1, <1>2, <2>2, FitsQuietly
  <1>5. CASE AccountCheck(p) /\ ~ AccountSectionFails(p)
    <2>1. PICK x \in {"get", "grants"} : Goto(p, x)
      BY <1>5 DEF AccountCheck
    <2>2. pc[p] = "check" /\ UNCHANGED <<lease, held, memo>>
      BY <1>5 DEF AccountCheck
    <2>3. Moves(p, x) /\ Remembers(p) /\ Hands(p, x) /\ x \in OtherPlaces
      BY <1>0, <2>1, <2>2, MemoStays DEF Goto, Moves, Hands, OtherPlaces, SectionAt
    <2> QED
      BY <1>0, <1>1, <1>2, <2>3, FitsQuietly
  <1>6. CASE RebuildGrants(p)
    <2> DEFINE L == {r \in Requests : grant[r].st = "active"}
               m == [memo[p] EXCEPT !.live = L]
    <2>1. /\ L \in SUBSET Requests /\ memo' = [memo EXCEPT ![p] = m] /\ Moves(p, "get")
          /\ pc[p] = "grants" /\ UNCHANGED <<lease, held>>
      BY <1>6 DEF RebuildGrants, Recall, Goto, Moves
    <2> HIDE DEF L
    <2>2. m \in MemoRecords
      BY <1>0, <2>1, MemoTodo
    <2> HIDE DEF m
    <2>3. Remembers(p) /\ Hands(p, "get") /\ "get" \in OtherPlaces
      BY <2>1, <2>2 DEF Remembers, Hands, OtherPlaces, SectionAt
    <2> QED
      BY <1>0, <1>1, <1>2, <2>1, <2>3, FitsQuietly
  <1>7. CASE AccountGet(p) /\ ~ AccountSectionFails(p)
    <2>1. /\ Moves(p, "put") /\ pc[p] = "get" /\ UNCHANGED <<lease, held, memo>>
      BY <1>7 DEF AccountGet, Goto, Moves
    <2>2. Remembers(p) /\ Hands(p, "put") /\ "put" \in OtherPlaces
      BY <1>0, <2>1, MemoStays DEF Hands, OtherPlaces, SectionAt
    <2> QED
      BY <1>0, <1>1, <1>2, <2>1, <2>2, FitsQuietly
  <1> QED
    BY <1>3, <1>4, <1>5, <1>6, <1>7 DEF AccountTimeout

(* The writes of the consumer. *)
LEMMA FitsWrite ==
  ASSUME WellFormed, Queue, NEW p \in Others, NEW groups \in SUBSET Apis, Written(p, groups),
         UNCHANGED <<db, subj, tjob>>, rebuilt' \in BOOLEAN, faults' \in 0..MaxFaults,
         NEW x \in OtherPlaces, Moves(p, x), Remembers(p), Hands(p, x)
  PROVE  Fits(p) /\ pc'[p] = x
  <1>1. /\ acl' \in SUBSET Apis /\ fresh' \in [Procs -> BOOLEAN]
        /\ late' \in [Procs -> SUBSET (SUBSET Apis)]
    BY OtherIs, WrittenIs
  <1>2. Rows' /\ Queue'
    BY <1>1 DEF WellFormed, Rows, Queue, db
  <1> QED
    BY <1>1, <1>2, OtherGoes DEF Fits

LEMMA RebuiltAre ==
  ASSUME WellFormed, NEW p \in Procs
  PROVE  RebuiltGroups(p) \in SUBSET Apis
  <1>1. memo[p].live \in SUBSET Requests
    BY RoleOf DEF MemoRecords
  <1> QED
    BY <1>1, KeysAre DEF RebuiltGroups

(* What a write of the section does: the row, and where its caller goes. *)
LEMMA WritesAre ==
  ASSUME WellFormed, NEW p \in Others, SweepPut(p) \/ TeardownPut(p) \/ RebuildPut(p)
  PROVE  /\ pc[p] = "put" /\ UNCHANGED <<db, subj, tjob>>
         /\ SweepPut(p) => Written(p, acl \ {Api(p)})
         /\ TeardownPut(p) => Written(p, {})
         /\ RebuildPut(p) => Written(p, RebuiltGroups(p))
         /\ \/ LeaveConsumer(p, "sweep") /\ UNCHANGED memo
            \/ Goto(p, "tcreds") /\ UNCHANGED <<lease, held, memo>> /\ TeardownPut(p)
                 /\ EdgeWrite({})
            \/ End(p)
            \/ AccountSectionFails(p)
  BY DEF SweepPut, TeardownPut, RebuildPut, Put, Written

LEMMA FitsPut ==
  ASSUME WellFormed, Queue, NEW p \in Others, SweepPut(p) \/ TeardownPut(p) \/ RebuildPut(p)
  PROVE  Fits(p)
  <1>0. /\ p \in Procs /\ pc[p] = "put" /\ UNCHANGED <<db, subj, tjob>>
        /\ faults' \in 0..MaxFaults /\ rebuilt' \in BOOLEAN
    <2>1. faults' \in 0..MaxFaults
      BY FaultIs, FaultsStay DEF SweepPut, TeardownPut, RebuildPut, Put
    <2>2. rebuilt' \in BOOLEAN
      BY DEF SweepPut, TeardownPut, RebuildPut, Put, Queue
    <2> QED
      BY <2>1, <2>2, OtherIs, WritesAre
  <1>1. PICK groups \in SUBSET Apis : Written(p, groups)
    <2>1. acl \ {Api(p)} \in SUBSET Apis /\ {} \in SUBSET Apis
      BY DEF WellFormed, Rows
    <2> QED
      BY <1>0, <2>1, WritesAre, RebuiltAre
  <1>2. \E x \in OtherPlaces : Moves(p, x) /\ Remembers(p) /\ Hands(p, x)
    <2>0. {"sweep", "tcreds", "idle"} \subseteq OtherPlaces
      BY DEF OtherPlaces
    <2>1. CASE LeaveConsumer(p, "sweep") /\ UNCHANGED memo
      <3>1. Moves(p, "sweep") /\ Hands(p, "sweep") /\ Remembers(p)
        BY <1>0, <2>1, LeaveIs, MemoStays DEF SectionAt
      <3> QED
        BY <2>0, <3>1
    <2>2. CASE Goto(p, "tcreds") /\ UNCHANGED <<lease, held, memo>>
      <3>1. Moves(p, "tcreds") /\ Hands(p, "tcreds") /\ Remembers(p)
        BY <1>0, <2>2, MemoStays DEF SectionAt, Goto, Moves, Hands
      <3> QED
        BY <2>0, <3>1
    <2>3. CASE End(p)
      BY <1>0, <2>0, <2>3, EndIs
    <2>4. CASE AccountSectionFails(p)
      BY <2>4, AccountFailsIs
    <2> QED
      BY <2>1, <2>2, <2>3, <2>4, WritesAre
  <1> QED
    BY <1>0, <1>1, <1>2, FitsWrite

LEMMA FitsTeardown ==
  ASSUME WellFormed, Queue, NEW p \in Others,
         \/ TeardownCredentials(p) \/ TeardownDone(p) \/ TeardownFails(p) \/ CancelJob(p)
  PROVE  Fits(p)
  <1>0. p \in Procs /\ UNCHANGED <<db, edge, subj, rebuilt>>
    BY OtherIs DEF TeardownCredentials, TeardownDone, TeardownFails, CancelJob
  <1>1. /\ Rows' /\ fresh' \in [Procs -> BOOLEAN] /\ subj' = subj
        /\ late' \in [Procs -> SUBSET (SUBSET Apis)] /\ faults' \in 0..MaxFaults
    <2>1. faults' \in 0..MaxFaults
      BY FaultIs, FaultsStay
         DEF TeardownCredentials, TeardownDone, TeardownFails, CancelJob
    <2> QED
      BY <1>0, <2>1, RowsStay, FreshStays, LateStays DEF db, edge
  <1>2. Queue'
    <2>1. \/ tjob' = tjob
          \/ OwnsTeardown(p) /\ tjob' = [tjob EXCEPT !.st = "done"]
          \/ OwnsTeardown(p) /\ tjob' = [tjob EXCEPT !.st = "pending"]
          \/ tjob' = NoTeardown
      BY DEF TeardownCredentials, TeardownDone, TeardownFails, CancelJob
    <2>2. OwnsTeardown(p) => status # "active"
      BY DEF OwnsTeardown, Queue
    <2> QED
      BY <1>0, <2>1, <2>2, TeardownRowIs DEF Queue, db
  <1>3. \E x \in OtherPlaces : Moves(p, x) /\ Remembers(p) /\ Hands(p, x)
    <2>0. {"tdone", "tfail", "lkey", "idle"} \subseteq OtherPlaces
      BY DEF OtherPlaces
    <2>1. CASE LeaveConsumer(p, "tdone") /\ UNCHANGED memo
      <3>1. Moves(p, "tdone") /\ Hands(p, "tdone") /\ Remembers(p)
        BY <1>0, <2>1, LeaveIs, MemoStays DEF SectionAt
      <3> QED
        BY <2>0, <3>1
    <2>2. ASSUME NEW x \in {"tfail", "lkey"}, Goto(p, x), UNCHANGED <<lease, held, memo>>
          PROVE  \E y \in OtherPlaces : Moves(p, y) /\ Remembers(p) /\ Hands(p, y)
      <3>1. Moves(p, x) /\ Hands(p, x) /\ Remembers(p)
        BY <1>0, <2>2, MemoStays DEF SectionAt, Goto, Moves, Hands
      <3> QED
        BY <2>0, <3>1
    <2>3. CASE End(p)
      BY <1>0, <2>0, <2>3, EndIs
    <2>4. CASE AccountSectionFails(p)
      BY <2>4, AccountFailsIs
    <2> QED
      BY <2>1, <2>2, <2>3, <2>4
         DEF TeardownCredentials, TeardownDone, TeardownFails, CancelJob
  <1> QED
    BY <1>1, <1>2, <1>3, OtherGoes DEF Fits

LEMMA FitsStep ==
  ASSUME WellFormed, Queue, NEW p \in Others, AccountStep(p)
  PROVE  Fits(p)
  BY FitsFlipStart, FitsFlip, FitsSweep, FitsClaim, FitsOwner, FitsSection, FitsPut,
     FitsTeardown DEF AccountStep

LEMMA ReleaseTeardownIs ==
  ASSUME WellFormed, Queue, ReleaseStaleTeardown
  PROVE  WellFormed' /\ Queue'
  <1>1. /\ UNCHANGED <<db, edge, lease, held, pc, subj, memo, rebuilt>>
        /\ tjob.st = "sending" /\ tjob' = [tjob EXCEPT !.st = "pending"]
    BY DEF ReleaseStaleTeardown
  <1>2. faults' \in 0..MaxFaults
    BY FaultIs, FaultsStay DEF ReleaseStaleTeardown
  <1>3. Leases' /\ Machines' /\ Rows'
    BY <1>1, <1>2, ControlStays, RowsStay DEF db, edge
  <1>4. tjob' \in TeardownRows
    <2>1. tjob \in TeardownRows
      BY DEF Queue
    <2> QED
      BY <1>1, <2>1, Zenon DEF TeardownRows
  <1> QED
    BY <1>1, <1>3, <1>4 DEF WellFormed, Queue, db

LEMMA LifecycleFormInit == LifecycleInit => WellFormed /\ Queue
  <1>1. NoTeardown \in TeardownRows /\ NoTeardown.st = "none"
    BY DEF NoTeardown, TeardownRows
  <1> QED
    BY <1>1, WellFormedInit DEF LifecycleInit, Queue

LEMMA LifecycleFormStep ==
  WellFormed /\ Queue /\ [LifecycleNext]_lvars => WellFormed' /\ Queue'
  <1> SUFFICES ASSUME WellFormed, Queue, [LifecycleNext]_lvars PROVE WellFormed' /\ Queue'
    OBVIOUS
  <1>1. CASE AccessNext \/ UNCHANGED lvars
    <2>1. [Next]_vars /\ UNCHANGED <<tjob, rebuilt>>
      BY <1>1 DEF AccessNext, lvars
    <2>2. WellFormed' /\ status' = status
      BY <2>1, WellFormedStep, StatusStays
    <2> QED
      BY <2>1, <2>2 DEF Queue
  <1>2. ASSUME NEW p \in Others, AccountStep(p) PROVE WellFormed' /\ Queue'
    BY <1>2, FitsStep DEF Fits
  <1>3. CASE ReleaseStaleTeardown
    BY <1>3, ReleaseTeardownIs
  <1> QED
    BY <1>1, <1>2, <1>3 DEF LifecycleNext

(* The account's rows and everybody's memory keep their types, whoever     *)
(* disables, enables, tears down or sweeps; a process that rests holds no  *)
(* lease, and an active account has no teardown queued: the transaction    *)
(* that enables it cancels the one it had.                                 *)
THEOREM LifecycleTypeCorrect == LifecycleSpec => []LifecycleTypeOK
  <1>1. LifecycleInit => WellFormed /\ Queue
    BY LifecycleFormInit
  <1>2. WellFormed /\ Queue /\ [LifecycleNext]_lvars => WellFormed' /\ Queue'
    BY LifecycleFormStep
  <1>3. WellFormed /\ Queue => LifecycleTypeOK
    BY WellFormedType DEF Queue, LifecycleTypeOK, TeardownRows
  <1> QED
    BY <1>1, <1>2, <1>3, PTL DEF LifecycleSpec


-----------------------------------------------------------------------------
(* The history of the requests: only the sweep moves a grant, and it moves *)
(* the request with it.                                                    *)
Swept(p) ==
    \E r \in Requests : grant[r].st = "active" /\ ClaimGrant(p, r) /\ UNCHANGED job

LEMMA AccountStore ==
  ASSUME NEW p \in Others, AccountStep(p)
  PROVE  UNCHANGED <<req, grant, job>> \/ (Swept(p) /\ p \in GodDisablers)
  <1>1. CASE \/ FlipStart(p) \/ EnableAgain(p) \/ TakeLifecycle(p) \/ LifecycleTimeout(p)
             \/ FlipCommit(p) \/ FlipFails(p) \/ SweepList(p) \/ SweepDone(p)
             \/ InlineClaim(p) \/ TeardownClaimDue(p) \/ TeardownUser(p) \/ TeardownOwner(p)
    BY <1>1 DEF FlipStart, EnableAgain, TakeLifecycle, LifecycleTimeout, FlipCommit,
                FlipFails, SweepList, SweepDone, InlineClaim, TeardownClaimDue, TeardownUser,
                TeardownOwner, db
  <1>2. CASE \/ AccountEnter(p) \/ AccountTimeout(p) \/ AccountCheck(p) \/ RebuildGrants(p)
             \/ AccountGet(p) \/ SweepPut(p) \/ TeardownPut(p) \/ RebuildPut(p)
             \/ TeardownCredentials(p) \/ TeardownDone(p) \/ TeardownFails(p) \/ CancelJob(p)
    BY <1>2 DEF AccountEnter, AccountTimeout, AccountCheck, RebuildGrants, AccountGet,
                SweepPut, TeardownPut, RebuildPut, TeardownCredentials, TeardownDone,
                TeardownFails, CancelJob, db
  <1>3. ASSUME NEW r \in Requests, SweepClaim(p, r)
        PROVE  UNCHANGED <<req, grant, job>> \/ (Swept(p) /\ p \in GodDisablers)
    BY <1>3 DEF SweepClaim, Swept
  <1> QED
    BY <1>1, <1>2, <1>3 DEF AccountStep

LEMMA SweptIs ==
  ASSUME WellFormed, History, NEW p \in Procs, Swept(p)
  PROVE  /\ \A s \in Requests : Recorded(s)'
         /\ job' = job
         /\ \A s \in Requests : /\ job["approve"][s].st # "none" => req'[s] = req[s]
                                /\ req[s] = "absent" => req'[s] = "absent"
                                /\ req[s] \in {"cancelled", "denied"} =>
                                     req'[s] = req[s] /\ grant'[s] = grant[s]
                                /\ grant'[s].st = "active" => grant[s].st = "active"
  <1>1. PICK r \in Requests : grant[r].st = "active" /\ ClaimGrant(p, r) /\ UNCHANGED job
    BY DEF Swept
  <1>2. /\ req \in [Requests -> ReqStatus] /\ grant \in [Requests -> GrantRows]
        /\ \A s \in Requests : Recorded(s)
    BY RecordIs DEF WellFormed, Rows, History
  <1>3. req[r] = "approved" /\ job["approve"][r].st = "none"
    BY <1>1, <1>2 DEF Recorded
  <1>4. /\ grant' = [grant EXCEPT ![r] = [st |-> "revoked", by |-> p]]
        /\ req' = [req EXCEPT ![r] = "revoked"]
    BY <1>1, <1>3 DEF ClaimGrant
  <1>5. \A s \in Requests : Recorded(s)'
    BY <1>1, <1>2, <1>3, <1>4 DEF Recorded
  <1> QED
    BY <1>1, <1>2, <1>3, <1>4, <1>5

LEMMA FindsAmid ==
  ASSUME History, NEW p \in Procs, Elsewhere(p), NEW q \in Procs, q # p,
         Owns(q, "approve")' => /\ Owns(q, "approve")
                                /\ req'[subj[q]] = req[subj[q]],
         \A r \in Requests : req[r] = "absent" => req'[r] = "absent"
  PROVE  Finds(q)'
  <1>1. Finds(q) /\ pc'[q] = pc[q] /\ memo'[q] = memo[q] /\ subj'[q] = subj[q]
    BY DEF History, Elsewhere
  <1>2. q \in Clients => Inserts(q)'
    BY <1>1, ConstantsAssumption DEF Finds, Inserts
  <1>3. q \in Approvers => ApproverFinds(q)'
    BY <1>1 DEF Finds, ApproverFinds
  <1>4. q \in Workers => WorkerFinds(q)'
    BY <1>1 DEF Finds, WorkerFinds
  <1> QED
    BY <1>2, <1>3, <1>4 DEF Finds

LEMMA HistoryAccount ==
  ASSUME WellFormed, Queue, History, NEW p \in Others, AccountStep(p)
  PROVE  History'
  <1>0. p \in Procs /\ Elsewhere(p) /\ \A r \in Requests : Recorded(r)
    BY OtherIs, FitsStep, RecordIs DEF Fits, History
  <1>1. Finds(p)'
    BY OtherIs DEF Finds
  <1>2. CASE UNCHANGED <<req, grant, job>>
    <2>1. \A r \in Requests : Recorded(r)'
      BY <1>0, <1>2, RecordStays
    <2>2. \A q \in Procs : Finds(q)'
      BY <1>0, <1>1, <1>2, FindsElsewhere DEF Store
    <2> QED
      BY <2>1, <2>2 DEF History, HistoryMatchesGrant, OwedOrGranted, Recorded
  <1>3. CASE Swept(p)
    <2>1. \A r \in Requests : Recorded(r)'
      BY <1>0, <1>3, SweptIs
    <2>2. ASSUME NEW q \in Procs, q # p, Owns(q, "approve")'
          PROVE  Owns(q, "approve") /\ req'[subj[q]] = req[subj[q]]
      <3>1. subj'[q] = subj[q] /\ subj[q] \in Requests /\ job' = job
        BY <1>0, <1>3, <2>2, RoleOf, SweptIs DEF Elsewhere
      <3>2. Owns(q, "approve") /\ job["approve"][subj[q]].st # "none"
        BY <2>2, <3>1 DEF Owns
      <3> QED
        BY <1>0, <1>3, <3>1, <3>2, SweptIs
    <2>3. \A q \in Procs : Finds(q)'
      BY <1>0, <1>1, <1>3, <2>2, FindsAmid, SweptIs
    <2> QED
      BY <2>1, <2>3 DEF History, HistoryMatchesGrant, OwedOrGranted, Recorded
  <1> QED
    BY <1>2, <1>3, AccountStore

LEMMA LifecycleHistoryStep ==
  ASSUME WellFormed, Queue, History, [LifecycleNext]_lvars
  PROVE  History'
  <1>1. CASE [Next]_vars
    BY <1>1, HistoryStep
  <1>2. ASSUME NEW p \in Others, AccountStep(p) PROVE History'
    BY <1>2, HistoryAccount
  <1>3. CASE ReleaseStaleTeardown
    <2>1. UNCHANGED <<req, grant, job, pc, memo, subj>> /\ \A r \in Requests : Recorded(r)
      BY <1>3, RecordIs DEF ReleaseStaleTeardown, db, History
    <2>2. \A q \in Procs : Finds(q)'
      BY <2>1, FindsStay DEF Owns
    <2>3. \A r \in Requests : Recorded(r)'
      BY <2>1, RecordStays
    <2> QED
      BY <2>2, <2>3 DEF History, HistoryMatchesGrant, OwedOrGranted, Recorded
  <1> QED
    BY <1>1, <1>2, <1>3 DEF LifecycleNext, AccessNext, lvars

LEMMA LifecycleFinalStep ==
  ASSUME WellFormed, Queue, History, [LifecycleNext]_lvars, NEW r \in Requests
  PROVE  /\ req[r] \in {"cancelled", "denied"} => req'[r] = req[r] /\ grant'[r] = grant[r]
         /\ grant[r].st = "revoked" /\ grant'[r].st = "active" =>
              pc[grant[r].by] = "restore" /\ pc'[grant[r].by] # "restore"
  <1>1. CASE [Next]_vars
    BY <1>1, FinalStep
  <1>2. CASE UNCHANGED <<req, grant>>
    BY <1>2
  <1>3. ASSUME NEW p \in Others, Swept(p)
        PROVE  /\ req[r] \in {"cancelled", "denied"} => req'[r] = req[r] /\ grant'[r] = grant[r]
               /\ grant'[r].st = "active" => grant[r].st = "active"
    BY <1>3, OtherIs, SweptIs
  <1> QED
    BY <1>1, <1>2, <1>3, AccountStore
       DEF LifecycleNext, AccessNext, lvars, ReleaseStaleTeardown, db

(* The history of a request agrees with its grant through every disable,   *)
(* sweep and re-enable too: the sweep revokes the request with its grant,  *)
(* and a grant that became active meanwhile has no approval job left.      *)
THEOREM SweepsKeepHistory == LifecycleSpec => []HistoryMatchesGrant
  <1> DEFINE Inv == WellFormed /\ Queue /\ History
  <1>1. LifecycleInit => Inv
    BY LifecycleFormInit, HistoryInit DEF LifecycleInit
  <1>2. Inv /\ [LifecycleNext]_lvars => Inv'
    BY LifecycleFormStep, LifecycleHistoryStep
  <1>3. Inv => HistoryMatchesGrant
    BY DEF History
  <1> QED
    BY <1>1, <1>2, <1>3, PTL DEF LifecycleSpec

(* No disable, sweep, teardown or rebuild acts on a cancelled or denied    *)
(* request.                                                                *)
THEOREM SweepsLeaveDecisions == LifecycleSpec => DecisionsAreFinal
  <1> DEFINE Inv == WellFormed /\ Queue /\ History
  <1>1. LifecycleInit => Inv
    BY LifecycleFormInit, HistoryInit DEF LifecycleInit
  <1>2. Inv /\ [LifecycleNext]_lvars => Inv'
    BY LifecycleFormStep, LifecycleHistoryStep
  <1>3. Inv /\ [LifecycleNext]_lvars =>
          [\A r \in Requests : req[r] \in {"cancelled", "denied"} =>
             req'[r] = req[r] /\ grant'[r] = grant[r]]_vars
    BY LifecycleFinalStep
  <1> QED
    BY <1>1, <1>2, <1>3, PTL DEF LifecycleSpec, DecisionsAreFinal

(* A grant the sweep of a disabled account revoked never comes back, and   *)
(* any other only in the rollback of the revocation that took it: a        *)
(* rollback that finds the grant swept meanwhile leaves it revoked.        *)
THEOREM SweptStaysSwept == LifecycleSpec => OnlyOwnRollback
  <1> DEFINE Inv == WellFormed /\ Queue /\ History
  <1>1. LifecycleInit => Inv
    BY LifecycleFormInit, HistoryInit DEF LifecycleInit
  <1>2. Inv /\ [LifecycleNext]_lvars => Inv'
    BY LifecycleFormStep, LifecycleHistoryStep
  <1>3. Inv /\ [LifecycleNext]_lvars =>
          [\A r \in Requests : (grant[r].st = "revoked" /\ grant'[r].st = "active") =>
             pc[grant[r].by] = "restore" /\ pc'[grant[r].by] # "restore"]_vars
    BY LifecycleFinalStep
  <1> QED
    BY <1>1, <1>2, <1>3, PTL DEF LifecycleSpec, OnlyOwnRollback


-----------------------------------------------------------------------------
(* The consumer's section is exclusive while no lease lapses under a       *)
(* running holder.                                                         *)
LEMMA KeepsHands ==
  ASSUME NEW p \in Procs, UNCHANGED <<lease, held>>, pc'[p] \in SectionAt => pc[p] \in SectionAt
  PROVE  LeaseMove(p)
  BY DEF LeaseMove

LEMMA TakesHands ==
  ASSUME NEW p \in Procs, NEW k \in Keys, TakeKey(p, k), pc'[p] \in SectionAt => k = consumer
  PROVE  LeaseMove(p)
  BY DEF LeaseMove

LEMMA LeavesHands ==
  ASSUME NEW p \in Procs, NEW keys \in SUBSET Keys, Release(p, keys), pc'[p] \notin SectionAt
  PROVE  LeaseMove(p)
  BY DEF LeaseMove

LEMMA FinishHands ==
  ASSUME WellFormed, NEW p \in Procs, Finish(p)
  PROVE  LeaseMove(p)
  <1>1. held[p] \in SUBSET Keys /\ Release(p, held[p]) /\ pc'[p] \in {"done", "idle"}
    BY DEF Finish, WellFormed, Leases, Machines
  <1> QED
    BY <1>1, LeavesHands DEF SectionAt

LEMMA LeaveHands ==
  ASSUME WellFormed, NEW p \in Procs, NEW x, LeaveConsumer(p, x), x \notin SectionAt
  PROVE  LeaseMove(p)
  <1>1. {consumer} \in SUBSET Keys /\ Release(p, {consumer}) /\ pc'[p] = x
    BY KeysAre DEF LeaveConsumer, Goto, WellFormed, Machines
  <1> QED
    BY <1>1, LeavesHands

LEMMA FailHands ==
  ASSUME WellFormed, NEW p \in Procs, p \in Roles, SectionFails(p)
  PROVE  LeaseMove(p)
  <1>1. OnError(p) \in {"live", "settle", "rckey", "resched"}
    BY ConstantsAssumption DEF OnError, Adding, Roles
  <1> QED
    BY <1>1, LeaveHands DEF SectionFails, SectionAt

LEMMA EarlyHands ==
  ASSUME WellFormed, NEW p \in Procs,
         \/ RequestCheck(p) \/ RequestLock(p) \/ RequestInsert(p)
         \/ \E r \in Requests : ApproveStart(p, r) \/ RevokeStart(p, r)
         \/ TakeProxy(p) \/ ProxyTimeout(p) \/ ApproveAdmit(p) \/ ApproveRefused(p)
         \/ ApproveClaim(p) \/ ApproveClaimFails(p) \/ EnterConsumer(p)
         \/ RevokeClaim(p) \/ RevokeClaimFails(p)
  PROVE  LeaseMove(p)
  <1>0. pc \in [Procs -> PCs] /\ subj[p] \in Requests /\ ApiOf[subj[p]] \in Keys
    BY RoleOf, KeysAre DEF WellFormed, Machines
  <1>1. CASE RequestCheck(p) \/ ProxyTimeout(p) \/ ApproveAdmit(p) \/ ApproveClaim(p)
             \/ RevokeClaim(p) \/ \E r \in Requests : ApproveStart(p, r) \/ RevokeStart(p, r)
    <2>1. /\ UNCHANGED <<lease, held>>
          /\ pc'[p] \in {"submit", "resched", "done", "claim", "ckey", "proxy"}
      BY <1>0, <1>1 DEF RequestCheck, ProxyTimeout, ApproveAdmit, ApproveClaim, RevokeClaim,
                        ApproveStart, RevokeStart, Goto
    <2> QED
      BY <2>1, KeepsHands DEF SectionAt
  <1>2. CASE RequestLock(p) \/ TakeProxy(p)
    <2>1. TakeKey(p, ApiOf[subj[p]]) /\ pc'[p] \in {"insert", "admit", "claim", "owned"}
      BY <1>0, <1>2, RoleOf DEF RequestLock, TakeProxy, Goto, Roles
    <2> QED
      BY <1>0, <2>1, TakesHands DEF SectionAt
  <1>3. CASE EnterConsumer(p)
    BY <1>3, KeysAre, TakesHands DEF EnterConsumer
  <1>4. CASE Finish(p)
    BY <1>4, FinishHands
  <1> QED
    BY <1>1, <1>2, <1>3, <1>4
       DEF RequestInsert, ApproveRefused, ApproveClaimFails, RevokeClaimFails

LEMMA SectionHands ==
  ASSUME WellFormed, NEW p \in Procs,
         \/ ConsumerTimeout(p) \/ CheckActive(p) \/ Get(p)
         \/ GuardApproval(p) \/ GuardUnwind(p) \/ GuardRevocation(p) \/ GuardReconcile(p)
         \/ PutGroup(p) \/ TakeOffGroup(p) \/ PutReconciled(p)
         \/ GrantCommit(p) \/ GrantFails(p)
  PROVE  LeaseMove(p)
  <1>0. pc \in [Procs -> PCs]
    BY DEF WellFormed, Machines
  <1>1. CASE SectionFails(p)
    <2>2. CASE p \in Roles
      BY <1>1, <2>2, FailHands
    <2>3. CASE p \notin Roles
      <3>1. ~ (ConsumerTimeout(p) \/ Get(p))
        BY <2>3, RoleOf DEF ConsumerTimeout, Get
      <3>2. ~ (\/ GuardApproval(p) \/ GuardUnwind(p) \/ GuardRevocation(p)
               \/ GuardReconcile(p) \/ PutGroup(p) \/ TakeOffGroup(p) \/ PutReconciled(p)
               \/ GrantCommit(p) \/ GrantFails(p) \/ CheckActive(p))
        BY <2>3 DEF GuardApproval, GuardUnwind, GuardRevocation, GuardReconcile, PutGroup,
                    TakeOffGroup, PutReconciled, GrantCommit, GrantFails, CheckActive, Roles,
                    Adding
      <3> QED
        BY <3>1, <3>2
    <2> QED
      BY <2>2, <2>3
  <1>2. CASE Finish(p)
    BY <1>2, FinishHands
  <1>3. ASSUME NEW x \in {"live", "resched", "drop", "settle", "complete"}, LeaveConsumer(p, x)
        PROVE  LeaseMove(p)
    BY <1>3, LeaveHands DEF SectionAt
  <1>4. ASSUME UNCHANGED <<lease, held>>, pc[p] \in SectionAt PROVE LeaseMove(p)
    BY <1>4, KeepsHands
  <1>5. CASE CheckActive(p) \/ GuardApproval(p) \/ GuardUnwind(p) \/ GuardReconcile(p)
             \/ GrantCommit(p) \/ GrantFails(p) \/ GuardRevocation(p)
    BY <1>2, <1>3, <1>4, <1>5
       DEF CheckActive, GuardApproval, GuardUnwind, GuardReconcile, GrantCommit, GrantFails,
           GuardRevocation, SectionAt
  <1>6. CASE PutGroup(p) \/ PutReconciled(p) \/ ConsumerTimeout(p) \/ Get(p)
    BY <1>1, <1>3, <1>4, <1>6 DEF PutGroup, PutReconciled, Put, ConsumerTimeout, Get, SectionAt
  <1>7. CASE TakeOffGroup(p)
    <2>1. p \in Roles
      BY <1>7 DEF TakeOffGroup, Roles
    <2>2. (CASE p \in Approvers -> "settle" [] p \in Revokers -> "drop"
             [] p \in Workers -> "complete") \in {"settle", "drop", "complete"}
      BY <2>1, ConstantsAssumption DEF Roles
    <2> QED
      BY <1>1, <1>3, <1>7, <2>2 DEF TakeOffGroup, Put
  <1> QED
    BY <1>5, <1>6, <1>7

LEMMA LaterHands ==
  ASSUME WellFormed, NEW p \in Procs,
         \/ UnwindApproval(p) \/ SettleRequest(p) \/ SettleJob(p)
         \/ RollbackEnter(p) \/ RollbackGet(p) \/ RollbackLifecycle(p)
         \/ RollbackTimeout(p) \/ RestoreCommit(p) \/ RestoreFails(p)
         \/ \E kind \in Kinds, r \in Requests : WorkerClaim(p, kind, r)
         \/ RecoverApproval(p) \/ WorkerComplete(p) \/ WorkerCompleteFails(p) \/ Crash(p)
  PROVE  LeaseMove(p)
  <1>0. pc \in [Procs -> PCs] /\ held[p] \in SUBSET Keys
    BY DEF WellFormed, Machines, Leases
  <1>1. CASE \/ UnwindApproval(p) \/ SettleRequest(p) \/ RollbackGet(p)
             \/ (\E kind \in Kinds, r \in Requests : WorkerClaim(p, kind, r))
             \/ WorkerCompleteFails(p) \/ (RecoverApproval(p) /\ ~ Finish(p))
    <2>1. /\ UNCHANGED <<lease, held>>
          /\ pc'[p] \in {"drop", "resched", "ckey", "settle", "rlife", "proxy"}
      BY <1>0, <1>1 DEF UnwindApproval, SettleRequest, RollbackGet, WorkerClaim,
                        WorkerCompleteFails, RecoverApproval, Goto
    <2> QED
      BY <2>1, KeepsHands DEF SectionAt
  <1>2. CASE RollbackEnter(p) \/ RollbackLifecycle(p)
    <2>1. (TakeKey(p, consumer) \/ TakeKey(p, lifecycle)) /\ pc'[p] \in {"rget", "restore"}
      BY <1>0, <1>2 DEF RollbackEnter, RollbackLifecycle, Goto
    <2> QED
      BY <2>1, KeysAre, TakesHands DEF SectionAt
  <1>3. CASE RollbackTimeout(p) \/ RestoreCommit(p) \/ RestoreFails(p)
    <2>1. (Release(p, {consumer, lifecycle}) \/ Release(p, held[p]))
          /\ pc'[p] \in {"rckey", "resched"}
      BY <1>0, <1>3 DEF RollbackTimeout, RestoreCommit, RestoreFails, RestoreAlone,
                        ResumeUnderFreshProxy, Goto
    <2>2. {consumer, lifecycle} \in SUBSET Keys
      BY KeysAre
    <2> QED
      BY <1>0, <2>1, <2>2, LeavesHands DEF SectionAt
  <1>4. CASE Finish(p)
    BY <1>4, FinishHands
  <1>5. CASE Crash(p)
    BY <1>0, <1>5 DEF Crash, LeaseMove, SectionAt
  <1> QED
    BY <1>1, <1>2, <1>3, <1>4, <1>5 DEF SettleJob, WorkerComplete

LEMMA StepHands ==
  ASSUME WellFormed, NEW p \in Procs, Step(p) \/ Crash(p)
  PROVE  LeaseMove(p)
  BY EarlyHands, SectionHands, LaterHands DEF Step

LEMMA ExclusiveMove ==
  ASSUME "takeover" \notin FaultKinds, WellFormed, Exclusive, Sectioned, NEW p \in Procs,
         LeaseMove(p), Elsewhere(p)
  PROVE  Exclusive' /\ Sectioned'
  <1>0. /\ lease \in [Keys -> Procs \cup {NoProc}] /\ held \in [Procs -> SUBSET Keys]
        /\ NoProc \notin Procs
    BY ConstantsAssumption DEF WellFormed, Leases
  <1>1. \A k \in Keys : TakeKey(p, k) => Acquirable(k)
    BY DEF TakeKey, Fault
  <1>2. ASSUME NEW k \in Keys, TakeKey(p, k) PROVE Exclusive'
    <2>1. /\ lease' = [lease EXCEPT ![k] = p] /\ held' = [held EXCEPT ![p] = @ \cup {k}]
          /\ Acquirable(k)
      BY <1>1, <1>2 DEF TakeKey
    <2>2. ASSUME NEW q \in Procs, NEW j \in held'[q] PROVE lease'[j] = q
      <3>1. CASE q = p
        BY <1>0, <1>2, <2>1, <2>2, <3>1 DEF Exclusive
      <3>2. CASE q # p
        <4>1. j \in held[q] /\ lease[j] = q /\ j \in Keys
          BY <1>0, <2>1, <2>2, <3>2 DEF Exclusive
        <4>2. j # k
          BY <1>0, <2>1, <4>1 DEF Acquirable
        <4> QED
          BY <1>0, <2>1, <4>1, <4>2
      <3> QED
        BY <3>1, <3>2
    <2> QED
      BY <2>2 DEF Exclusive
  <1>3. ASSUME NEW keys \in SUBSET Keys, Release(p, keys) PROVE Exclusive'
    BY <1>0, <1>3 DEF Release, Exclusive
  <1>4. Exclusive'
    BY <1>0, <1>2, <1>3 DEF LeaseMove, Exclusive
  <1>5. \A q \in Procs : q # p => held'[q] = held[q]
    BY <1>0 DEF LeaseMove, TakeKey, Release
  <1>6. pc'[p] \in SectionAt => consumer \in held'[p]
    BY <1>0 DEF LeaseMove, TakeKey, Sectioned
  <1>7. Sectioned'
    BY <1>5, <1>6 DEF Sectioned, Elsewhere
  <1> QED
    BY <1>4, <1>7

LEMMA ExclusiveStep ==
  ASSUME "takeover" \notin FaultKinds, WellFormed, Queue, Exclusive, Sectioned,
         [LifecycleNext]_lvars
  PROVE  Exclusive' /\ Sectioned'
  <1>1. CASE UNCHANGED <<lease, held, pc>>
    BY <1>1 DEF Exclusive, Sectioned
  <1>2. ASSUME NEW p \in Procs, Step(p) \/ Crash(p) PROVE Exclusive' /\ Sectioned'
    <2>1. Elsewhere(p)
      BY <1>2, OthersStay DEF Crash, Elsewhere, WellFormed, Machines
    <2> QED
      BY <1>2, <2>1, StepHands, ExclusiveMove
  <1>3. ASSUME NEW p \in Others, AccountStep(p) PROVE Exclusive' /\ Sectioned'
    BY <1>3, FitsStep, OtherIs, ExclusiveMove DEF Fits
  <1>4. ASSUME NEW p, LateLands(p) PROVE UNCHANGED <<lease, held, pc>>
    BY <1>4 DEF LateLands
  <1>5. ASSUME NEW kind, NEW r, Cancel(r) \/ Deny(r) \/ ReleaseStale(kind, r)
        PROVE  UNCHANGED <<lease, held, pc>>
    BY <1>5 DEF Cancel, Deny, ReleaseStale
  <1> QED
    BY <1>1, <1>2, <1>3, <1>4, <1>5
       DEF LifecycleNext, AccessNext, Next, Quiescent, lvars, vars, ReleaseStaleTeardown

LEMMA Alone ==
  ASSUME Exclusive, Sectioned, NEW p \in Procs, NEW q \in Procs, pc[p] \in SectionAt,
         pc[q] \in SectionAt
  PROVE  p = q
  BY DEF Exclusive, Sectioned


-----------------------------------------------------------------------------
(* The steps of AccessGrants are no administrator's, and write the         *)
(* consumer in three places only.                                          *)
LEMMA NoOtherStep ==
  ASSUME WellFormed, NEW p \in Others
  PROVE  ~ Step(p)
  <1>0. /\ p \in Procs /\ p \notin Clients /\ p \notin Approvers /\ p \notin Revokers
        /\ p \notin Workers /\ pc[p] \in OtherPlaces
    BY OtherIs, RoleOf
  <1>1. ~ (\/ RequestCheck(p) \/ RequestLock(p) \/ RequestInsert(p)
           \/ (\E r \in Requests : ApproveStart(p, r) \/ RevokeStart(p, r))
           \/ TakeProxy(p) \/ ProxyTimeout(p) \/ ApproveAdmit(p) \/ ApproveRefused(p)
           \/ ApproveClaim(p) \/ ApproveClaimFails(p) \/ EnterConsumer(p)
           \/ ConsumerTimeout(p) \/ CheckActive(p) \/ Get(p))
    BY <1>0 DEF RequestCheck, RequestLock, RequestInsert, ApproveStart, RevokeStart,
                TakeProxy, ProxyTimeout, ApproveAdmit, ApproveRefused, ApproveClaim,
                ApproveClaimFails, EnterConsumer, ConsumerTimeout, CheckActive, Get,
                OtherPlaces
  <1>2. ~ (\/ GuardApproval(p) \/ GuardUnwind(p) \/ GuardRevocation(p) \/ GuardReconcile(p)
           \/ PutGroup(p) \/ TakeOffGroup(p) \/ PutReconciled(p) \/ GrantCommit(p)
           \/ GrantFails(p) \/ UnwindApproval(p) \/ SettleRequest(p) \/ SettleJob(p))
    BY <1>0 DEF GuardApproval, GuardUnwind, GuardRevocation, GuardReconcile, PutGroup,
                TakeOffGroup, PutReconciled, GrantCommit, GrantFails, UnwindApproval,
                SettleRequest, SettleJob, Adding
  <1>3. ~ (\/ RevokeClaim(p) \/ RevokeClaimFails(p) \/ RollbackEnter(p) \/ RollbackGet(p)
           \/ RollbackLifecycle(p) \/ RollbackTimeout(p) \/ RestoreCommit(p)
           \/ RestoreFails(p)
           \/ (\E kind \in Kinds, r \in Requests : WorkerClaim(p, kind, r))
           \/ RecoverApproval(p) \/ WorkerComplete(p) \/ WorkerCompleteFails(p))
    BY <1>0 DEF RevokeClaim, RevokeClaimFails, RollbackEnter, RollbackGet,
                RollbackLifecycle, RollbackTimeout, RestoreCommit, RestoreFails, WorkerClaim,
                RecoverApproval, WorkerComplete, WorkerCompleteFails
  <1> QED
    BY <1>1, <1>2, <1>3 DEF Step

(* What a step may do to the consumer: nothing, or a write of these groups. *)
Sends(p, groups) ==
    \/ UNCHANGED <<acl, late>>
    \/ acl' = groups /\ \A q \in Procs : late'[q] = {}
    \/ /\ "late" \in FaultKinds /\ acl' = acl
       /\ late' = [late EXCEPT ![p] = @ \cup {groups}]

LEMMA StepSends ==
  ASSUME WellFormed, StoppedLeave, NEW p \in Procs, Step(p) \/ Crash(p)
  PROVE  \/ UNCHANGED <<acl, late>>
         \/ PutGroup(p) /\ Sends(p, acl \cup {Api(p)})
         \/ TakeOffGroup(p) /\ Sends(p, acl \ {Api(p)})
         \/ PutReconciled(p) /\ Sends(p, Groups(p))
  <1>1. CASE PutGroup(p)
    BY <1>1 DEF PutGroup, Put, Sends, EdgeWrite, edge, Fault
  <1>2. CASE TakeOffGroup(p)
    BY <1>2 DEF TakeOffGroup, Put, Sends, EdgeWrite, edge, Fault
  <1>3. CASE PutReconciled(p)
    BY <1>3 DEF PutReconciled, Put, Sends, EdgeWrite, edge, Fault, Groups
  <1>4. CASE CheckActive(p)
    BY <1>4 DEF CheckActive, edge
  <1>5. CASE Quiet(p)
    BY <1>5 DEF Quiet
  <1> QED
    BY <1>1, <1>2, <1>3, <1>4, <1>5, QuietStep

LEMMA AccountSends ==
  ASSUME NEW p \in Others, AccountStep(p)
  PROVE  \/ UNCHANGED <<acl, late>>
         \/ SweepPut(p) /\ Sends(p, acl \ {Api(p)})
         \/ TeardownPut(p) /\ Sends(p, {})
         \/ RebuildPut(p) /\ Sends(p, RebuiltGroups(p))
  <1>1. CASE \/ FlipStart(p) \/ EnableAgain(p) \/ TakeLifecycle(p) \/ LifecycleTimeout(p)
             \/ FlipCommit(p) \/ FlipFails(p) \/ SweepList(p) \/ SweepDone(p)
             \/ InlineClaim(p) \/ TeardownClaimDue(p) \/ TeardownUser(p) \/ TeardownOwner(p)
             \/ \E r \in Requests : SweepClaim(p, r)
    BY <1>1 DEF FlipStart, EnableAgain, TakeLifecycle, LifecycleTimeout, FlipCommit,
                FlipFails, SweepList, SweepDone, InlineClaim, TeardownClaimDue, TeardownUser,
                TeardownOwner, SweepClaim, edge
  <1>2. CASE \/ AccountEnter(p) \/ AccountTimeout(p) \/ AccountCheck(p) \/ RebuildGrants(p)
             \/ AccountGet(p) \/ TeardownCredentials(p) \/ TeardownDone(p)
             \/ TeardownFails(p) \/ CancelJob(p)
    BY <1>2 DEF AccountEnter, AccountTimeout, AccountCheck, RebuildGrants, AccountGet,
                TeardownCredentials, TeardownDone, TeardownFails, CancelJob, edge
  <1>3. CASE SweepPut(p)
    BY <1>3 DEF SweepPut, Put, Sends, EdgeWrite, edge, Fault
  <1>4. CASE TeardownPut(p)
    BY <1>4 DEF TeardownPut, Put, Sends, EdgeWrite, edge, Fault
  <1>5. CASE RebuildPut(p)
    BY <1>5 DEF RebuildPut, Put, Sends, EdgeWrite, edge, Fault
  <1> QED
    BY <1>1, <1>2, <1>3, <1>4, <1>5 DEF AccountStep

(* Without the fault no PUT is ever under way unanswered. *)
Prompt == "late" \notin FaultKinds => \A p \in Procs : late[p] = {}

LEMMA PromptSends ==
  ASSUME Prompt, NEW p, NEW groups, Sends(p, groups)
  PROVE  Prompt'
  BY DEF Prompt, Sends

LEMMA PromptStep ==
  ASSUME WellFormed, StoppedLeave, Prompt, [LifecycleNext]_lvars
  PROVE  Prompt'
  <1>1. CASE UNCHANGED late
    BY <1>1 DEF Prompt
  <1>2. ASSUME NEW p \in Procs, Step(p) \/ Crash(p) PROVE Prompt'
    BY <1>1, <1>2, StepSends, PromptSends
  <1>3. ASSUME NEW p \in Others, AccountStep(p) PROVE Prompt'
    BY <1>1, <1>3, AccountSends, PromptSends
  <1>4. ASSUME NEW p, LateLands(p) PROVE Prompt'
    BY <1>4 DEF LateLands, EdgeWrite, Prompt
  <1>5. ASSUME NEW kind, NEW r, Cancel(r) \/ Deny(r) \/ ReleaseStale(kind, r) PROVE Prompt'
    BY <1>1, <1>5 DEF Cancel, Deny, ReleaseStale, edge
  <1> QED
    BY <1>1, <1>2, <1>3, <1>4, <1>5
       DEF LifecycleNext, AccessNext, Next, Quiescent, lvars, vars, ReleaseStaleTeardown, edge


-----------------------------------------------------------------------------
(* What a step of an administrator or a teardown worker does to the        *)
(* account: it flips the status with the teardown row, or moves that row.  *)
Flips(p) ==
    /\ Flip(p) /\ pc[p] = "flip" /\ pc'[p] \in {"list", "tclaim", "ckey", "idle"}
    /\ p \in Disablers \cup Enablers /\ UNCHANGED <<acl, late>>

LEMMA AccountFlips ==
  ASSUME WellFormed, NEW p \in Others, AccountStep(p)
  PROVE  (UNCHANGED status /\ (rebuilt' = rebuilt \/ RebuildPut(p))) \/ Flips(p)
  <1>1. CASE \/ FlipStart(p) \/ EnableAgain(p) \/ TakeLifecycle(p) \/ LifecycleTimeout(p)
             \/ SweepList(p) \/ SweepDone(p) \/ InlineClaim(p) \/ TeardownClaimDue(p)
             \/ TeardownUser(p) \/ TeardownOwner(p) \/ \E r \in Requests : SweepClaim(p, r)
    BY <1>1 DEF FlipStart, EnableAgain, TakeLifecycle, LifecycleTimeout, SweepList,
                SweepDone, InlineClaim, TeardownClaimDue, TeardownUser, TeardownOwner,
                SweepClaim, db
  <1>2. CASE \/ AccountEnter(p) \/ AccountTimeout(p) \/ AccountCheck(p) \/ RebuildGrants(p)
             \/ AccountGet(p) \/ SweepPut(p) \/ TeardownPut(p) \/ RebuildPut(p)
             \/ TeardownCredentials(p) \/ TeardownDone(p) \/ TeardownFails(p) \/ CancelJob(p)
    BY <1>2 DEF AccountEnter, AccountTimeout, AccountCheck, RebuildGrants, AccountGet,
                SweepPut, TeardownPut, RebuildPut, TeardownCredentials, TeardownDone,
                TeardownFails, CancelJob, db
  <1>3. CASE FlipCommit(p) \/ FlipFails(p)
    <2>1. p \in Procs /\ pc \in [Procs -> PCs]
      BY OtherIs DEF WellFormed, Machines
    <2>2. pc'[p] \in {"list", "tclaim", "ckey", "idle"}
      BY <1>3, <2>1, WhoIs DEF FlipCommit, FlipFails, Goto, End
    <2> QED
      BY <1>3, <2>2 DEF FlipCommit, FlipFails, Flips, edge
  <1> QED
    BY <1>1, <1>2, <1>3 DEF AccountStep

LEMMA BeforeAt ==
  ASSUME WellFormed, Queue, Before, Enablers = {}, status = "active", NEW p \in Others,
         AccountStep(p)
  PROVE  /\ p \in Disablers /\ pc[p] \in {"idle", "lkey", "flip"}
         /\ status' = "active" => pc'[p] \in {"idle", "lkey", "flip"}
         /\ UNCHANGED <<req, grant, job, acl, late, fresh>>
         /\ FlipStart(p) \/ TakeLifecycle(p) \/ LifecycleTimeout(p) \/ FlipCommit(p)
            \/ FlipFails(p)
  <1>0. /\ p \in Procs /\ pc \in [Procs -> PCs] /\ p \notin Enablers
        /\ p \in Disablers \/ (p \in TeardownWorkers /\ tjob.st = "none")
    BY OtherIs, WhoIs DEF WellFormed, Machines, Queue
  <1>1. /\ p \in Disablers => pc[p] \in {"idle", "lkey", "flip"} /\ p \notin TeardownWorkers
        /\ p \in TeardownWorkers => pc[p] = "idle" /\ p \notin Disablers
    BY WhoIs DEF Before
  <1>2. ~ (\/ SweepList(p) \/ SweepDone(p) \/ (\E r \in Requests : SweepClaim(p, r))
           \/ InlineClaim(p) \/ TeardownClaimDue(p) \/ TeardownUser(p) \/ TeardownOwner(p)
           \/ AccountEnter(p) \/ AccountTimeout(p) \/ AccountCheck(p) \/ RebuildGrants(p)
           \/ AccountGet(p) \/ EnableAgain(p))
    BY <1>0, <1>1, WhoIs
       DEF SweepList, SweepDone, SweepClaim, InlineClaim, TeardownClaimDue, TeardownUser,
           TeardownOwner, AccountEnter, AccountTimeout, AccountCheck, RebuildGrants,
           AccountGet, EnableAgain
  <1>3. ~ (\/ SweepPut(p) \/ TeardownPut(p) \/ RebuildPut(p) \/ TeardownCredentials(p)
           \/ TeardownDone(p) \/ TeardownFails(p) \/ CancelJob(p))
    BY <1>0, <1>1 DEF SweepPut, TeardownPut, RebuildPut, TeardownCredentials, TeardownDone,
                      TeardownFails, CancelJob
  <1>4. \/ FlipStart(p) \/ TakeLifecycle(p) \/ LifecycleTimeout(p) \/ FlipCommit(p)
        \/ FlipFails(p)
    BY <1>2, <1>3 DEF AccountStep
  <1>5. p \in Disablers
    BY <1>0, <1>1, <1>4 DEF FlipStart, TakeLifecycle, LifecycleTimeout, FlipCommit, FlipFails
  <1>6. status' = "active" => pc'[p] \in {"idle", "lkey", "flip"}
    BY <1>0, <1>1, <1>4, <1>5
       DEF FlipStart, TakeLifecycle, LifecycleTimeout, FlipCommit, FlipFails, Flip, Goto, End
  <1> QED
    BY <1>1, <1>4, <1>5, <1>6
       DEF FlipStart, TakeLifecycle, LifecycleTimeout, FlipCommit, FlipFails, db, edge

LEMMA BeforeStep ==
  ASSUME WellFormed, Queue, Before, [LifecycleNext]_lvars
  PROVE  Before'
  <1> SUFFICES ASSUME Enablers = {}, status' = "active"
               PROVE  /\ \A d \in Disablers : pc'[d] \in {"idle", "lkey", "flip"}
                      /\ \A w \in TeardownWorkers : pc'[w] = "idle"
    BY DEF Before
  <1>0. /\ \A d \in Disablers : d \in Others /\ d \in Procs
        /\ \A w \in TeardownWorkers : w \in Others /\ w \in Procs
    BY OthersAre
  <1>1. CASE UNCHANGED <<status, pc>>
    BY <1>1 DEF Before
  <1>2. ASSUME NEW p \in Procs, Step(p), UNCHANGED status
        PROVE  /\ \A d \in Disablers : pc'[d] \in {"idle", "lkey", "flip"}
               /\ \A w \in TeardownWorkers : pc'[w] = "idle"
    <2>1. Elsewhere(p) /\ p \notin Others
      BY <1>2, OthersStay, NoOtherStep
    <2> QED
      BY <1>0, <1>2, <2>1 DEF Before, Elsewhere
  <1>3. ASSUME NEW p \in Procs, Crash(p), UNCHANGED status
        PROVE  /\ \A d \in Disablers : pc'[d] \in {"idle", "lkey", "flip"}
               /\ \A w \in TeardownWorkers : pc'[w] = "idle"
    <2>1. /\ \A q \in Procs : q # p => pc'[q] = pc[q]
          /\ p \in Others => pc'[p] = "idle"
      BY <1>3, OtherIs DEF Crash, WellFormed, Machines
    <2> QED
      BY <1>0, <1>3, <2>1 DEF Before
  <1>4. ASSUME NEW p \in Others, AccountStep(p)
        PROVE  /\ \A d \in Disablers : pc'[d] \in {"idle", "lkey", "flip"}
               /\ \A w \in TeardownWorkers : pc'[w] = "idle"
    <2>1. status = "active"
      BY <1>4, AccountFlips, WhoIs DEF Flips, Flip
    <2>2. Elsewhere(p) /\ p \in Disablers /\ pc'[p] \in {"idle", "lkey", "flip"}
      BY <1>4, <2>1, BeforeAt, FitsStep DEF Fits
    <2> QED
      BY <1>0, <2>1, <2>2, WhoIs DEF Before, Elsewhere
  <1>5. ASSUME NEW p, LateLands(p) PROVE UNCHANGED <<status, pc>>
    BY <1>5 DEF LateLands, db
  <1>6. ASSUME NEW kind, NEW r, Cancel(r) \/ Deny(r) \/ ReleaseStale(kind, r)
        PROVE  UNCHANGED <<status, pc>>
    BY <1>6 DEF Cancel, Deny, ReleaseStale
  <1>7. Next => status' = status
    BY StatusStays
  <1> QED
    BY <1>1, <1>2, <1>3, <1>4, <1>5, <1>6, <1>7
       DEF LifecycleNext, AccessNext, Next, Quiescent, lvars, vars, ReleaseStaleTeardown, db


-----------------------------------------------------------------------------
(* While the account is disabled a bare consumer stays bare: the account   *)
(* check stops every approval and every rebuild, and a recovery that looks *)
(* at the account writes no group.                                         *)
LEMMA IntoSection ==
  ASSUME WellFormed, NEW p \in Procs, Step(p), pc'[p] \in {"get", "guard", "put"}
  PROVE  \/ EnterConsumer(p) \/ CheckActive(p) \/ Get(p)
         \/ GuardApproval(p) \/ GuardUnwind(p) \/ GuardRevocation(p) \/ GuardReconcile(p)
  <1>0. pc \in [Procs -> PCs]
    BY DEF WellFormed, Machines
  <1>1. ~ Finish(p)
    BY <1>0 DEF Finish
  <1>2. SectionFails(p) => p \notin Roles
    BY <1>0, ConstantsAssumption DEF SectionFails, LeaveConsumer, Goto, OnError, Adding, Roles
  <1>3. ~ (\/ RequestCheck(p) \/ RequestLock(p) \/ RequestInsert(p)
           \/ (\E r \in Requests : ApproveStart(p, r) \/ RevokeStart(p, r))
           \/ ApproveAdmit(p) \/ ApproveRefused(p) \/ ApproveClaim(p) \/ ApproveClaimFails(p)
           \/ RevokeClaim(p) \/ RevokeClaimFails(p) \/ ProxyTimeout(p))
    BY <1>0, <1>1
       DEF RequestCheck, RequestLock, RequestInsert, ApproveStart, RevokeStart, ApproveAdmit,
           ApproveRefused, ApproveClaim, ApproveClaimFails, RevokeClaim, RevokeClaimFails,
           ProxyTimeout, Goto
  <1>4. ~ (TakeProxy(p) \/ ConsumerTimeout(p) \/ PutGroup(p) \/ PutReconciled(p))
    <2>1. TakeProxy(p) \/ ConsumerTimeout(p) \/ PutGroup(p) \/ PutReconciled(p) => p \in Roles
      BY RoleOf DEF TakeProxy, ConsumerTimeout, PutGroup, PutReconciled, Adding, Roles
    <2> QED
      BY <1>0, <1>2, <2>1, ConstantsAssumption
         DEF TakeProxy, ConsumerTimeout, PutGroup, PutReconciled, Put, Goto, LeaveConsumer,
             Roles
  <1>5. ~ TakeOffGroup(p)
    <2>1. TakeOffGroup(p) => p \in Roles
      BY DEF TakeOffGroup, Roles
    <2> QED
      BY <1>0, <1>2, <2>1, ConstantsAssumption DEF TakeOffGroup, Put, Goto, LeaveConsumer, Roles
  <1>6. ~ (\/ GrantCommit(p) \/ GrantFails(p) \/ UnwindApproval(p) \/ SettleRequest(p)
           \/ SettleJob(p) \/ RollbackEnter(p) \/ RollbackGet(p) \/ RollbackLifecycle(p))
    BY <1>0, <1>1
       DEF GrantCommit, GrantFails, UnwindApproval, SettleRequest, SettleJob, RollbackEnter,
           RollbackGet, RollbackLifecycle, Goto, LeaveConsumer
  <1>7. ~ (\/ RollbackTimeout(p) \/ RestoreCommit(p) \/ RestoreFails(p)
           \/ (\E kind \in Kinds, r \in Requests : WorkerClaim(p, kind, r))
           \/ RecoverApproval(p) \/ WorkerComplete(p) \/ WorkerCompleteFails(p))
    BY <1>0, <1>1
       DEF RollbackTimeout, RestoreCommit, RestoreFails, RestoreAlone, ResumeUnderFreshProxy,
           WorkerClaim, RecoverApproval, WorkerComplete, WorkerCompleteFails, Goto
  <1> QED
    BY <1>3, <1>4, <1>5, <1>6, <1>7 DEF Step

LEMMA StaysUnarmed ==
  ASSUME WellFormed, WellFormed', status = "disabled", NEW p \in Procs, Step(p), ~ Armed(p)
  PROVE  ~ Armed(p)'
  <1>0. pc \in [Procs -> PCs] /\ memo \in [Procs -> MemoRecords] /\ p \notin Enablers
    BY NoOtherStep, OthersAre DEF WellFormed, Machines
  <1>1. ASSUME p \in Approvers, Adding(p)', pc'[p] \in {"get", "guard", "put"} PROVE FALSE
    <2>0. p \notin Workers /\ p \notin Revokers
      BY <1>1, ConstantsAssumption
    <2>1. ~ memo'[p].undo
      BY <1>1 DEF Adding
    <2>2. CASE EnterConsumer(p)
      BY <1>0, <1>1, <2>1, <2>2 DEF EnterConsumer, Goto, Adding
    <2>3. ~ CheckActive(p)
      BY <1>0, <1>1 DEF CheckActive, LeaveConsumer, Goto
    <2>4. CASE Get(p) /\ ~ SectionFails(p)
      BY <1>0, <1>1, <2>1, <2>4 DEF Get, Armed, Adding
    <2>5. ~ (SectionFails(p) /\ Get(p))
      BY <1>0, <1>1, ConstantsAssumption
         DEF SectionFails, LeaveConsumer, Goto, OnError, Adding, MemoRecords
    <2>6. ~ GuardApproval(p)
      BY <1>1 DEF GuardApproval, Armed
    <2>7. ~ GuardUnwind(p)
      BY <2>1 DEF GuardUnwind
    <2>8. ~ (GuardRevocation(p) \/ GuardReconcile(p))
      BY <2>0 DEF GuardRevocation, GuardReconcile
    <2> QED
      BY <1>1, <2>2, <2>3, <2>4, <2>5, <2>6, <2>7, <2>8, IntoSection
  <1>2. ASSUME p \in Workers, memo'[p].kind = "approve", pc'[p] = "put", memo'[p].on
        PROVE  FALSE
    <2>0. p \notin Approvers /\ p \notin Revokers
      BY <1>2, ConstantsAssumption
    <2>1. ~ (EnterConsumer(p) \/ CheckActive(p))
      BY <1>0, <1>2, <2>0 DEF EnterConsumer, CheckActive, Goto, Adding
    <2>2. ~ Get(p)
      BY <1>0, <1>2, <2>0
         DEF Get, Goto, SectionFails, LeaveConsumer, OnError, Adding
    <2>3. ~ (GuardApproval(p) \/ GuardUnwind(p))
      BY <2>0 DEF GuardApproval, GuardUnwind, Adding
    <2>4. ~ GuardRevocation(p)
      BY <1>0, <1>2, <2>0 DEF GuardRevocation, Finish, LeaveConsumer, Goto
    <2>5. ~ GuardReconcile(p)
      <3> DEFINE b == (status = "active")
                 L == ActiveOn(Api(p))
                 m == [memo[p] EXCEPT !.live = L, !.on = b]
      <3>1. GuardReconcile(p) => memo'[p] = m
        BY <1>0 DEF GuardReconcile, Recall
      <3>2. ~ b
        OBVIOUS
      <3> HIDE DEF b, L
      <3>3. m.on = b
        BY <1>0 DEF MemoRecords
      <3> HIDE DEF m
      <3> QED
        BY <1>2, <3>1, <3>2, <3>3
    <2> QED
      BY <1>2, <2>1, <2>2, <2>3, <2>4, <2>5, IntoSection
  <1> QED
    BY <1>0, <1>1, <1>2 DEF Armed

LEMMA RebuildStays ==
  ASSUME WellFormed, Queue, status = "disabled", NEW p \in Others, AccountStep(p), ~ Armed(p)
  PROVE  ~ Armed(p)'
  <1>0. p \in Procs /\ pc \in [Procs -> PCs] /\ p \notin Approvers /\ p \notin Workers
    BY OtherIs DEF WellFormed, Machines
  <1> SUFFICES ASSUME p \in Enablers, pc'[p] \in {"grants", "get", "put"} PROVE FALSE
    BY <1>0 DEF Armed
  <1>1. p \notin Disablers /\ p \notin TeardownWorkers /\ p \notin GodDisablers
        /\ pc[p] \notin {"grants", "get", "put"}
    BY WhoIs DEF Armed
  <1>2. ~ End(p) /\ ~ AccountSectionFails(p)
    BY <1>0, <1>1 DEF End, Goto, AccountSectionFails, Sweeping, TearingDown
  <1>3. ~ (\/ FlipStart(p) \/ EnableAgain(p) \/ TakeLifecycle(p) \/ LifecycleTimeout(p)
           \/ FlipCommit(p) \/ FlipFails(p))
    BY <1>0, <1>1, <1>2
       DEF FlipStart, EnableAgain, TakeLifecycle, LifecycleTimeout, FlipCommit, FlipFails, Goto
  <1>4. ~ (\/ SweepList(p) \/ SweepDone(p) \/ (\E r \in Requests : SweepClaim(p, r))
           \/ InlineClaim(p) \/ TeardownClaimDue(p) \/ TeardownUser(p) \/ TeardownOwner(p))
    BY <1>0, <1>1
       DEF SweepList, SweepDone, SweepClaim, InlineClaim, TeardownClaimDue, TeardownUser,
           TeardownOwner, Goto
  <1>5. ~ (AccountEnter(p) \/ AccountTimeout(p) \/ AccountCheck(p))
    BY <1>0, <1>1, <1>2
       DEF AccountEnter, AccountTimeout, AccountCheck, StatusFits, TearingDown, Sweeping, Goto
  <1>6. ~ (\/ RebuildGrants(p) \/ AccountGet(p) \/ SweepPut(p) \/ TeardownPut(p)
           \/ RebuildPut(p) \/ TeardownCredentials(p) \/ TeardownDone(p) \/ TeardownFails(p)
           \/ CancelJob(p))
    BY <1>1 DEF RebuildGrants, AccountGet, SweepPut, TeardownPut, RebuildPut, Sweeping,
                TearingDown, TeardownCredentials, TeardownDone, TeardownFails, CancelJob
  <1> QED
    BY <1>3, <1>4, <1>5, <1>6 DEF AccountStep

LEMMA ArmedIs ==
  ASSUME NEW q \in Procs, pc'[q] = pc[q], memo'[q] = memo[q]
  PROVE  Armed(q)' <=> Armed(q)
  BY DEF Armed, Adding

LEMMA BareSends ==
  ASSUME WellFormed, acl = {}, \A q \in Procs : late[q] \subseteq {{}}, NEW p \in Procs,
         Sends(p, {})
  PROVE  acl' = {} /\ \A q \in Procs : late'[q] \subseteq {{}}
  BY DEF Sends, WellFormed, Machines

LEMMA BareStep ==
  ASSUME WellFormed, Queue, StoppedLeave, status = "disabled", Bare, [LifecycleNext]_lvars
  PROVE  Bare'
  <1>0. WellFormed' /\ acl = {} /\ \A q \in Procs : late[q] \subseteq {{}} /\ ~ Armed(q)
    BY LifecycleFormStep DEF Bare
  <1>1. CASE UNCHANGED <<acl, late, pc, memo>>
    BY <1>0, <1>1, ArmedIs DEF Bare
  <1>2. ASSUME NEW p \in Procs, Step(p) \/ Crash(p) PROVE Bare'
    <2>1. Elsewhere(p)
      BY <1>2, OthersStay DEF Crash, Elsewhere, WellFormed, Machines
    <2>2. ~ Armed(p)'
      <3>1. CASE Step(p)
        BY <1>0, <3>1, StaysUnarmed
      <3>2. CASE Crash(p)
        <4>1. pc'[p] \in {"crashed", "idle"}
          BY <3>2 DEF Crash, WellFormed, Machines
        <4> QED
          BY <4>1 DEF Armed
      <3> QED
        BY <1>2, <3>1, <3>2
    <2>3. ~ PutGroup(p)
      BY <1>0 DEF PutGroup, Armed, Adding
    <2>4. PutReconciled(p) => Groups(p) = {}
      BY <1>0 DEF PutReconciled, Armed, Groups
    <2>5. UNCHANGED <<acl, late>> \/ Sends(p, {})
      <3>1. acl \ {Api(p)} = {}
        BY <1>0
      <3> HIDE DEF Groups
      <3> QED
        BY <1>2, <2>3, <2>4, <3>1, StepSends
    <2>6. acl' = {} /\ \A q \in Procs : late'[q] \subseteq {{}}
      BY <1>0, <2>5, BareSends
    <2> QED
      BY <1>0, <2>1, <2>2, <2>6, ArmedIs DEF Bare, Elsewhere
  <1>3. ASSUME NEW p \in Others, AccountStep(p) PROVE Bare'
    <2>1. Elsewhere(p) /\ p \in Procs /\ ~ Armed(p)'
      BY <1>0, <1>3, FitsStep, OtherIs, RebuildStays DEF Fits
    <2>2. ~ RebuildPut(p)
      BY <1>0, <2>1 DEF RebuildPut, Armed
    <2>3. acl \ {Api(p)} = {}
      BY <1>0
    <2>4. UNCHANGED <<acl, late>> \/ Sends(p, {})
      BY <1>3, <2>2, <2>3, AccountSends
    <2>5. acl' = {} /\ \A q \in Procs : late'[q] \subseteq {{}}
      BY <1>0, <2>1, <2>4, BareSends
    <2> QED
      BY <1>0, <2>1, <2>5, ArmedIs DEF Bare, Elsewhere
  <1>4. ASSUME NEW p \in Procs, LateLands(p) PROVE Bare'
    <2>1. acl' = {} /\ (\A q \in Procs : late'[q] = {}) /\ UNCHANGED <<pc, memo>>
      BY <1>0, <1>4 DEF LateLands, EdgeWrite
    <2> QED
      BY <1>0, <2>1, ArmedIs DEF Bare
  <1>5. ASSUME NEW kind, NEW r, Cancel(r) \/ Deny(r) \/ ReleaseStale(kind, r) PROVE Bare'
    BY <1>1, <1>5 DEF Cancel, Deny, ReleaseStale, edge
  <1> QED
    BY <1>1, <1>2, <1>3, <1>4, <1>5
       DEF LifecycleNext, AccessNext, Next, Quiescent, lvars, vars, ReleaseStaleTeardown, edge


-----------------------------------------------------------------------------
(* The queued teardown lasts until the consumer is bare. *)
LEMMA TeardownMoves ==
  ASSUME WellFormed, Queue, NEW p \in Others, AccountStep(p), status = "disabled",
         status' = "disabled"
  PROVE  \/ tjob' = tjob /\ pc'[p] \notin {"tcreds", "tdone"}
         \/ pc[p] = "put" /\ pc'[p] = "tcreds" /\ EdgeWrite({})
         \/ tjob' = tjob /\ pc[p] = "tcreds" /\ pc'[p] = "tdone"
         \/ tjob'.st = "pending"
         \/ tjob' = [st |-> "sending", gen |-> p] /\ pc'[p] \in {"towner", "tuser"}
         \/ pc[p] = "tdone" /\ OwnsTeardown(p)
  <1>0. p \in Procs /\ pc \in [Procs -> PCs]
    BY OtherIs DEF WellFormed, Machines
  <1>1. End(p) => pc'[p] = "idle"
    BY <1>0 DEF End, Goto
  <1>2. AccountSectionFails(p) => pc'[p] \in {"sweep", "tfail", "idle"}
    BY <1>0, <1>1 DEF AccountSectionFails, LeaveConsumer, Goto
  <1>3. CASE \/ FlipStart(p) \/ EnableAgain(p) \/ TakeLifecycle(p) \/ LifecycleTimeout(p)
             \/ SweepList(p) \/ SweepDone(p) \/ \E r \in Requests : SweepClaim(p, r)
    BY <1>0, <1>1, <1>3
       DEF FlipStart, EnableAgain, TakeLifecycle, LifecycleTimeout, SweepList, SweepDone,
           SweepClaim, Goto
  <1>4. CASE FlipCommit(p) \/ FlipFails(p)
    <2>1. CASE Flip(p)
      BY <1>4, <2>1, WhoIs DEF Flip, FlipCommit, FlipFails
    <2>2. CASE FlipFails(p) /\ ~ Flip(p)
      BY <1>1, <2>2 DEF FlipFails
    <2> QED
      BY <1>4, <2>1, <2>2 DEF FlipCommit
  <1>5. CASE InlineClaim(p) \/ TeardownClaimDue(p)
    BY <1>0, <1>1, <1>5 DEF InlineClaim, TeardownClaimDue, Goto
  <1>6. CASE TeardownUser(p) \/ TeardownOwner(p) \/ AccountEnter(p) \/ RebuildGrants(p)
    BY <1>0, <1>6 DEF TeardownUser, TeardownOwner, AccountEnter, RebuildGrants, Goto
  <1>7. CASE AccountTimeout(p) \/ AccountCheck(p) \/ AccountGet(p)
    BY <1>0, <1>2, <1>7 DEF AccountTimeout, AccountCheck, AccountGet, Goto
  <1>8. CASE SweepPut(p) \/ TeardownPut(p) \/ RebuildPut(p)
    <2>1. tjob' = tjob /\ pc[p] = "put"
      BY <1>8, WritesAre
    <2>2. LeaveConsumer(p, "sweep") => pc'[p] = "sweep"
      BY <1>0 DEF LeaveConsumer, Goto
    <2>3. Goto(p, "tcreds") => pc'[p] = "tcreds"
      BY <1>0 DEF Goto
    <2> QED
      BY <1>1, <1>2, <1>8, <2>1, <2>2, <2>3, WritesAre
  <1>9. CASE TeardownCredentials(p)
    <2>1. LeaveConsumer(p, "tdone") => pc'[p] = "tdone"
      BY <1>0 DEF LeaveConsumer, Goto
    <2> QED
      BY <1>2, <1>9, <2>1 DEF TeardownCredentials
  <1>10. CASE TeardownDone(p)
    BY <1>0, <1>1, <1>10 DEF TeardownDone, Goto
  <1>11. CASE TeardownFails(p)
    <2>1. tjob' = tjob \/ tjob' = [tjob EXCEPT !.st = "pending"]
      BY <1>11 DEF TeardownFails
    <2>2. [tjob EXCEPT !.st = "pending"].st = "pending"
      BY DEF Queue, TeardownRows
    <2> QED
      BY <1>0, <1>1, <1>11, <2>1, <2>2 DEF TeardownFails, Goto
  <1>12. CASE CancelJob(p)
    BY <1>1, <1>12 DEF CancelJob
  <1> QED
    BY <1>3, <1>4, <1>5, <1>6, <1>7, <1>8, <1>9, <1>10, <1>11, <1>12 DEF AccountStep

LEMMA TeardownFirmStep ==
  ASSUME WellFormed, Queue, Exclusive, Sectioned, status = "disabled", status' = "disabled",
         TeardownFirm, [LifecycleNext]_lvars
  PROVE  TeardownFirm' \/ Bare'
  <1>0. WellFormed'
    BY LifecycleFormStep
  <1>1. CASE UNCHANGED <<tjob, pc>>
    BY <1>1 DEF TeardownFirm
  <1>2. ASSUME NEW p \in Procs, Step(p) \/ Crash(p), tjob' = tjob PROVE TeardownFirm'
    <2>1. Elsewhere(p)
      BY <1>2, OthersStay DEF Crash, Elsewhere, WellFormed, Machines
    <2>2. pc'[p] \notin {"tcreds", "tdone"}
      <3>1. CASE Crash(p)
        BY <3>1 DEF Crash, WellFormed, Machines
      <3>2. CASE Step(p)
        <4>1. p \notin Others /\ pc'[p] \in Places(p)
          BY <1>0, <3>2, NoOtherStep DEF WellFormed, Machines
        <4> QED
          BY <4>1 DEF Places, Procs
      <3> QED
        BY <1>2, <3>1, <3>2
    <2> QED
      BY <1>2, <2>1, <2>2 DEF TeardownFirm, Elsewhere
  <1>3. ASSUME NEW p \in Others, AccountStep(p) PROVE TeardownFirm' \/ Bare'
    <2>0. Elsewhere(p) /\ p \in Procs
      BY <1>3, FitsStep, OtherIs DEF Fits
    <2>1. CASE tjob' = tjob /\ pc'[p] \notin {"tcreds", "tdone"}
      BY <2>0, <2>1 DEF TeardownFirm, Elsewhere
    <2>2. CASE pc[p] = "put" /\ pc'[p] = "tcreds" /\ EdgeWrite({})
      <3>1. acl' = {} /\ \A q \in Procs : late'[q] \subseteq {{}}
        BY <2>2 DEF EdgeWrite
      <3>2. ASSUME NEW q \in Procs PROVE ~ Armed(q)'
        <4>1. CASE q = p
          BY <2>2, <4>1 DEF Armed
        <4>2. CASE q # p
          <5>1. pc[q] \notin SectionAt /\ pc'[q] = pc[q]
            BY <2>0, <2>2, <4>2, Alone DEF SectionAt, Elsewhere
          <5> QED
            BY <5>1 DEF SectionAt, Armed
        <4> QED
          BY <4>1, <4>2
      <3> QED
        BY <3>1, <3>2 DEF Bare
    <2>3. CASE tjob' = tjob /\ pc[p] = "tcreds" /\ pc'[p] = "tdone"
      BY <2>0, <2>3 DEF TeardownFirm, Elsewhere
    <2>4. CASE tjob'.st = "pending"
      BY <2>4 DEF TeardownFirm
    <2>5. CASE tjob' = [st |-> "sending", gen |-> p] /\ pc'[p] \in {"towner", "tuser"}
      BY <2>5 DEF TeardownFirm
    <2>6. CASE pc[p] = "tdone" /\ OwnsTeardown(p)
      BY <2>0, <2>6 DEF TeardownFirm, OwnsTeardown
    <2> QED
      BY <1>3, <2>1, <2>2, <2>3, <2>4, <2>5, <2>6, TeardownMoves
  <1>4. CASE ReleaseStaleTeardown
    <2>1. tjob' = [tjob EXCEPT !.st = "pending"]
      BY <1>4 DEF ReleaseStaleTeardown
    <2>2. tjob'.st = "pending"
      BY <2>1 DEF Queue, TeardownRows
    <2> QED
      BY <2>2 DEF TeardownFirm
  <1>5. ASSUME NEW p, LateLands(p) PROVE UNCHANGED pc
    BY <1>5 DEF LateLands
  <1>6. ASSUME NEW kind, NEW r, Cancel(r) \/ Deny(r) \/ ReleaseStale(kind, r) PROVE UNCHANGED pc
    BY <1>6 DEF Cancel, Deny, ReleaseStale
  <1> QED
    BY <1>1, <1>2, <1>3, <1>4, <1>5, <1>6
       DEF LifecycleNext, AccessNext, Next, Quiescent, lvars, vars

(* While the account is disabled the teardown is owed, or done its work. *)
OffIsOwed == status = "disabled" => TeardownFirm \/ Bare

LEMMA OffIsOwedStep ==
  ASSUME WellFormed, Queue, StoppedLeave, Exclusive, Sectioned, OffIsOwed,
         [LifecycleNext]_lvars
  PROVE  OffIsOwed'
  <1> SUFFICES ASSUME status' = "disabled" PROVE TeardownFirm' \/ Bare'
    BY DEF OffIsOwed
  <1>1. CASE status = "disabled"
    BY <1>1, BareStep, TeardownFirmStep DEF OffIsOwed
  <1>2. CASE status # "disabled"
    <2>1. PICK p \in Others : AccountStep(p)
      BY <1>2, StatusStays DEF LifecycleNext, AccessNext, lvars, vars, ReleaseStaleTeardown, db
    <2>2. tjob' = [st |-> "pending", gen |-> p]
      BY <1>2, <2>1, AccountFlips DEF Flips, Flip
    <2> QED
      BY <2>2 DEF TeardownFirm
  <1> QED
    BY <1>1, <1>2


-----------------------------------------------------------------------------
(* While somebody is in the consumer's section, nobody else settles a job  *)
(* unseen: what covers a group keeps covering it.                          *)
LEMMA KeepsInPlace ==
  ASSUME UNCHANGED <<pc, memo, subj, grant>>,
         \A k \in Kinds, r \in Requests : Firm(k, r) => Firm(k, r)'
  PROVE  Keeps
  BY DEF Keeps, ActiveOn

LEMMA KeepsAmid ==
  ASSUME WellFormed, StoppedLeave, History, Exclusive, Sectioned, NEW e \in Others,
         pc[e] \in SectionAt, [Next]_vars
  PROVE  Keeps
  <1>0. e \in Procs
    BY OtherIs
  <1>1. ASSUME NEW p \in Procs, Step(p) PROVE Keeps
    <2>1. p # e /\ pc[p] \notin SectionAt
      BY <1>0, <1>1, NoOtherStep, Alone
    <2>2. ~ (CheckActive(p) \/ PutGroup(p) \/ TakeOffGroup(p) \/ PutReconciled(p))
      BY <2>1 DEF CheckActive, PutGroup, TakeOffGroup, PutReconciled, SectionAt
    <2>3. Quiet(p)
      BY <1>1, <2>2, QuietStep
    <2> QED
      BY <1>1, <2>3, KeepsOf, StoreOf, OthersStay DEF Quiet
  <1>2. ASSUME NEW p \in Procs, Crash(p) PROVE Keeps
    <2>1. Store(p) /\ Elsewhere(p)
      BY <1>2 DEF Crash, db, Store, Elsewhere, WellFormed, Machines
    <2>2. Quiet(p)
      BY <1>2, QuietRest
    <2> QED
      BY <2>1, <2>2, KeepsOf DEF Quiet
  <1>3. CASE UNCHANGED <<pc, memo, subj, grant, job>>
    BY <1>3, FirmInPlace, KeepsInPlace
  <1>4. ASSUME NEW kind \in Kinds, NEW r \in Requests, ReleaseStale(kind, r) PROVE Keeps
    <2>1. /\ UNCHANGED <<pc, memo, subj, grant>>
          /\ job' = [job EXCEPT ![kind][r].st = "pending"]
          /\ job \in [Kinds -> [Requests -> JobRows]]
      BY <1>4 DEF ReleaseStale, WellFormed, Rows
    <2>2. job'[kind][r].st = "pending"
      BY <2>1 DEF JobRows
    <2>3. \A k \in Kinds, s \in Requests : (k # kind \/ s # r) => job'[k][s] = job[k][s]
      BY <2>1
    <2>4. Firm(kind, r)'
      BY <2>2 DEF Firm
    <2>5. \A k \in Kinds, s \in Requests : Firm(k, s) => Firm(k, s)'
      BY <2>1, <2>3, <2>4, FirmInPlace
    <2> QED
      BY <2>1, <2>5, KeepsInPlace
  <1>5. ASSUME NEW p, LateLands(p) PROVE Keeps
    BY <1>3, <1>5 DEF LateLands, db
  <1>6. ASSUME NEW r, Cancel(r) \/ Deny(r) PROVE Keeps
    BY <1>3, <1>6 DEF Cancel, Deny
  <1> QED
    BY <1>1, <1>2, <1>3, <1>4, <1>5, <1>6 DEF Next, Quiescent, vars

(* An administrator's step that moves no grant leaves every cover alone. *)
LEMMA AccountKeeps ==
  ASSUME WellFormed, NEW p \in Others, Elsewhere(p), UNCHANGED <<grant, job>>
  PROVE  Keeps
  <1>1. p \in Procs /\ \A k, r : ~ OnJob(p, k, r)'
    BY OtherIs DEF OnJob, Roles
  <1>2. \A k \in Kinds, r \in Requests : Firm(k, r) => Firm(k, r)'
    BY <1>1, FirmStays
  <1> QED
    BY <1>2 DEF Keeps, ActiveOn

(* A rebuild writes groups that are covered. *)
Backed(e) == \A r \in memo[e].live : ActiveOn(ApiOf[r]) # {} \/ Removal(ApiOf[r])

LEMMA BackedStays ==
  ASSUME WellFormed, NEW e \in Enablers, Keeps, Backed(e), memo'[e].live = memo[e].live
  PROVE  Backed(e)'
  <1>1. memo[e].live \in SUBSET Requests
    BY OthersAre, RoleOf DEF MemoRecords
  <1>2. \A r \in memo[e].live : ApiOf[r] \in Apis
    BY <1>1, KeysAre
  <1>3. ASSUME NEW r \in memo[e].live PROVE ActiveOn(ApiOf[r])' # {} \/ Removal(ApiOf[r])'
    <2>1. PICK a \in Apis : a = ApiOf[r]
      BY <1>2
    <2>2. ActiveOn(a)' # {} \/ Removal(a)'
      BY <2>1, CoverStays DEF Backed
    <2> QED
      BY <2>1, <2>2 DEF ActiveOn, Removal
  <1> QED
    BY <1>3 DEF Backed

LEMMA RebuildFinds ==
  ASSUME WellFormed, NEW e \in Enablers, RebuildGrants(e)
  PROVE  Backed(e)'
  <1> DEFINE L == {r \in Requests : grant[r].st = "active"}
             m == [memo[e] EXCEPT !.live = L]
  <1>1. e \in Procs /\ memo[e] \in MemoRecords /\ memo'[e] = m /\ grant' = grant
    BY OthersAre, RoleOf DEF RebuildGrants, Recall, db, WellFormed, Machines
  <1>2. \A r \in L : ActiveOn(ApiOf[r])' # {}
    BY <1>1 DEF ActiveOn
  <1>3. L = {r \in Requests : grant[r].st = "active"}
    OBVIOUS
  <1> HIDE DEF L
  <1>4. m.live = L
    BY <1>1 DEF MemoRecords
  <1> HIDE DEF m
  <1> QED
    BY <1>1, <1>2, <1>4 DEF Backed

LEMMA RebuildEnters ==
  ASSUME WellFormed, NEW e \in Enablers, AccountStep(e), pc'[e] \in {"get", "put"}
  PROVE  RebuildGrants(e) \/ (pc[e] = "get" /\ memo' = memo)
  <1>0. /\ e \in Procs /\ pc \in [Procs -> PCs] /\ e \notin Disablers
        /\ e \notin TeardownWorkers /\ e \notin GodDisablers
    BY OthersAre, WhoIs DEF WellFormed, Machines
  <1>2. ~ End(e) /\ ~ AccountSectionFails(e)
    BY <1>0 DEF End, Goto, AccountSectionFails, Sweeping, TearingDown
  <1>3. ~ (\/ FlipStart(e) \/ EnableAgain(e) \/ TakeLifecycle(e) \/ LifecycleTimeout(e)
           \/ FlipCommit(e) \/ FlipFails(e))
    BY <1>0, <1>2
       DEF FlipStart, EnableAgain, TakeLifecycle, LifecycleTimeout, FlipCommit, FlipFails, Goto
  <1>4. ~ (\/ SweepList(e) \/ SweepDone(e) \/ (\E r \in Requests : SweepClaim(e, r))
           \/ InlineClaim(e) \/ TeardownClaimDue(e) \/ TeardownUser(e) \/ TeardownOwner(e))
    BY <1>0
       DEF SweepList, SweepDone, SweepClaim, InlineClaim, TeardownClaimDue, TeardownUser,
           TeardownOwner, Goto
  <1>5. ~ (AccountEnter(e) \/ AccountTimeout(e) \/ AccountCheck(e))
    BY <1>0, <1>2 DEF AccountEnter, AccountTimeout, AccountCheck, TearingDown, Sweeping, Goto
  <1>6. ~ (\/ SweepPut(e) \/ TeardownPut(e) \/ TeardownCredentials(e) \/ TeardownDone(e)
           \/ TeardownFails(e) \/ CancelJob(e) \/ RebuildPut(e))
    BY <1>0, <1>2
       DEF SweepPut, TeardownPut, Sweeping, TearingDown, TeardownCredentials, TeardownDone,
           TeardownFails, CancelJob, RebuildPut, Put
  <1>7. AccountGet(e) => pc[e] = "get" /\ memo' = memo
    BY <1>2 DEF AccountGet
  <1> QED
    BY <1>3, <1>4, <1>5, <1>6, <1>7 DEF AccountStep

LEMMA RebuildingStep ==
  ASSUME WellFormed, Queue, StoppedLeave, History, Exclusive, Sectioned, GodDisablers = {},
         Rebuilding, [LifecycleNext]_lvars
  PROVE  Rebuilding'
  <1> SUFFICES ASSUME NEW e \in Enablers, pc'[e] \in {"get", "put"} PROVE Backed(e)'
    BY DEF Rebuilding, Backed
  <1>0. e \in Others /\ e \in Procs
    BY OthersAre
  <1>1. CASE [Next]_vars
    <2>1. pc'[e] = pc[e] /\ memo'[e] = memo[e]
      <3>1. ASSUME NEW p \in Procs, Step(p) PROVE pc'[e] = pc[e] /\ memo'[e] = memo[e]
        BY <1>0, <3>1, NoOtherStep, OthersStay DEF Elsewhere
      <3>2. ASSUME NEW p \in Procs, Crash(p) PROVE pc'[e] = pc[e] /\ memo'[e] = memo[e]
        <4>1. p # e
          BY <1>0, <3>2 DEF Crash, WellFormed, Machines
        <4> QED
          BY <1>0, <3>2, <4>1 DEF Crash, WellFormed, Machines
      <3>3. ASSUME NEW p, LateLands(p) PROVE UNCHANGED <<pc, memo>>
        BY <3>3 DEF LateLands
      <3>4. ASSUME NEW kind, NEW r, Cancel(r) \/ Deny(r) \/ ReleaseStale(kind, r)
            PROVE  UNCHANGED <<pc, memo>>
        BY <3>4 DEF Cancel, Deny, ReleaseStale
      <3> QED
        BY <1>1, <3>1, <3>2, <3>3, <3>4 DEF Next, Quiescent, vars
    <2>2. Keeps
      BY <1>0, <1>1, <2>1, KeepsAmid DEF SectionAt
    <2> QED
      BY <2>1, <2>2, BackedStays DEF Rebuilding, Backed
  <1>2. ASSUME NEW p \in Others, AccountStep(p) PROVE Backed(e)'
    <2>1. Keeps /\ Elsewhere(p)
      BY <1>2, FitsStep, AccountStore, AccountKeeps DEF Fits
    <2>2. CASE p # e
      <3>1. pc'[e] = pc[e] /\ memo'[e] = memo[e]
        BY <1>0, <2>1, <2>2 DEF Elsewhere
      <3> QED
        BY <2>1, <3>1, BackedStays DEF Rebuilding, Backed
    <2>3. CASE p = e
      <3>1. RebuildGrants(e) \/ (pc[e] = "get" /\ memo' = memo)
        BY <1>2, <2>3, RebuildEnters
      <3> QED
        BY <2>1, <3>1, RebuildFinds, BackedStays DEF Rebuilding, Backed
    <2> QED
      BY <2>2, <2>3
  <1>3. CASE ReleaseStaleTeardown
    <2>1. UNCHANGED <<pc, memo, subj, grant, job>>
      BY <1>3 DEF ReleaseStaleTeardown, db
    <2>2. Keeps
      BY <2>1, FirmInPlace, KeepsInPlace
    <2> QED
      BY <2>1, <2>2, BackedStays DEF Rebuilding, Backed
  <1> QED
    BY <1>1, <1>2, <1>3 DEF LifecycleNext, AccessNext, lvars


-----------------------------------------------------------------------------
(* While the account is active and rebuilt, its groups are covered as in   *)
(* AccessGrants.                                                           *)
LEMMA OtherNeutral ==
  ASSUME WellFormed', NEW p \in Others
  PROVE  ~ Settling(p)' /\ Ready(p)'
  <1>1. p \in Procs /\ p \notin Approvers /\ p \notin Workers /\ pc'[p] \in OtherPlaces
    BY OtherIs DEF WellFormed, Machines
  <1> QED
    BY <1>1 DEF Settling, Ready, OtherPlaces

LEMMA AccountTouches ==
  ASSUME WellFormed, NEW p \in Others, AccountStep(p)
  PROVE  \/ UNCHANGED <<acl, late>> /\ \A q \in Procs : q # p => (fresh'[q] => fresh[q])
         \/ SweepPut(p) \/ TeardownPut(p) \/ RebuildPut(p)
  <1>1. CASE \/ FlipStart(p) \/ EnableAgain(p) \/ TakeLifecycle(p) \/ LifecycleTimeout(p)
             \/ FlipCommit(p) \/ FlipFails(p) \/ SweepList(p) \/ SweepDone(p)
             \/ InlineClaim(p) \/ TeardownClaimDue(p) \/ TeardownUser(p) \/ TeardownOwner(p)
             \/ \E r \in Requests : SweepClaim(p, r)
    BY <1>1 DEF FlipStart, EnableAgain, TakeLifecycle, LifecycleTimeout, FlipCommit,
                FlipFails, SweepList, SweepDone, InlineClaim, TeardownClaimDue, TeardownUser,
                TeardownOwner, SweepClaim, edge
  <1>2. CASE \/ AccountEnter(p) \/ AccountTimeout(p) \/ AccountCheck(p) \/ RebuildGrants(p)
             \/ TeardownCredentials(p) \/ TeardownDone(p) \/ TeardownFails(p) \/ CancelJob(p)
    BY <1>2 DEF AccountEnter, AccountTimeout, AccountCheck, RebuildGrants,
                TeardownCredentials, TeardownDone, TeardownFails, CancelJob, edge
  <1>3. CASE AccountGet(p)
    BY <1>3 DEF AccountGet, WellFormed, Machines
  <1> QED
    BY <1>1, <1>2, <1>3 DEF AccountStep

LEMMA BackedIsCovered ==
  ASSUME WellFormed, NEW e \in Enablers, Backed(e), NEW a \in RebuiltGroups(e)
  PROVE  a \in Apis /\ Covered(a)
  <1>1. PICK r \in memo[e].live : a = ApiOf[r]
    BY DEF RebuiltGroups
  <1>2. r \in Requests
    BY <1>1, OthersAre, RoleOf DEF MemoRecords
  <1> QED
    BY <1>1, <1>2, KeysAre DEF Backed, Covered, Removal, Kinds

LEMMA PutLeaves ==
  ASSUME WellFormed, NEW p \in Others, SweepPut(p) \/ TeardownPut(p) \/ RebuildPut(p)
  PROVE  pc'[p] # "put"
  <1>0. p \in Procs /\ pc \in [Procs -> PCs]
    BY OtherIs DEF WellFormed, Machines
  <1> QED
    BY <1>0, WritesAre DEF LeaveConsumer, Goto, End, AccountSectionFails

LEMMA AccountGateway ==
  ASSUME WellFormed, Queue, WellFormed', History, Gateway, NEW p \in Others, AccountStep(p),
         UNCHANGED <<req, grant, job>>, RebuildPut(p) => Backed(p)
  PROVE  Gateway'
  <1>0. /\ p \in Procs /\ Elsewhere(p) /\ ~ Settling(p)' /\ Ready(p)' /\ Store(p)
        /\ \A a \in acl : Exposed(a)
    BY OtherIs, FitsStep, OtherNeutral DEF Fits, Store, Exposed
  <1>1. CASE UNCHANGED <<acl, late>> /\ \A q \in Procs : q # p => (fresh'[q] => fresh[q])
    <2>1. Quiet(p)
      BY <1>0, <1>1 DEF Quiet, Calm
    <2> QED
      BY <1>0, <2>1, QuietGateway
  <1>2. ASSUME SweepPut(p) \/ TeardownPut(p) \/ RebuildPut(p), NEW groups \in SUBSET Apis,
               Written(p, groups), \A a \in groups : Covered(a) \/ Exposed(a)
        PROVE  Gateway'
    BY <1>0, <1>2, PutLeaves, WriteGateway
  <1>3. CASE SweepPut(p)
    <2>1. acl \ {Api(p)} \in SUBSET Apis
      BY DEF WellFormed, Rows
    <2> QED
      BY <1>0, <1>2, <1>3, <2>1, WritesAre
  <1>4. CASE TeardownPut(p)
    <2>1. {} \in SUBSET Apis /\ Written(p, {})
      BY <1>4, WritesAre
    <2> QED
      BY <1>2, <1>4, <2>1
  <1>5. CASE RebuildPut(p)
    <2>1. p \in Enablers /\ RebuiltGroups(p) \in SUBSET Apis
      BY <1>0, <1>5, RebuiltAre DEF RebuildPut
    <2>2. \A a \in RebuiltGroups(p) : Covered(a)
      BY <1>5, <2>1, BackedIsCovered
    <2> QED
      BY <1>2, <1>5, <2>1, <2>2, WritesAre
  <1> QED
    BY <1>1, <1>3, <1>4, <1>5, AccountTouches

(* The rebuild that completes, whatever was on the consumer before. *)
LEMMA RebuiltGateway ==
  ASSUME WellFormed, WellFormed', Queue, Exclusive, Sectioned, Prompt,
         "late" \notin FaultKinds, NEW e \in Enablers, RebuildPut(e), Elsewhere(e), Backed(e),
         rebuilt' # rebuilt
  PROVE  Gateway'
  <1>0. /\ e \in Others /\ e \in Procs /\ pc[e] = "put" /\ UNCHANGED <<grant, job>>
    BY OthersAre DEF RebuildPut, db
  <1>1. Keeps
    BY <1>0, AccountKeeps
  <1>2. CASE EdgeWrite(RebuiltGroups(e))
    <2>1. acl' = RebuiltGroups(e) /\ \A q \in Procs : fresh'[q] = FALSE /\ late'[q] = {}
      BY <1>2 DEF EdgeWrite
    <2>2. \A a \in acl' : a \in Apis /\ Covered(a)'
      BY <1>1, <2>1, BackedIsCovered, CoverStays
    <2>3. \A q \in Approvers \cup Workers : q \in Procs
      BY DEF Procs
    <2> QED
      BY <2>1, <2>2, <2>3 DEF Gateway, Accounted, Exposed, Reconciled
  <1>3. CASE acl = {} /\ UNCHANGED edge
    <2>1. acl' = {} /\ \A q \in Procs : late'[q] = {}
      BY <1>3 DEF edge, Prompt
    <2>2. ASSUME NEW q \in Approvers \cup Workers PROVE pc'[q] # "put"
      <3>1. q \in Procs /\ q # e
        BY <1>0, OtherIs DEF Procs
      <3>2. pc[q] # "put" /\ pc'[q] = pc[q]
        BY <1>0, <3>1, Alone DEF SectionAt, Elsewhere
      <3> QED
        BY <3>2
    <2> QED
      BY <2>1, <2>2 DEF Gateway, Accounted, Exposed, Reconciled
  <1> QED
    BY <1>2, <1>3 DEF RebuildPut, Put

(* With a re-enable: no god-mode sweep, and no PUT that lands late. *)
Scope == Enablers = {} \/ (GodDisablers = {} /\ "late" \notin FaultKinds)

OnIsServed == status = "active" => ~ rebuilt \/ Gateway

LEMMA OnIsServedStep ==
  ASSUME WellFormed, Queue, StoppedLeave, History, Exclusive, Sectioned, Before, Prompt, Scope,
         GodDisablers = {} => Rebuilding, OnIsServed, [LifecycleNext]_lvars
  PROVE  OnIsServed'
  <1> SUFFICES ASSUME status' = "active", rebuilt' PROVE Gateway'
    BY DEF OnIsServed
  <1>0. WellFormed' /\ Queue'
    BY LifecycleFormStep
  <1>1. CASE [Next]_vars /\ UNCHANGED <<tjob, rebuilt>>
    <2>1. status = "active" /\ Gateway
      BY <1>1, StatusStays DEF OnIsServed
    <2> QED
      BY <1>1, <2>1, GatewayStep
  <1>2. ASSUME NEW p \in Others, AccountStep(p) PROVE Gateway'
    <2>1. ~ Flips(p)
      BY WhoIs DEF Flips, Flip
    <2>2. status = "active" /\ (rebuilt' = rebuilt \/ RebuildPut(p)) /\ Elsewhere(p)
      BY <1>2, <2>1, AccountFlips, FitsStep DEF Fits
    <2>3. CASE Enablers = {}
      <3>1. UNCHANGED <<req, grant, job>> /\ ~ RebuildPut(p)
        BY <1>2, <2>2, <2>3, BeforeAt DEF RebuildPut
      <3>2. Gateway
        BY <2>2, <3>1 DEF OnIsServed
      <3> QED
        BY <1>0, <1>2, <3>1, <3>2, AccountGateway
    <2>4. CASE GodDisablers = {} /\ "late" \notin FaultKinds
      <3>1. UNCHANGED <<req, grant, job>>
        BY <1>2, <2>4, AccountStore
      <3>2. RebuildPut(p) => p \in Enablers /\ Backed(p)
        BY <2>4 DEF RebuildPut, Rebuilding, Backed
      <3>3. CASE rebuilt' = rebuilt
        <4>1. Gateway
          BY <2>2, <3>3 DEF OnIsServed
        <4> QED
          BY <1>0, <1>2, <3>1, <3>2, <4>1, AccountGateway
      <3>4. CASE rebuilt' # rebuilt
        BY <1>0, <2>2, <2>4, <3>2, <3>4, RebuiltGateway
      <3> QED
        BY <3>3, <3>4
    <2> QED
      BY <2>3, <2>4 DEF Scope
  <1>3. ~ ReleaseStaleTeardown
    BY DEF ReleaseStaleTeardown, Queue, db
  <1> QED
    BY <1>1, <1>2, <1>3 DEF LifecycleNext, AccessNext, lvars

LEMMA LifecycleStoppedStep ==
  ASSUME WellFormed, Queue, StoppedLeave, [LifecycleNext]_lvars
  PROVE  StoppedLeave'
  <1>1. CASE [Next]_vars
    BY <1>1, StoppedStep
  <1>2. ASSUME NEW p \in Others, AccountStep(p) PROVE StoppedLeave'
    <2>1. Elsewhere(p) /\ \A q \in Approvers : q \in Procs /\ q # p
      BY <1>2, FitsStep, OtherIs DEF Fits, Procs
    <2> QED
      BY <2>1 DEF StoppedLeave, Elsewhere
  <1>3. CASE ReleaseStaleTeardown
    BY <1>3 DEF ReleaseStaleTeardown, StoppedLeave
  <1> QED
    BY <1>1, <1>2, <1>3 DEF LifecycleNext, AccessNext, lvars

-----------------------------------------------------------------------------
Guarded == WellFormed /\ Queue /\ History /\ StoppedLeave /\ Exclusive /\ Sectioned

LEMMA GuardedInit == LifecycleInit => Guarded
  <1> SUFFICES ASSUME LifecycleInit PROVE Guarded
    OBVIOUS
  <1>1. Init /\ held = [p \in Procs |-> {}] /\ pc = [p \in Procs |-> "idle"]
    BY DEF LifecycleInit, Init
  <1>2. Exclusive /\ Sectioned
    BY <1>1 DEF Exclusive, Sectioned, SectionAt
  <1> QED
    BY <1>1, <1>2, LifecycleFormInit, HistoryInit, StoppedInit DEF Guarded

LEMMA GuardedStep ==
  ASSUME "takeover" \notin FaultKinds, Guarded, [LifecycleNext]_lvars
  PROVE  Guarded'
  BY LifecycleFormStep, LifecycleHistoryStep, LifecycleStoppedStep, ExclusiveStep DEF Guarded

(* "There is no window in which the account is off and nothing remembers"  *)
(* (users/service.ts, transition): while the account is disabled its       *)
(* consumer carries no group, or the teardown that strips it is queued or  *)
(* claimed - whatever fails, crashes or lands late, as long as no lease    *)
(* lapses under a running holder.                                          *)
THEOREM DisabledIsRemembered ==
  ASSUME "takeover" \notin FaultKinds
  PROVE  LifecycleSpec => [](status = "disabled" => acl = {} \/ TeardownOwed)
  <1> DEFINE Inv == Guarded /\ OffIsOwed
  <1>1. LifecycleInit => Inv
    BY GuardedInit DEF LifecycleInit, Init, OffIsOwed
  <1>2. Inv /\ [LifecycleNext]_lvars => Inv'
    BY GuardedStep, OffIsOwedStep DEF Guarded
  <1>3. Inv => (status = "disabled" => acl = {} \/ TeardownOwed)
    BY DEF OffIsOwed, TeardownFirm, Bare, TeardownOwed
  <1> QED
    BY <1>1, <1>2, <1>3, PTL DEF LifecycleSpec

(* A group belongs to an active grant or something owes its removal: an    *)
(* access job, the teardown, or the rebuild of an enable that has not      *)
(* succeeded yet; while the account is disabled only a durable row will do *)
(* - for an account that is disabled, swept and torn down by any number of *)
(* administrators and workers, or one that is disabled and enabled again   *)
(* and again.                                                              *)
THEOREM GroupsAreAccountedFor ==
  ASSUME "takeover" \notin FaultKinds,
         Enablers = {} \/ (GodDisablers = {} /\ "late" \notin FaultKinds)
  PROVE  LifecycleSpec => []GroupsAccountedFor
  <1> DEFINE Inv == /\ Guarded /\ OffIsOwed /\ Before /\ Prompt /\ OnIsServed
                    /\ GodDisablers = {} => Rebuilding
  <1>0. Scope
    BY DEF Scope
  <1>1. LifecycleInit => Inv
    <2> SUFFICES ASSUME LifecycleInit PROVE Inv
      OBVIOUS
    <2>1. /\ Init /\ status = "active" /\ late = [p \in Procs |-> {}]
          /\ pc = [p \in Procs |-> "idle"]
      BY DEF LifecycleInit, Init
    <2>2. \A p \in Disablers \cup Enablers \cup TeardownWorkers : pc[p] = "idle"
      BY <2>1, OthersAre
    <2>3. Before /\ Rebuilding
      BY <2>2 DEF Before, Rebuilding
    <2>4. OffIsOwed /\ OnIsServed /\ Prompt
      BY <2>1, GatewayInit DEF OffIsOwed, OnIsServed, Prompt
    <2> QED
      BY <2>3, <2>4, GuardedInit
  <1>2. Inv /\ [LifecycleNext]_lvars => Inv'
    <2> SUFFICES ASSUME Inv, [LifecycleNext]_lvars PROVE Inv'
      OBVIOUS
    <2>1. Guarded' /\ OffIsOwed'
      BY GuardedStep, OffIsOwedStep DEF Guarded
    <2>2. Before' /\ Prompt'
      BY BeforeStep, PromptStep DEF Guarded
    <2>3. GodDisablers = {} => Rebuilding'
      BY RebuildingStep DEF Guarded
    <2>4. OnIsServed'
      BY <1>0, OnIsServedStep DEF Guarded
    <2> QED
      BY <2>1, <2>2, <2>3, <2>4
  <1>3. Inv => GroupsAccountedFor
    <2> SUFFICES ASSUME Inv, NEW a \in acl
                 PROVE  /\ \/ ActiveOn(a) # {} \/ JobOwed(a)
                           \/ TeardownOwed \/ SweepUnderWay(a) \/ ~ rebuilt
                        /\ status = "disabled" => TeardownOwed \/ JobOwed(a)
      BY DEF GroupsAccountedFor
    <2>1. status = "disabled" => TeardownOwed
      BY DEF OffIsOwed, TeardownFirm, Bare, TeardownOwed
    <2>2. a \in Apis /\ Exposed(a) /\ status \in {"active", "disabled"}
      BY DEF Guarded, WellFormed, Rows, Exposed
    <2>3. Gateway => ActiveOn(a) # {} \/ JobOwed(a)
      BY <2>2 DEF Gateway, Accounted, Covered, Firm, JobOwed
    <2> QED
      BY <2>1, <2>2, <2>3 DEF OnIsServed
  <1> QED
    BY <1>1, <1>2, <1>3, PTL DEF LifecycleSpec

-----------------------------------------------------------------------------
(* The other direction: an active grant has its group.  A revocation's     *)
(* rollback takes a consumer it cannot read for one that carries the group *)
(* (groupStillOn); here it is right when it does.                          *)
GuessesRight ==
    \A v \in Revokers : pc[v] = "rlife" /\ memo[v].on => Api(v) \in acl

(* The rollback has entered the consumer's section too. *)
RollbackAt == {"rget", "rlife", "restore"}
RollsBack == \A p \in Procs : pc[p] \in RollbackAt => consumer \in held[p]
Inside(p) == pc[p] \in SectionAt \cup RollbackAt

(* p is about to take the group of its API off. *)
Taking(p) ==
    /\ pc[p] = "put"
    /\ \/ p \in Approvers /\ memo[p].undo
       \/ p \in Revokers
       \/ p \in Workers /\ (memo[p].kind = "revoke" \/ memo[p].live = {})

(* What the holder of the section has made sure of, of the consumer, of    *)
(* the grants and of the account.                                          *)
Seen(p) ==
    /\ p \in Approvers /\ pc[p] = "grant" => Api(p) \in acl
    /\ p \in Revokers /\ pc[p] \in {"rlife", "restore"} /\ memo[p].on => Api(p) \in acl
Spare(p) == Taking(p) => ActiveOn(Api(p)) = {}
Lists(p) ==
    p \in Enablers /\ pc[p] \in {"get", "put"} =>
      \A r \in Requests : grant[r].st = "active" => r \in memo[p].live
Due(p) ==
    TearingDown(p) /\ pc[p] \in {"get", "put"} => status = "disabled" \/ ~ rebuilt
Assured(p) == Seen(p) /\ Spare(p) /\ Lists(p) /\ Due(p)
Serving == RollsBack /\ GrantsAreServed /\ \A p \in Procs : Assured(p)

LEMMA IntoRollback ==
  ASSUME WellFormed, NEW p \in Procs, Step(p), pc'[p] \in {"grant"} \cup RollbackAt
  PROVE  \/ PutGroup(p) /\ pc'[p] = "grant"
         \/ RollbackEnter(p) /\ pc'[p] = "rget"
         \/ RollbackGet(p) /\ pc'[p] = "rlife" /\ pc[p] = "rget"
         \/ RollbackLifecycle(p) /\ pc'[p] = "restore" /\ pc[p] = "rlife"
  <1> USE DEF RollbackAt
  <1>0. pc \in [Procs -> PCs]
    BY DEF WellFormed, Machines
  <1>1. ~ Finish(p)
    BY <1>0 DEF Finish
  <1>2. SectionFails(p) => p \notin Roles
    BY <1>0, ConstantsAssumption DEF SectionFails, LeaveConsumer, Goto, OnError, Adding, Roles
  <1>3. ~ (\/ RequestCheck(p) \/ RequestLock(p) \/ RequestInsert(p)
           \/ (\E r \in Requests : ApproveStart(p, r) \/ RevokeStart(p, r))
           \/ ApproveAdmit(p) \/ ApproveRefused(p) \/ ApproveClaim(p) \/ ApproveClaimFails(p)
           \/ RevokeClaim(p) \/ RevokeClaimFails(p) \/ ProxyTimeout(p) \/ EnterConsumer(p))
    BY <1>0, <1>1
       DEF RequestCheck, RequestLock, RequestInsert, ApproveStart, RevokeStart, ApproveAdmit,
           ApproveRefused, ApproveClaim, ApproveClaimFails, RevokeClaim, RevokeClaimFails,
           ProxyTimeout, EnterConsumer, Goto
  <1>4. ~ (TakeProxy(p) \/ ConsumerTimeout(p) \/ Get(p) \/ PutReconciled(p) \/ TakeOffGroup(p))
    <2>1. TakeProxy(p) \/ ConsumerTimeout(p) \/ Get(p) \/ PutReconciled(p) \/ TakeOffGroup(p)
            => p \in Roles
      BY RoleOf DEF TakeProxy, ConsumerTimeout, Get, PutReconciled, TakeOffGroup, Roles
    <2> QED
      BY <1>0, <1>2, <2>1, ConstantsAssumption
         DEF TakeProxy, ConsumerTimeout, Get, PutReconciled, TakeOffGroup, Put, Goto,
             LeaveConsumer, Roles
  <1>5. PutGroup(p) => pc'[p] = "grant"
    <2>1. PutGroup(p) => p \in Roles
      BY DEF PutGroup, Adding, Roles
    <2> QED
      BY <1>0, <1>2, <2>1 DEF PutGroup, Put, Goto
  <1>6. ~ (\/ CheckActive(p) \/ GuardApproval(p) \/ GuardUnwind(p) \/ GuardRevocation(p)
           \/ GuardReconcile(p))
    BY <1>0, <1>1
       DEF CheckActive, GuardApproval, GuardUnwind, GuardRevocation, GuardReconcile, Goto,
           LeaveConsumer
  <1>7. ~ (\/ GrantCommit(p) \/ GrantFails(p) \/ UnwindApproval(p) \/ SettleRequest(p)
           \/ SettleJob(p))
    BY <1>0, <1>1
       DEF GrantCommit, GrantFails, UnwindApproval, SettleRequest, SettleJob, Goto, LeaveConsumer
  <1>8. ~ (\/ RollbackTimeout(p) \/ RestoreCommit(p) \/ RestoreFails(p)
           \/ (\E kind \in Kinds, r \in Requests : WorkerClaim(p, kind, r))
           \/ RecoverApproval(p) \/ WorkerComplete(p) \/ WorkerCompleteFails(p))
    BY <1>0, <1>1
       DEF RollbackTimeout, RestoreCommit, RestoreFails, RestoreAlone, ResumeUnderFreshProxy,
           WorkerClaim, RecoverApproval, WorkerComplete, WorkerCompleteFails, Goto
  <1>9. /\ RollbackEnter(p) => pc'[p] = "rget"
        /\ RollbackGet(p) => pc'[p] = "rlife" /\ pc[p] = "rget"
        /\ RollbackLifecycle(p) => pc'[p] = "restore" /\ pc[p] = "rlife"
    BY <1>0 DEF RollbackEnter, RollbackGet, RollbackLifecycle, Goto
  <1> QED
    BY <1>3, <1>4, <1>5, <1>6, <1>7, <1>8, <1>9 DEF Step

LEMMA RollsBackMove ==
  ASSUME WellFormed, RollsBack, NEW p \in Procs, LeaseMove(p), Elsewhere(p),
         pc'[p] \in RollbackAt => consumer \in held'[p]
  PROVE  RollsBack'
  <1>1. \A q \in Procs : q # p => held'[q] = held[q]
    BY DEF LeaseMove, TakeKey, Release, WellFormed, Leases
  <1> QED
    BY <1>1 DEF RollsBack, Elsewhere

LEMMA RollsBackStep ==
  ASSUME WellFormed, Queue, RollsBack, [LifecycleNext]_lvars
  PROVE  RollsBack'
  <1>1. CASE UNCHANGED <<held, pc>>
    BY <1>1 DEF RollsBack
  <1>2. ASSUME NEW p \in Procs, Step(p) PROVE RollsBack'
    <2>0. consumer \in Keys /\ held \in [Procs -> SUBSET Keys]
      BY KeysAre DEF WellFormed, Leases
    <2>1. CASE pc'[p] \in RollbackAt
      <3>1. consumer \in held'[p]
        <4>1. RollbackEnter(p) \/ (RollbackGet(p) /\ pc[p] = "rget")
              \/ (RollbackLifecycle(p) /\ pc[p] = "rlife")
          BY <1>2, <2>1, IntoRollback DEF RollbackAt
        <4>2. CASE RollbackEnter(p)
          BY <2>0, <4>2 DEF RollbackEnter, TakeKey
        <4>3. CASE RollbackGet(p) /\ pc[p] = "rget"
          BY <4>3 DEF RollbackGet, RollsBack, RollbackAt
        <4>4. CASE RollbackLifecycle(p) /\ pc[p] = "rlife"
          BY <2>0, <4>4 DEF RollbackLifecycle, TakeKey, RollsBack, RollbackAt
        <4> QED
          BY <4>1, <4>2, <4>3, <4>4
      <3> QED
        BY <1>2, <3>1, OthersStay, StepHands, RollsBackMove
    <2> QED
      BY <1>2, <2>1, OthersStay, StepHands, RollsBackMove
  <1>3. ASSUME NEW p \in Procs, Crash(p) PROVE RollsBack'
    <2>1. Elsewhere(p) /\ pc'[p] \notin RollbackAt
      BY <1>3 DEF Crash, Elsewhere, WellFormed, Machines, RollbackAt
    <2> QED
      BY <1>3, <2>1, StepHands, RollsBackMove
  <1>4. ASSUME NEW p \in Others, AccountStep(p) PROVE RollsBack'
    <2>1. p \in Procs /\ Elsewhere(p) /\ LeaseMove(p) /\ pc'[p] \in OtherPlaces
      BY <1>4, FitsStep, OtherIs DEF Fits, WellFormed, Machines
    <2> QED
      BY <2>1, RollsBackMove DEF OtherPlaces, RollbackAt
  <1>5. ASSUME NEW p, LateLands(p) PROVE UNCHANGED <<held, pc>>
    BY <1>5 DEF LateLands
  <1>6. ASSUME NEW kind, NEW r, Cancel(r) \/ Deny(r) \/ ReleaseStale(kind, r)
        PROVE  UNCHANGED <<held, pc>>
    BY <1>6 DEF Cancel, Deny, ReleaseStale
  <1> QED
    BY <1>1, <1>2, <1>3, <1>4, <1>5, <1>6
       DEF LifecycleNext, AccessNext, Next, Quiescent, lvars, vars, ReleaseStaleTeardown

LEMMA AloneInside ==
  ASSUME Exclusive, Sectioned, RollsBack, NEW p \in Procs, NEW q \in Procs, Inside(p), Inside(q)
  PROVE  p = q
  BY DEF Exclusive, Sectioned, RollsBack, Inside

(* No grant becomes active. *)
NoneActivated == \A r \in Requests : grant'[r].st = "active" => grant[r].st = "active"

(* A grant becomes active in two places, both inside the section.          *)
LEMMA Activation ==
  ASSUME WellFormed, History, NEW p \in Procs, Step(p)
  PROVE  \/ NoneActivated
         \/ /\ \A r \in Requests : grant'[r].st = "active" => grant[r].st = "active" \/ r = subj[p]
            /\ \/ p \in Approvers /\ pc[p] = "grant"
               \/ p \in Revokers /\ pc[p] = "restore" /\ memo[p].on
  <1>0. grant \in [Requests -> GrantRows] /\ subj[p] \in Requests /\ Store(p)
    BY RoleOf, StoreOf DEF WellFormed, Rows
  <1>1. CASE UNCHANGED grant
    BY <1>1 DEF NoneActivated
  <1>2. CASE Granting(p)
    BY <1>0, <1>2 DEF Granting, CreateGrant
  <1>3. CASE Revoking(p)
    BY <1>0, <1>3 DEF Revoking, ClaimRevocation, ClaimGrant, NoneActivated
  <1>4. CASE Restoring(p)
    BY <1>0, <1>4 DEF Restoring, RestoreRevoked, RestoreOwed
  <1> QED
    BY <1>0, <1>1, <1>2, <1>3, <1>4
       DEF Store, Inserting, Approving, HandingBack, Dropping, Rescheduling, Claiming, Completing

(* Whoever is not inside the section leaves the consumer alone and makes   *)
(* no grant active.                                                        *)
LEMMA StepOutside ==
  ASSUME WellFormed, StoppedLeave, History, NEW p \in Procs, Step(p), ~ Inside(p)
  PROVE  acl' = acl /\ NoneActivated
  BY Activation, StepSends DEF Inside, SectionAt, RollbackAt, PutGroup, TakeOffGroup, PutReconciled

LEMMA AccountOutside ==
  ASSUME WellFormed, History, NEW p \in Others, AccountStep(p)
  PROVE  NoneActivated /\ (~ Inside(p) => acl' = acl)
  <1>1. p \in Procs
    BY OtherIs
  <1>2. NoneActivated
    BY <1>1, AccountStore, SweptIs DEF NoneActivated
  <1>3. ~ Inside(p) => acl' = acl
    BY AccountSends DEF Inside, SectionAt, SweepPut, TeardownPut, RebuildPut
  <1> QED
    BY <1>2, <1>3

LEMMA AssuredAmid ==
  ASSUME WellFormed, NEW q \in Procs, Assured(q), UNCHANGED <<pc[q], memo[q], subj[q]>>,
         Inside(q) => acl' = acl /\ NoneActivated,
         status = "disabled" \/ ~ rebuilt => status' = "disabled" \/ ~ rebuilt' \/ ~ Inside(q)
  PROVE  Assured(q)'
  <1>1. Seen(q)'
    BY DEF Assured, Seen, Inside, SectionAt, RollbackAt, Api
  <1>2. Spare(q)'
    BY DEF Assured, Spare, Taking, Inside, SectionAt, NoneActivated, ActiveOn, Api
  <1>3. Lists(q)'
    BY DEF Assured, Lists, Inside, SectionAt, NoneActivated
  <1>4. Due(q)'
    BY DEF Assured, Due, TearingDown, Inside, SectionAt
  <1> QED
    BY <1>1, <1>2, <1>3, <1>4 DEF Assured

(* What a handler has just made sure of: the group its PUT has added, what *)
(* the guard of a removal has read.                                        *)
LEMMA StepAssured ==
  ASSUME WellFormed, WellFormed', StoppedLeave, History, GuessesRight, GuessesRight',
         NEW p \in Procs, Step(p), Assured(p)
  PROVE  Assured(p)'
  <1>0. /\ pc \in [Procs -> PCs] /\ memo \in [Procs -> MemoRecords]
        /\ p \notin Enablers /\ p \notin Disablers /\ p \notin TeardownWorkers
    BY NoOtherStep, OthersAre DEF WellFormed, Machines
  <1>1. Lists(p)' /\ Due(p)'
    BY <1>0 DEF Lists, Due, TearingDown
  <1>2. Seen(p)'
    <2>1. ASSUME p \in Approvers, pc'[p] = "grant" PROVE Api(p)' \in acl'
      <3>1. PutGroup(p)
        BY <2>1, IntoRollback DEF RollbackAt
      <3>2. ~ SectionFails(p)
        BY <1>0, <2>1, ConstantsAssumption
           DEF SectionFails, LeaveConsumer, Goto, OnError, Adding
      <3> QED
        BY <3>1, <3>2 DEF PutGroup, Put, EdgeWrite, Api
    <2>2. ASSUME p \in Revokers, pc'[p] = "restore", memo'[p].on PROVE Api(p)' \in acl'
      <3>1. RollbackLifecycle(p) /\ pc[p] = "rlife"
        BY <2>2, IntoRollback DEF RollbackAt
      <3>2. UNCHANGED <<memo, subj, acl>>
        BY <3>1 DEF RollbackLifecycle, edge
      <3> QED
        BY <2>2, <3>1, <3>2 DEF GuessesRight, Api
    <2>3. p \in Revokers /\ pc'[p] = "rlife" /\ memo'[p].on => Api(p)' \in acl'
      BY DEF GuessesRight
    <2> QED
      BY <2>1, <2>2, <2>3 DEF Seen
  <1>3. Spare(p)'
    <2> SUFFICES ASSUME Taking(p)' PROVE ActiveOn(Api(p))' = {}
      BY DEF Spare
    <2>0. pc'[p] = "put"
      BY DEF Taking
    <2>1. \/ EnterConsumer(p) \/ CheckActive(p) \/ Get(p)
          \/ GuardApproval(p) \/ GuardUnwind(p) \/ GuardRevocation(p) \/ GuardReconcile(p)
      BY <2>0, IntoSection
    <2>2. ~ EnterConsumer(p) /\ ~ CheckActive(p)
      BY <1>0, <2>0 DEF EnterConsumer, CheckActive, Goto, LeaveConsumer
    <2>3. ~ Get(p)
      <3>1. Get(p) => p \in Roles
        BY RoleOf DEF Get
      <3> QED
        BY <1>0, <2>0, <3>1, ConstantsAssumption
           DEF Get, Goto, SectionFails, LeaveConsumer, OnError, Adding, Roles
    <2>4. CASE GuardApproval(p)
      <3>1. p \in Approvers /\ p \notin Revokers /\ p \notin Workers /\ ~ memo[p].undo
        BY <2>4, ConstantsAssumption DEF GuardApproval, Adding
      <3>2. memo' = memo
        BY <1>0, <2>0, <2>4 DEF GuardApproval, Finish, LeaveConsumer, Goto
      <3> QED
        BY <3>1, <3>2 DEF Taking
    <2>5. CASE GuardUnwind(p)
      <3>1. ActiveOn(Api(p)) = {} /\ UNCHANGED <<grant, subj>>
        BY <1>0, <2>0, <2>5 DEF GuardUnwind, LeaveConsumer, Goto, db
      <3> QED
        BY <3>1 DEF ActiveOn, Api
    <2>6. CASE GuardRevocation(p)
      <3>1. ActiveOn(Api(p)) = {} /\ UNCHANGED <<grant, subj>>
        BY <1>0, <2>0, <2>6 DEF GuardRevocation, Finish, LeaveConsumer, Goto, db
      <3> QED
        BY <3>1 DEF ActiveOn, Api
    <2>7. CASE GuardReconcile(p)
      <3> DEFINE b == (status = "active")
                 L == ActiveOn(Api(p))
                 m == [memo[p] EXCEPT !.live = L, !.on = b]
      <3>1. memo'[p] = m /\ UNCHANGED <<grant, subj>> /\ memo[p].kind = "approve" /\ p \in Workers
        BY <1>0, <2>7 DEF GuardReconcile, Recall, db
      <3>2. ActiveOn(Api(p))' = L
        BY <3>1 DEF ActiveOn, Api
      <3> HIDE DEF b, L
      <3>3. m.live = L /\ m.kind = memo[p].kind
        BY <1>0 DEF MemoRecords
      <3> HIDE DEF m
      <3>4. p \notin Approvers /\ p \notin Revokers
        BY <3>1, ConstantsAssumption
      <3> QED
        BY <3>1, <3>2, <3>3, <3>4 DEF Taking
    <2> QED
      BY <2>1, <2>2, <2>3, <2>4, <2>5, <2>6, <2>7
  <1> QED
    BY <1>1, <1>2, <1>3 DEF Assured

(* A handler's step takes no group from an active grant and makes no grant *)
(* active without its group.                                               *)
LEMMA StepServed ==
  ASSUME WellFormed, StoppedLeave, History, "late" \notin FaultKinds, NEW p \in Procs, Step(p),
         Assured(p), GrantsAreServed, UNCHANGED <<status, rebuilt>>
  PROVE  GrantsAreServed'
  <1> SUFFICES ASSUME rebuilt, status = "active", NEW r \in Requests, grant'[r].st = "active"
               PROVE  ApiOf[r] \in acl'
    BY DEF GrantsAreServed, NoPhantomGrant
  <1>1. grant[r].st = "active" => ApiOf[r] \in acl
    BY DEF GrantsAreServed, NoPhantomGrant
  <1>2. CASE acl' = acl
    <2>1. CASE grant[r].st = "active"
      BY <1>1, <1>2, <2>1
    <2>2. CASE grant[r].st # "active"
      <3>1. r = subj[p] /\ Api(p) \in acl
        BY <2>2, Activation DEF NoneActivated, Assured, Seen
      <3> QED
        BY <1>2, <3>1 DEF Api
    <2> QED
      BY <2>1, <2>2
  <1>3. ASSUME acl' # acl PROVE ApiOf[r] \in acl'
    <2>1. \/ PutGroup(p) /\ acl' = acl \cup {Api(p)}
          \/ TakeOffGroup(p) /\ acl' = acl \ {Api(p)}
          \/ PutReconciled(p) /\ acl' = Groups(p)
      BY <1>3, StepSends DEF Sends
    <2>2. grant' = grant
      BY <2>1 DEF PutGroup, TakeOffGroup, PutReconciled, db
    <2>3. ApiOf[r] \in acl
      BY <1>1, <2>2
    <2>4. Taking(p) => ApiOf[r] # Api(p)
      BY <2>2 DEF Assured, Spare, ActiveOn
    <2>5. CASE PutGroup(p) /\ acl' = acl \cup {Api(p)}
      BY <2>3, <2>5
    <2>6. CASE TakeOffGroup(p) /\ acl' = acl \ {Api(p)}
      BY <2>3, <2>4, <2>6 DEF TakeOffGroup, Taking
    <2>7. CASE PutReconciled(p) /\ acl' = Groups(p)
      <3>1. memo[p].on \in BOOLEAN /\ p \in Workers /\ pc[p] = "put"
        BY <2>7, RoleOf DEF PutReconciled, MemoRecords
      <3>2. CASE memo[p].live = {}
        BY <2>3, <2>4, <2>7, <3>1, <3>2, GroupsAre DEF Taking
      <3>3. CASE memo[p].live # {}
        BY <2>3, <2>7, <3>1, <3>3 DEF Groups
      <3> QED
        BY <3>2, <3>3
    <2> QED
      BY <2>1, <2>5, <2>6, <2>7
  <1> QED
    BY <1>2, <1>3

LEMMA TeardownEnters ==
  ASSUME WellFormed, NEW p \in Others, AccountStep(p), TearingDown(p)', pc'[p] \in {"get", "put"}
  PROVE  /\ UNCHANGED <<status, rebuilt>>
         /\ status = "disabled" \/ (pc[p] = "get" /\ TearingDown(p))
  <1>0. /\ p \in Procs /\ pc \in [Procs -> PCs] /\ memo \in [Procs -> MemoRecords]
        /\ p \notin Enablers /\ p \in Disablers \cup TeardownWorkers /\ memo'[p].kind = "teardown"
    BY OtherIs, WhoIs DEF WellFormed, Machines, TearingDown
  <1>1. ~ End(p) /\ ~ AccountSectionFails(p)
    BY <1>0 DEF End, Goto, AccountSectionFails, LeaveConsumer
  <1>2. ~ (\/ FlipStart(p) \/ EnableAgain(p) \/ TakeLifecycle(p) \/ LifecycleTimeout(p)
           \/ FlipCommit(p) \/ FlipFails(p))
    BY <1>0, <1>1, WhoIs
       DEF FlipStart, EnableAgain, TakeLifecycle, LifecycleTimeout, FlipCommit, FlipFails, Goto
  <1>3. ~ (\/ SweepList(p) \/ SweepDone(p) \/ (\E r \in Requests : SweepClaim(p, r))
           \/ InlineClaim(p) \/ TeardownClaimDue(p) \/ TeardownUser(p) \/ TeardownOwner(p))
    BY <1>0, <1>1
       DEF SweepList, SweepDone, SweepClaim, InlineClaim, TeardownClaimDue, TeardownUser,
           TeardownOwner, Goto
  <1>4. ~ (AccountEnter(p) \/ AccountTimeout(p) \/ RebuildGrants(p))
    BY <1>0, <1>1 DEF AccountEnter, AccountTimeout, RebuildGrants, Sweeping, Goto
  <1>5. ~ (\/ SweepPut(p) \/ TeardownPut(p) \/ RebuildPut(p) \/ TeardownCredentials(p)
           \/ TeardownDone(p) \/ TeardownFails(p) \/ CancelJob(p))
    BY <1>0, <1>1
       DEF SweepPut, TeardownPut, RebuildPut, TeardownCredentials, TeardownDone, TeardownFails,
           CancelJob, Put, LeaveConsumer, Goto
  <1>6. CASE AccountCheck(p)
    BY <1>0, <1>1, <1>6 DEF AccountCheck, StatusFits, TearingDown, Goto, db
  <1>7. CASE AccountGet(p)
    BY <1>0, <1>1, <1>7 DEF AccountGet, TearingDown, db
  <1> QED
    BY <1>2, <1>3, <1>4, <1>5, <1>6, <1>7 DEF AccountStep

(* A flip keeps what a section has made sure of the account: who enables   *)
(* it again owes a rebuild.                                                *)
LEMMA FlipsKeep ==
  ASSUME WellFormed, Queue, NEW p \in Others, AccountStep(p), ~ RebuildPut(p),
         status = "disabled" \/ ~ rebuilt
  PROVE  status' = "disabled" \/ ~ rebuilt'
  <1>1. CASE Flips(p)
    BY <1>1, WhoIs DEF Flips, Flip
  <1> QED
    BY <1>1, AccountFlips

LEMMA AccountAssured ==
  ASSUME WellFormed, Queue, NEW p \in Others, AccountStep(p), Assured(p)
  PROVE  Assured(p)'
  <1>0. /\ p \in Procs /\ p \notin Approvers /\ p \notin Revokers /\ p \notin Workers
        /\ memo \in [Procs -> MemoRecords]
    BY OtherIs DEF WellFormed, Machines
  <1>1. Seen(p)' /\ Spare(p)'
    BY <1>0 DEF Seen, Spare, Taking
  <1>2. Lists(p)'
    <2> SUFFICES ASSUME p \in Enablers, pc'[p] \in {"get", "put"}, NEW r \in Requests,
                        grant'[r].st = "active"
                 PROVE  r \in memo'[p].live
      BY DEF Lists
    <2>0. p \notin GodDisablers
      BY WhoIs
    <2>1. grant' = grant
      BY <2>0, AccountStore
    <2>2. CASE RebuildGrants(p)
      <3> DEFINE L == {s \in Requests : grant[s].st = "active"}
                 m == [memo[p] EXCEPT !.live = L]
      <3>1. memo'[p] = m
        BY <1>0, <2>2 DEF RebuildGrants, Recall
      <3>2. r \in L
        BY <2>1
      <3> HIDE DEF L
      <3>3. m.live = L
        BY <1>0 DEF MemoRecords
      <3> HIDE DEF m
      <3> QED
        BY <3>1, <3>2, <3>3
    <2>3. CASE pc[p] = "get" /\ memo' = memo
      BY <2>1, <2>3 DEF Assured, Lists
    <2> QED
      BY <2>2, <2>3, RebuildEnters
  <1>3. Due(p)'
    BY TeardownEnters DEF Assured, Due
  <1> QED
    BY <1>1, <1>2, <1>3 DEF Assured

(* An administrator's step: a teardown strips a disabled account, or one   *)
(* whose rebuild comes after it, and a rebuild writes every group.         *)
LEMMA AccountServed ==
  ASSUME WellFormed, Queue, History, Before, Enablers = {} \/ GodDisablers = {},
         "late" \notin FaultKinds, NEW p \in Others, AccountStep(p), Assured(p), GrantsAreServed
  PROVE  GrantsAreServed'
  <1> SUFFICES ASSUME rebuilt', status' = "active", NEW r \in Requests, grant'[r].st = "active"
               PROVE  ApiOf[r] \in acl'
    BY DEF GrantsAreServed, NoPhantomGrant
  <1>1. ~ Flips(p)
    BY WhoIs DEF Flips, Flip
  <1>2. status = "active" /\ (rebuilt' = rebuilt \/ RebuildPut(p))
    BY <1>1, AccountFlips
  <1>3. grant[r].st = "active"
    BY AccountOutside DEF NoneActivated
  <1>4. rebuilt => ApiOf[r] \in acl
    BY <1>2, <1>3 DEF GrantsAreServed, NoPhantomGrant
  <1>5. CASE RebuildPut(p)
    <2>1. p \in Enablers /\ pc[p] = "put"
      BY <1>5 DEF RebuildPut
    <2>2. r \in memo[p].live
      BY <1>3, <2>1 DEF Assured, Lists
    <2>3. ApiOf[r] \in RebuiltGroups(p)
      BY <2>2 DEF RebuiltGroups
    <2>4. CASE acl' = RebuiltGroups(p)
      BY <2>3, <2>4
    <2>5. CASE UNCHANGED edge /\ rebuilt' = rebuilt
      BY <1>4, <2>5 DEF edge
    <2> QED
      BY <1>4, <1>5, <2>2, <2>4, <2>5 DEF RebuildPut, Put, EdgeWrite, Fault, edge
  <1>6. CASE ~ RebuildPut(p)
    <2>1. ~ TeardownPut(p)
      BY <1>2, <1>6 DEF TeardownPut, Assured, Due
    <2>2. ~ SweepPut(p)
      <3>1. CASE Enablers = {}
        BY <1>2, <3>1, BeforeAt DEF SweepPut
      <3>2. CASE GodDisablers = {}
        BY <3>2 DEF SweepPut, Sweeping
      <3> QED
        BY <3>1, <3>2
    <2> QED
      BY <1>2, <1>4, <1>6, <2>1, <2>2, AccountSends
  <1> QED
    BY <1>5, <1>6

LEMMA ServingStep ==
  ASSUME "takeover" \notin FaultKinds, "late" \notin FaultKinds,
         Enablers = {} \/ GodDisablers = {}, Guarded, Guarded', Before, Prompt,
         GuessesRight, GuessesRight', Serving, [LifecycleNext]_lvars
  PROVE  Serving'
  <1>0. RollsBack'
    BY RollsBackStep DEF Guarded, Serving
  <1>1. CASE UNCHANGED <<pc, memo, subj, acl, grant, status, rebuilt>>
    <2>1. NoneActivated
      BY <1>1 DEF NoneActivated
    <2>2. \A q \in Procs : Assured(q)'
      BY <1>1, <2>1, AssuredAmid DEF Serving, Guarded
    <2>3. GrantsAreServed'
      BY <1>1 DEF Serving, GrantsAreServed, NoPhantomGrant
    <2> QED
      BY <1>0, <2>2, <2>3 DEF Serving
  <1>2. ASSUME NEW p \in Procs, Step(p), UNCHANGED <<status, rebuilt>> PROVE Serving'
    <2>1. Elsewhere(p)
      BY <1>2, OthersStay DEF Guarded
    <2>2. ASSUME NEW q \in Procs, q # p PROVE Assured(q)'
      <3>1. Inside(q) => acl' = acl /\ NoneActivated
        BY <1>2, <2>2, AloneInside, StepOutside DEF Guarded, Serving
      <3> QED
        BY <1>2, <2>1, <2>2, <3>1, AssuredAmid DEF Guarded, Serving, Elsewhere
    <2>3. Assured(p)' /\ GrantsAreServed'
      BY <1>2, StepAssured, StepServed DEF Guarded, Serving
    <2> QED
      BY <1>0, <2>2, <2>3 DEF Serving
  <1>3. ASSUME NEW p \in Procs, Crash(p), UNCHANGED rebuilt PROVE Serving'
    <2>1. /\ Elsewhere(p) /\ UNCHANGED <<acl, grant, status>> /\ pc'[p] \in {"crashed", "idle"}
      BY <1>3 DEF Crash, Elsewhere, Guarded, WellFormed, Machines, db
    <2>2. NoneActivated
      BY <2>1 DEF NoneActivated
    <2>3. Assured(p)'
      BY <2>1 DEF Assured, Seen, Spare, Taking, Lists, Due
    <2>4. \A q \in Procs : q # p => Assured(q)'
      BY <1>3, <2>1, <2>2, AssuredAmid DEF Guarded, Serving, Elsewhere
    <2>5. GrantsAreServed'
      BY <1>3, <2>1 DEF Serving, GrantsAreServed, NoPhantomGrant
    <2> QED
      BY <1>0, <2>3, <2>4, <2>5 DEF Serving
  <1>4. ASSUME NEW p \in Others, AccountStep(p) PROVE Serving'
    <2>1. p \in Procs /\ Elsewhere(p)
      BY <1>4, OtherIs, FitsStep DEF Guarded, Fits
    <2>2. ASSUME NEW q \in Procs, q # p PROVE Assured(q)'
      <3>1. Inside(q) => ~ Inside(p)
        BY <2>1, <2>2, AloneInside DEF Guarded, Serving
      <3>2. Inside(q) => acl' = acl /\ NoneActivated
        BY <1>4, <3>1, AccountOutside DEF Guarded
      <3>3. RebuildPut(p) => Inside(p)
        BY DEF RebuildPut, Inside, SectionAt
      <3>4. status = "disabled" \/ ~ rebuilt =>
              status' = "disabled" \/ ~ rebuilt' \/ ~ Inside(q)
        BY <1>4, <3>1, <3>3, FlipsKeep DEF Guarded
      <3> QED
        BY <2>1, <2>2, <3>2, <3>4, AssuredAmid DEF Guarded, Serving, Elsewhere
    <2>3. Assured(p)'
      BY <1>4, <2>1, AccountAssured DEF Guarded, Serving
    <2>4. GrantsAreServed'
      BY <1>4, <2>1, AccountServed DEF Guarded, Serving
    <2> QED
      BY <1>0, <2>2, <2>3, <2>4 DEF Serving
  <1>5. \A p \in Procs : ~ LateLands(p)
    BY DEF LateLands, Prompt
  <1>6. ASSUME NEW kind, NEW r, Cancel(r) \/ Deny(r) \/ ReleaseStale(kind, r), UNCHANGED rebuilt
        PROVE  UNCHANGED <<pc, memo, subj, acl, grant, status, rebuilt>>
    BY <1>6 DEF Cancel, Deny, ReleaseStale, edge
  <1>7. Next => status' = status
    BY StatusStays DEF Guarded
  <1>8. CASE ReleaseStaleTeardown
    BY <1>1, <1>8 DEF ReleaseStaleTeardown, db, edge
  <1>9. CASE UNCHANGED lvars
    BY <1>1, <1>9 DEF lvars, vars
  <1>10. CASE AccessNext
    BY <1>1, <1>2, <1>3, <1>5, <1>6, <1>7, <1>10 DEF AccessNext, Next, Quiescent, vars
  <1> QED
    BY <1>4, <1>8, <1>9, <1>10 DEF LifecycleNext

LEMMA ServingInit ==
  ASSUME LifecycleInit
  PROVE  Guarded /\ Before /\ Prompt /\ Serving /\ GuessesRight
  <1>1. /\ pc = [p \in Procs |-> "idle"] /\ late = [p \in Procs |-> {}]
        /\ grant = [r \in Requests |-> NoGrant]
    BY DEF LifecycleInit, Init
  <1>2. \A p \in Disablers \cup TeardownWorkers \cup Revokers : p \in Procs /\ pc[p] = "idle"
    BY <1>1, OthersAre DEF Procs
  <1>3. Before /\ Prompt /\ GuessesRight
    BY <1>1, <1>2 DEF Before, Prompt, GuessesRight
  <1>4. RollsBack /\ \A p \in Procs : Assured(p)
    BY <1>1 DEF RollsBack, RollbackAt, Assured, Seen, Spare, Taking, Lists, Due
  <1>5. GrantsAreServed
    BY <1>1 DEF GrantsAreServed, NoPhantomGrant, NoGrant
  <1> QED
    BY <1>3, <1>4, <1>5, GuardedInit DEF Serving

(* A rollback that can read the consumer does not guess. *)
LEMMA NoGuess ==
  ASSUME "takeover" \notin FaultKinds, "late" \notin FaultKinds, "refused" \notin FaultKinds,
         Guarded, Prompt, Serving, GuessesRight, [LifecycleNext]_lvars
  PROVE  GuessesRight'
  <1> SUFFICES ASSUME NEW v \in Revokers, pc'[v] = "rlife", memo'[v].on PROVE Api(v)' \in acl'
    BY DEF GuessesRight
  <1>0. /\ v \in Procs /\ v \notin Others
        /\ pc \in [Procs -> PCs] /\ memo \in [Procs -> MemoRecords]
    BY OtherIs DEF Procs, Guarded, WellFormed, Machines
  <1>1. ASSUME UNCHANGED <<pc[v], memo[v], subj[v]>>, Inside(v) => acl' = acl
        PROVE  Api(v)' \in acl'
    BY <1>1 DEF GuessesRight, Inside, RollbackAt, Api
  <1>2. ASSUME NEW p \in Procs, Step(p) PROVE Api(v)' \in acl'
    <2>1. CASE p # v
      <3>1. UNCHANGED <<pc[v], memo[v], subj[v]>>
        BY <1>0, <1>2, <2>1, OthersStay DEF Guarded, Elsewhere
      <3>2. Inside(v) => acl' = acl
        BY <1>0, <1>2, <2>1, AloneInside, StepOutside DEF Guarded, Serving
      <3> QED
        BY <1>1, <3>1, <3>2
    <2>2. CASE p = v
      <3> DEFINE b == (Api(v) \in acl)
                 m == [memo[v] EXCEPT !.on = b]
      <3>1. RollbackGet(v)
        BY <1>2, <2>2, IntoRollback DEF Guarded, RollbackAt
      <3>2. memo'[v] = m /\ UNCHANGED <<subj, acl>>
        BY <1>0, <3>1 DEF RollbackGet, Recall, Fault, edge
      <3>3. b => Api(v)' \in acl'
        BY <3>2 DEF Api
      <3> HIDE DEF b
      <3>4. m.on = b
        BY <1>0 DEF MemoRecords
      <3> HIDE DEF m
      <3> QED
        BY <3>2, <3>3, <3>4
    <2> QED
      BY <2>1, <2>2
  <1>3. ASSUME NEW p \in Procs, Crash(p) PROVE Api(v)' \in acl'
    <2>1. p # v
      BY <1>0, <1>3 DEF Crash
    <2>2. UNCHANGED <<pc[v], memo[v], subj[v]>> /\ acl' = acl
      BY <1>0, <1>3, <2>1 DEF Crash
    <2> QED
      BY <1>1, <2>2
  <1>4. ASSUME NEW p \in Others, AccountStep(p) PROVE Api(v)' \in acl'
    <2>1. p \in Procs /\ Elsewhere(p) /\ p # v
      BY <1>0, <1>4, OtherIs, FitsStep DEF Guarded, Fits
    <2>2. Inside(v) => acl' = acl
      BY <1>0, <1>4, <2>1, AloneInside, AccountOutside DEF Guarded, Serving
    <2> QED
      BY <1>0, <1>1, <2>1, <2>2 DEF Elsewhere
  <1>5. \A p \in Procs : ~ LateLands(p)
    BY DEF LateLands, Prompt
  <1>6. ASSUME NEW kind, NEW r, Cancel(r) \/ Deny(r) \/ ReleaseStale(kind, r)
        PROVE  UNCHANGED <<pc, memo, subj, acl>>
    BY <1>6 DEF Cancel, Deny, ReleaseStale, edge
  <1>7. CASE UNCHANGED <<pc, memo, subj, acl>>
    BY <1>1, <1>7
  <1>8. CASE AccessNext
    BY <1>2, <1>3, <1>5, <1>6, <1>7, <1>8 DEF AccessNext, Next, Quiescent, vars
  <1> QED
    BY <1>4, <1>7, <1>8 DEF LifecycleNext, ReleaseStaleTeardown, lvars, vars, edge

(* Once an enable has succeeded every active grant has its group, however  *)
(* teardowns, approvals, revocations and recoveries end - whatever fails   *)
(* or crashes, as long as no lease lapses under a running holder, no PUT   *)
(* lands after its sender gave up, and no rollback takes a consumer it     *)
(* cannot read for one that carries a group it does not carry.             *)
THEOREM GrantsStayServed ==
  ASSUME "takeover" \notin FaultKinds, "late" \notin FaultKinds,
         Enablers = {} \/ GodDisablers = {}
  PROVE  LifecycleSpec /\ []GuessesRight => []GrantsAreServed
  <1> DEFINE Inv == Guarded /\ Before /\ Prompt /\ Serving
  <1>1. LifecycleInit => Inv
    BY ServingInit
  <1>2. Inv /\ GuessesRight /\ GuessesRight' /\ [LifecycleNext]_lvars => Inv'
    <2> SUFFICES ASSUME Inv, GuessesRight, GuessesRight', [LifecycleNext]_lvars PROVE Inv'
      OBVIOUS
    <2>1. Guarded' /\ Before' /\ Prompt'
      BY GuardedStep, BeforeStep, PromptStep DEF Guarded
    <2> QED
      BY <2>1, ServingStep
  <1>3. Inv => GrantsAreServed
    BY DEF Serving
  <1> QED
    BY <1>1, <1>2, <1>3, PTL DEF LifecycleSpec

(* The same where no Edge call and no lock wait is refused: a rollback     *)
(* then reads what it decides on, and answers, commits, claims and         *)
(* processes may still be lost any number of times.                        *)
THEOREM GrantsAreServedAlways ==
  ASSUME FaultKinds \subseteq {"lost", "db", "dblost", "stall", "crash"},
         Enablers = {} \/ GodDisablers = {}
  PROVE  LifecycleSpec => []GrantsAreServed
  <1> DEFINE Inv == Guarded /\ Before /\ Prompt /\ Serving /\ GuessesRight
  <1>0. "takeover" \notin FaultKinds /\ "late" \notin FaultKinds /\ "refused" \notin FaultKinds
    OBVIOUS
  <1>1. LifecycleInit => Inv
    BY ServingInit
  <1>2. Inv /\ [LifecycleNext]_lvars => Inv'
    <2> SUFFICES ASSUME Inv, [LifecycleNext]_lvars PROVE Inv'
      OBVIOUS
    <2>1. Guarded' /\ Before' /\ Prompt'
      BY <1>0, GuardedStep, BeforeStep, PromptStep DEF Guarded
    <2>2. GuessesRight'
      BY <1>0, NoGuess
    <2> QED
      BY <1>0, <2>1, <2>2, ServingStep
  <1>3. Inv => GrantsAreServed
    BY DEF Serving
  <1> QED
    BY <1>1, <1>2, <1>3, PTL DEF LifecycleSpec

===============================================================================
