-------------------------- MODULE AccessGrantsProofs --------------------------
(***************************************************************************)
(* Theorems about AccessGrants, for any requests, processes and faults.    *)
(***************************************************************************)
EXTENDS AccessGrants, TLAPS

ReqStatus == {"absent", "pending", "approved", "denied", "cancelled", "revoked"}
GrantRows == [st : {"none", "active", "revoked"}, by : Procs \cup {NoProc}]
JobRows == [st : {"none", "sending", "pending"}, gen : Procs \cup {NoProc}]
MemoRecords ==
    [kind : Kinds \cup {"none", "teardown"}, undo : BOOLEAN, added : BOOLEAN, ok : BOOLEAN,
     on : BOOLEAN,
     status : {"none", "absent", "pending", "approved", "denied", "cancelled", "revoked",
               "active", "disabled"},
     live : SUBSET Requests, todo : SUBSET Requests]

(* Where each kind of process can be. *)
Places(p) ==
    CASE p \in Clients -> {"idle", "done", "crashed", "submit", "insert"}
      [] p \in Approvers -> {"idle", "done", "crashed", "proxy", "admit", "claim", "ckey",
                             "check", "get", "guard", "put", "grant", "live", "settle",
                             "drop", "resched"}
      [] p \in Revokers -> {"idle", "done", "crashed", "proxy", "claim", "ckey", "get",
                            "guard", "put", "drop", "resched", "rckey", "rget", "rlife",
                            "restore"}
      [] p \in Workers -> {"idle", "proxy", "owned", "ckey", "get", "guard", "put",
                           "complete", "drop", "resched"}
      [] OTHER -> {"idle", "lkey", "flip", "list", "sweep", "tclaim", "tuser", "towner",
                   "ckey", "check", "get", "grants", "put", "tcreds", "tdone", "tfail",
                   "cancel"}

Rows ==
    /\ req \in [Requests -> ReqStatus]
    /\ grant \in [Requests -> GrantRows]
    /\ job \in [Kinds -> [Requests -> JobRows]]
    /\ acl \in SUBSET Apis
    /\ status \in {"active", "disabled"}
Leases ==
    /\ lease \in [Keys -> Procs \cup {NoProc}]
    /\ held \in [Procs -> SUBSET Keys]
    /\ \A p \in Procs : pc[p] \in {"idle", "done", "crashed", "submit", "proxy"} => held[p] = {}
Machines ==
    /\ pc \in [Procs -> PCs] /\ \A p \in Procs : pc[p] \in Places(p)
    /\ subj \in [Procs -> Requests]
    /\ memo \in [Procs -> MemoRecords]
    /\ \A w \in Workers : pc[w] # "idle" => memo[w].kind \in Kinds
    /\ \A w \in Workers : pc[w] \in {"proxy", "owned"} => memo[w].kind = "approve"
    /\ fresh \in [Procs -> BOOLEAN]
    /\ late \in [Procs -> SUBSET (SUBSET Apis)]
    /\ faults \in 0..MaxFaults
WellFormed == Rows /\ Leases /\ Machines

-----------------------------------------------------------------------------
(* A client's request is not there before it inserts it. *)
Inserts(c) ==
    pc[c] \in {"idle", "submit", "insert"} =>
      /\ req[Submits[c]] = "absent"
      /\ pc[c] # "idle" => subj[c] = Submits[c]

(* An approver that still owns its job finds its request approved until it *)
(* settles it, and settled once it drops the job.                          *)
Claimed == {"ckey", "check", "get", "guard", "put", "grant", "live", "settle"}
ApproverFinds(p) ==
    Owns(p, "approve") =>
      /\ pc[p] \in Claimed => req[subj[p]] = "approved"
      /\ pc[p] = "drop" => req[subj[p]] # "approved"

(* A recovery that still owns its job has read the request's status, has   *)
(* found no grant of its own, and does not drop the job unsettled.         *)
WorkerFinds(w) ==
    Owns(w, "approve") /\ memo[w].kind = "approve" =>
      /\ pc[w] \in {"ckey", "get", "guard", "put", "complete"} =>
           (req[subj[w]] = "approved" => memo[w].status = "approved")
      /\ pc[w] \in {"put", "complete"} => subj[w] \notin memo[w].live
      /\ pc[w] # "drop"

Finds(p) ==
    /\ p \in Clients => Inserts(p)
    /\ p \in Approvers => ApproverFinds(p)
    /\ p \in Workers => WorkerFinds(p)

(* The job of an approval lasts from its claim to the grant at the latest. *)
OwedOrGranted == \A r \in Requests : job["approve"][r].st # "none" => grant[r].st = "none"

History ==
    HistoryMatchesGrant /\ OwedOrGranted /\ \A p \in Procs : Finds(p)

-----------------------------------------------------------------------------
(* A process is about to delete its job: the gateway is as it should be. *)
Settling(p) ==
    \/ pc[p] \in {"drop", "complete"} \/ (pc[p] = "settle" /\ memo[p].ok)
    \/ p \in Approvers /\ pc[p] = "live" /\ ~ memo[p].added
OnJob(p, kind, r) ==
    /\ p \in Approvers \cup Revokers \cup Workers
    /\ subj[p] = r /\ JobKind(p) = kind

(* A job row that will lead to another write of the consumer. *)
Firm(kind, r) ==
    /\ job[kind][r].st # "none"
    /\ \A p \in Procs :
         job[kind][r] = [st |-> "sending", gen |-> p] /\ OnJob(p, kind, r) => ~ Settling(p)

Covered(a) ==
    \/ ActiveOn(a) # {}
    \/ \E kind \in Kinds, r \in Requests : ApiOf[r] = a /\ Firm(kind, r)

(* The groups on the consumer, and those a write under way can put there. *)
Exposed(a) ==
    \/ a \in acl
    \/ \E p \in Procs : \E g \in late[p] : a \in g
    \/ \E p \in Approvers : Adding(p) /\ pc[p] = "put" /\ fresh[p] /\ Api(p) = a

Accounted == \A a \in Apis : Exposed(a) => Covered(a)

(* A recovery that found a live grant writes its group only while the      *)
(* grant is live or its revocation owes another write.                     *)
Removal(a) == \E r \in Requests : ApiOf[r] = a /\ Firm("revoke", r)
Reconciled ==
    \A w \in Workers :
      pc[w] = "put" /\ memo[w].kind = "approve" /\ memo[w].live # {} /\ fresh[w] =>
        ActiveOn(Api(w)) # {} \/ Removal(Api(w))

Gateway == Accounted /\ Reconciled

(* An approval that was stopped because the account is disabled is on its  *)
(* way out: it has written nothing and settles its request.                *)
WayOut == {"live", "settle", "drop", "resched"}
StoppedLeave == \A p \in Approvers : ~ memo[p].added => pc[p] \in WayOut

-----------------------------------------------------------------------------
(* The building blocks keep the variables in form. *)

LEMMA BlankIs == Blank \in MemoRecords /\ Blank.added /\ Blank.kind = "none"
  <1>1. Blank \in MemoRecords
    BY Zenon DEF Blank, MemoRecords
  <1>2. Blank.added /\ Blank.kind = "none"
    BY DEF Blank
  <1> QED
    BY <1>1, <1>2

LEMMA FaultIs ==
  ASSUME WellFormed, NEW kind, Fault(kind)
  PROVE  faults' \in 0..MaxFaults
  BY ConstantsAssumption DEF WellFormed, Machines, Fault

LEMMA KeysAre ==
  /\ consumer \in Keys /\ lifecycle \in Keys
  /\ \A r \in Requests : ApiOf[r] \in Keys /\ ApiOf[r] \in Apis
  BY ConstantsAssumption DEF Keys

LEMMA TakeKeyIs ==
  ASSUME WellFormed, NEW p \in Procs, NEW k \in Keys, TakeKey(p, k)
  PROVE  /\ lease' \in [Keys -> Procs \cup {NoProc}] /\ held' \in [Procs -> SUBSET Keys]
         /\ \A q \in Procs : q # p => held'[q] = held[q]
         /\ faults' \in 0..MaxFaults
  <1>1. faults' \in 0..MaxFaults
    BY FaultIs DEF TakeKey, WellFormed, Machines
  <1> QED
    BY <1>1 DEF TakeKey, WellFormed, Leases

LEMMA ReleaseIs ==
  ASSUME WellFormed, NEW p \in Procs, NEW keys, Release(p, keys)
  PROVE  /\ lease' \in [Keys -> Procs \cup {NoProc}] /\ held' \in [Procs -> SUBSET Keys]
         /\ \A q \in Procs : q # p => held'[q] = held[q]
         /\ keys = held[p] => held'[p] = {}
  BY DEF Release, WellFormed, Leases

(* The place a process that is over goes to. *)
Rest(p) == IF p \in OneShot THEN "done" ELSE "idle"

LEMMA RestIs ==
  ASSUME NEW p \in Procs
  PROVE  Rest(p) \in Places(p) /\ Rest(p) \in {"idle", "done"}
         /\ (p \in Workers => Rest(p) = "idle")
  BY ConstantsAssumption DEF Rest, OneShot, Places, Procs

(* The control of every process but p stays, and p goes to x. *)
Moves(p, x) == pc' = [pc EXCEPT ![p] = x]
Elsewhere(p) == \A q \in Procs : q # p =>
                pc'[q] = pc[q] /\ memo'[q] = memo[q] /\ subj'[q] = subj[q]

LEMMA PlacesAre == \A p \in Procs : Places(p) \subseteq PCs /\ "idle" \in Places(p)
  BY ConstantsAssumption DEF Places, PCs, Procs

LEMMA MachinesMove ==
  ASSUME WellFormed, NEW p \in Procs, NEW x \in Places(p), Moves(p, x),
         NEW m \in MemoRecords, memo' = [memo EXCEPT ![p] = m],
         p \in Workers /\ x # "idle" => m.kind \in Kinds,
         p \in Workers /\ x \in {"proxy", "owned"} => m.kind = "approve",
         subj' \in [Procs -> Requests], fresh' \in [Procs -> BOOLEAN],
         late' \in [Procs -> SUBSET (SUBSET Apis)], faults' \in 0..MaxFaults
  PROVE  Machines' /\ pc'[p] = x /\ memo'[p] = m
  BY PlacesAre DEF WellFormed, Machines, Moves, Procs

LEMMA MachinesGo ==
  ASSUME WellFormed, NEW p \in Procs, NEW x \in Places(p), Moves(p, x), memo' = memo,
         p \in Workers /\ x # "idle" => pc[p] # "idle",
         p \in Workers /\ x \in {"proxy", "owned"} => pc[p] \in {"proxy", "owned"},
         subj' \in [Procs -> Requests], fresh' \in [Procs -> BOOLEAN],
         late' \in [Procs -> SUBSET (SUBSET Apis)], faults' \in 0..MaxFaults
  PROVE  Machines' /\ pc'[p] = x
  BY PlacesAre DEF WellFormed, Machines, Moves, Procs

LEMMA LeasesMove ==
  ASSUME WellFormed, NEW p \in Procs, NEW x \in Places(p), Moves(p, x),
         lease' \in [Keys -> Procs \cup {NoProc}], held' \in [Procs -> SUBSET Keys],
         \A q \in Procs : q # p => held'[q] = held[q],
         x \in {"idle", "done", "crashed", "submit", "proxy"} => held'[p] = {}
  PROVE  Leases'
  BY DEF WellFormed, Machines, Moves, Leases

LEMMA FinishIs ==
  ASSUME WellFormed, NEW p \in Procs, Finish(p), subj' = subj, late' = late,
         faults' \in 0..MaxFaults
  PROVE  /\ Leases' /\ Machines' /\ Moves(p, Rest(p)) /\ pc'[p] = Rest(p)
         /\ memo' = [memo EXCEPT ![p] = Blank] /\ fresh' = [fresh EXCEPT ![p] = FALSE]
  <1>1. /\ Moves(p, Rest(p)) /\ memo' = [memo EXCEPT ![p] = Blank]
        /\ fresh' = [fresh EXCEPT ![p] = FALSE] /\ Release(p, held[p])
    BY DEF Finish, Moves, Rest
  <1>2. fresh' \in [Procs -> BOOLEAN] /\ subj' \in [Procs -> Requests]
        /\ late' \in [Procs -> SUBSET (SUBSET Apis)]
    BY <1>1 DEF WellFormed, Machines
  <1>3. Machines' /\ pc'[p] = Rest(p)
    BY <1>1, <1>2, RestIs, BlankIs, MachinesMove
  <1>4. Leases'
    BY <1>1, RestIs, ReleaseIs, LeasesMove
  <1> QED
    BY <1>1, <1>3, <1>4

(* The memory a step may leave behind. *)
LEMMA MemoOk ==
  ASSUME NEW m \in MemoRecords, NEW b \in BOOLEAN
  PROVE  /\ [m EXCEPT !.ok = b] \in MemoRecords /\ [m EXCEPT !.ok = b].added = m.added
         /\ [m EXCEPT !.ok = b].kind = m.kind
  <1>1. [m EXCEPT !.ok = b] \in MemoRecords
    BY Zenon DEF MemoRecords
  <1> QED
    BY <1>1 DEF MemoRecords

LEMMA MemoUndo ==
  ASSUME NEW m \in MemoRecords, NEW b \in BOOLEAN
  PROVE  /\ [m EXCEPT !.undo = b] \in MemoRecords /\ [m EXCEPT !.undo = b].added = m.added
         /\ [m EXCEPT !.undo = b].kind = m.kind
  <1>1. [m EXCEPT !.undo = b] \in MemoRecords
    BY Zenon DEF MemoRecords
  <1> QED
    BY <1>1 DEF MemoRecords

LEMMA MemoAdded ==
  ASSUME NEW m \in MemoRecords, NEW b \in BOOLEAN
  PROVE  [m EXCEPT !.added = b] \in MemoRecords /\ [m EXCEPT !.added = b].kind = m.kind
  <1>1. [m EXCEPT !.added = b] \in MemoRecords
    BY Zenon DEF MemoRecords
  <1> QED
    BY <1>1 DEF MemoRecords

LEMMA MemoOn ==
  ASSUME NEW m \in MemoRecords, NEW b \in BOOLEAN
  PROVE  /\ [m EXCEPT !.on = b] \in MemoRecords /\ [m EXCEPT !.on = b].added = m.added
         /\ [m EXCEPT !.on = b].kind = m.kind
  <1>1. [m EXCEPT !.on = b] \in MemoRecords
    BY Zenon DEF MemoRecords
  <1> QED
    BY <1>1 DEF MemoRecords

LEMMA MemoLive ==
  ASSUME NEW m \in MemoRecords, NEW b \in BOOLEAN, NEW L \in SUBSET Requests
  PROVE  /\ [m EXCEPT !.live = L, !.on = b] \in MemoRecords
         /\ [m EXCEPT !.live = L, !.on = b].added = m.added
         /\ [m EXCEPT !.live = L, !.on = b].kind = m.kind
         /\ [m EXCEPT !.live = L, !.on = b].live = L
         /\ [m EXCEPT !.live = L, !.on = b].status = m.status
  <1>1. [m EXCEPT !.live = L, !.on = b] \in MemoRecords
    BY Zenon DEF MemoRecords
  <1> QED
    BY <1>1 DEF MemoRecords

LEMMA MemoStatus ==
  ASSUME NEW m \in MemoRecords, NEW s \in ReqStatus
  PROVE  /\ [m EXCEPT !.status = s] \in MemoRecords /\ [m EXCEPT !.status = s].added = m.added
         /\ [m EXCEPT !.status = s].kind = m.kind /\ [m EXCEPT !.status = s].status = s
  <1>1. [m EXCEPT !.status = s] \in MemoRecords
    BY Zenon DEF MemoRecords, ReqStatus
  <1> QED
    BY <1>1 DEF MemoRecords

LEMMA MemoKind ==
  ASSUME NEW k \in Kinds
  PROVE  /\ [Blank EXCEPT !.kind = k] \in MemoRecords /\ [Blank EXCEPT !.kind = k].added
         /\ [Blank EXCEPT !.kind = k].kind = k
  <1>1. [Blank EXCEPT !.kind = k] \in MemoRecords
    BY BlankIs, Zenon DEF MemoRecords
  <1> QED
    BY <1>1, BlankIs DEF MemoRecords

Roles == Approvers \cup Revokers \cup Workers

LEMMA OnErrorIs ==
  ASSUME WellFormed, NEW p \in Roles
  PROVE  OnError(p) \in Places(p) /\ OnError(p) \in {"live", "settle", "rckey", "resched"}
  <1>1. p \in Procs /\ memo[p].undo \in BOOLEAN
    BY DEF WellFormed, Machines, MemoRecords, Roles, Procs
  <1>2. CASE p \in Approvers
    BY <1>1, <1>2, ConstantsAssumption DEF OnError, Adding, Places
  <1>3. CASE p \in Revokers
    BY <1>1, <1>3, ConstantsAssumption DEF OnError, Adding, Places
  <1>4. CASE p \in Workers
    BY <1>1, <1>4, ConstantsAssumption DEF OnError, Adding, Places
  <1> QED
    BY <1>2, <1>3, <1>4 DEF Roles

Failed(p) == [memo[p] EXCEPT !.ok = ~ memo[p].undo]

LEMMA SectionFailsIs ==
  ASSUME WellFormed, NEW p \in Roles, pc[p] # "idle", SectionFails(p), subj' = subj,
         fresh' \in [Procs -> BOOLEAN], late' \in [Procs -> SUBSET (SUBSET Apis)],
         faults' \in 0..MaxFaults
  PROVE  /\ Leases' /\ Machines' /\ Moves(p, OnError(p)) /\ pc'[p] = OnError(p)
         /\ memo' = [memo EXCEPT ![p] = Failed(p)] /\ memo'[p] = Failed(p)
  <1>1. p \in Procs
    BY DEF Roles, Procs
  <1>2. /\ Moves(p, OnError(p)) /\ memo' = [memo EXCEPT ![p] = Failed(p)]
        /\ Release(p, {consumer})
    BY DEF SectionFails, LeaveConsumer, Goto, Recall, Moves, Failed
  <1>3. memo[p] \in MemoRecords /\ (~ memo[p].undo) \in BOOLEAN
    BY <1>1 DEF WellFormed, Machines
  <1>4. /\ Failed(p) \in MemoRecords
        /\ Failed(p).kind = memo[p].kind
    <2> DEFINE b == ~ memo[p].undo
    <2>1. b \in BOOLEAN
      BY <1>3
    <2> HIDE DEF b
    <2> QED
      BY <1>3, <2>1, MemoOk DEF Failed, b
  <1>5. OnError(p) \in Places(p) /\ OnError(p) \in {"live", "settle", "rckey", "resched"}
    BY OnErrorIs
  <1>6. Machines' /\ pc'[p] = OnError(p) /\ memo'[p] = Failed(p)
    <2>1. p \in Workers => Failed(p).kind \in Kinds
      BY <1>4 DEF WellFormed, Machines
    <2>2. subj' \in [Procs -> Requests]
      BY DEF WellFormed, Machines
    <2> HIDE DEF Failed
    <2> QED
      BY <1>1, <1>2, <1>4, <1>5, <2>1, <2>2, MachinesMove
  <1>7. Leases'
    BY <1>1, <1>2, <1>5, ReleaseIs, LeasesMove
  <1> QED
    BY <1>2, <1>6, <1>7

(* What a PUT does to the row. *)
Written(p, groups) ==
    \/ fresh[p] /\ EdgeWrite(groups)
    \/ UNCHANGED edge
    \/ /\ fresh[p] /\ late' = [late EXCEPT ![p] = @ \cup {groups}]
       /\ UNCHANGED <<acl, fresh>>

LEMMA WrittenIs ==
  ASSUME WellFormed, NEW p \in Procs, NEW groups \in SUBSET Apis, Written(p, groups)
  PROVE  /\ acl' \in SUBSET Apis /\ fresh' \in [Procs -> BOOLEAN]
         /\ late' \in [Procs -> SUBSET (SUBSET Apis)]
         /\ \A q \in Procs : q # p => (fresh'[q] => fresh[q])
         /\ fresh'[p] => fresh[p]
  <1>1. acl \in SUBSET Apis /\ fresh \in [Procs -> BOOLEAN]
        /\ late \in [Procs -> SUBSET (SUBSET Apis)]
    BY DEF WellFormed, Rows, Machines
  <1>2. CASE EdgeWrite(groups)
    BY <1>2 DEF EdgeWrite
  <1>3. CASE UNCHANGED edge
    BY <1>1, <1>3 DEF edge
  <1>4. CASE late' = [late EXCEPT ![p] = @ \cup {groups}] /\ UNCHANGED <<acl, fresh>>
    BY <1>1, <1>4
  <1> QED
    BY <1>2, <1>3, <1>4 DEF Written

-----------------------------------------------------------------------------
LEMMA WellFormedInit == Init => WellFormed
  <1> SUFFICES ASSUME Init PROVE WellFormed
    OBVIOUS
  <1>1. NoGrant \in GrantRows /\ NoJob \in JobRows
    BY DEF NoGrant, NoJob, GrantRows, JobRows
  <1>2. Rows
    BY <1>1 DEF Init, Rows, ReqStatus
  <1>3. Leases
    BY DEF Init, Leases
  <1>5. (CHOOSE r \in Requests : TRUE) \in Requests
    BY ConstantsAssumption
  <1>6. Machines
    BY <1>5, PlacesAre, BlankIs, ConstantsAssumption DEF Init, Machines, Procs
  <1> QED
    BY <1>2, <1>3, <1>6 DEF WellFormed

(* Who a process is, from where it is. *)
LEMMA RoleOf ==
  ASSUME WellFormed, NEW p \in Procs
  PROVE  /\ p \notin Others
              /\ pc[p] \in {"proxy", "ckey", "get", "guard", "put", "drop", "resched"} =>
            p \in Roles
         /\ pc[p] \in {"proxy", "guard", "drop", "resched"} => p \in Roles
         /\ pc[p] \in {"submit", "insert"} => p \in Clients
         /\ pc[p] \in Places(p)
         /\ memo[p] \in MemoRecords /\ subj[p] \in Requests
         /\ p \in Workers /\ pc[p] # "idle" => memo[p].kind \in Kinds
  BY ConstantsAssumption DEF WellFormed, Machines, Places, Roles, Procs

(* The steps that only move a process on: its place, memory and leases. *)
Only(p) == UNCHANGED <<req, grant, job, status, acl, late>> /\ subj' = subj

LEMMA RowsStay == WellFormed /\ UNCHANGED <<req, grant, job, status, acl>> => Rows'
  BY DEF WellFormed, Rows

LEMMA WFRequest ==
  ASSUME WellFormed, NEW c \in Procs, RequestCheck(c) \/ RequestLock(c) \/ RequestInsert(c)
  PROVE  WellFormed'
  <1>1. CASE RequestCheck(c)
    <2>1. /\ c \in Clients /\ Moves(c, "submit") /\ subj' = [subj EXCEPT ![c] = Submits[c]]
          /\ UNCHANGED <<db, edge, lease, held, memo, faults>> /\ pc[c] = "idle"
      BY <1>1 DEF RequestCheck, Goto, Moves
    <2>2. "submit" \in Places(c) /\ c \notin Workers /\ subj' \in [Procs -> Requests]
      BY <2>1, ConstantsAssumption DEF Places, WellFormed, Machines
    <2>3. Machines'
      BY <2>1, <2>2, MachinesGo DEF WellFormed, Machines, edge
    <2>4. Leases'
      BY <2>1, <2>2, LeasesMove DEF WellFormed, Leases
    <2> QED
      BY <2>1, <2>3, <2>4, RowsStay DEF WellFormed, db, edge
  <1>2. CASE RequestLock(c)
    <2>1. /\ c \in Clients /\ Moves(c, "insert") /\ TakeKey(c, ApiOf[subj[c]])
          /\ UNCHANGED <<db, edge, subj, memo>>
      BY <1>2 DEF RequestLock, Goto, Moves
    <2>2. "insert" \in Places(c) /\ c \notin Workers
      BY <2>1, ConstantsAssumption DEF Places
    <2>3. /\ lease' \in [Keys -> Procs \cup {NoProc}] /\ held' \in [Procs -> SUBSET Keys]
          /\ (\A q \in Procs : q # c => held'[q] = held[q]) /\ faults' \in 0..MaxFaults
      BY <2>1, TakeKeyIs, KeysAre, RoleOf
    <2>4. Machines'
      BY <2>1, <2>2, <2>3, MachinesGo DEF WellFormed, Machines, edge
    <2>5. Leases'
      BY <2>1, <2>2, <2>3, LeasesMove
    <2> QED
      BY <2>1, <2>4, <2>5, RowsStay DEF WellFormed, db, edge
  <1>3. CASE RequestInsert(c)
    <2>1. Leases' /\ Machines'
      BY <1>3, FinishIs DEF RequestInsert, WellFormed, Machines
    <2>2. req' \in [Requests -> ReqStatus] /\ UNCHANGED <<grant, job, status, acl>>
      BY <1>3 DEF RequestInsert, WellFormed, Rows, ReqStatus
    <2> QED
      BY <2>1, <2>2 DEF WellFormed, Rows
  <1> QED
    BY <1>1, <1>2, <1>3

(* The ways a step moves a process: it goes on, takes a key, gives keys up. *)
LEMMA GoKeeps ==
  ASSUME WellFormed, NEW p \in Procs, NEW x \in Places(p), Moves(p, x), Machines', Rows',
         UNCHANGED <<lease, held>>,
         x \in {"idle", "done", "crashed", "submit", "proxy"} =>
           pc[p] \in {"idle", "done", "crashed", "submit", "proxy"}
  PROVE  WellFormed'
  <1>1. Leases'
    BY LeasesMove DEF WellFormed, Leases
  <1> QED
    BY <1>1 DEF WellFormed

LEMMA TakeKeeps ==
  ASSUME WellFormed, NEW p \in Procs, NEW x \in Places(p), Moves(p, x), NEW k \in Keys,
         TakeKey(p, k), UNCHANGED <<db, edge, subj, memo>>, pc[p] # "idle",
         x \notin {"idle", "done", "crashed", "submit", "proxy"},
         p \in Workers /\ x = "owned" => pc[p] = "proxy"
  PROVE  WellFormed'
  <1>1. /\ lease' \in [Keys -> Procs \cup {NoProc}] /\ held' \in [Procs -> SUBSET Keys]
        /\ (\A q \in Procs : q # p => held'[q] = held[q]) /\ faults' \in 0..MaxFaults
    BY TakeKeyIs
  <1>2. Machines'
    BY <1>1, MachinesGo DEF WellFormed, Machines, edge
  <1>3. Leases'
    BY <1>1, LeasesMove
  <1> QED
    BY <1>2, <1>3, RowsStay DEF WellFormed, db, edge

LEMMA LeaveKeeps ==
  ASSUME WellFormed, NEW p \in Procs, NEW x \in Places(p), Moves(p, x), NEW keys,
         Release(p, keys), Machines', Rows',
         x \notin {"idle", "done", "crashed", "submit", "proxy"}
  PROVE  WellFormed'
  <1>1. Leases'
    BY ReleaseIs, LeasesMove
  <1> QED
    BY <1>1 DEF WellFormed

LEMMA FinishKeeps ==
  ASSUME WellFormed, NEW p \in Procs, Finish(p), subj' = subj, late' = late,
         faults' \in 0..MaxFaults, Rows'
  PROVE  WellFormed'
  BY FinishIs DEF WellFormed

(* A step that leaves its memory alone. *)
LEMMA GoOn ==
  ASSUME WellFormed, NEW p \in Procs, NEW x \in Places(p), Moves(p, x), memo' = memo,
         UNCHANGED <<subj, late>>, fresh' \in [Procs -> BOOLEAN], faults' \in 0..MaxFaults,
         pc[p] # "idle", x \notin {"proxy", "owned"}
  PROVE  Machines'
  BY MachinesGo DEF WellFormed, Machines

(* A step that changes its memory. *)
LEMMA GoKnowing ==
  ASSUME WellFormed, NEW p \in Procs, NEW x \in Places(p), Moves(p, x),
         NEW m \in MemoRecords, memo' = [memo EXCEPT ![p] = m],
         m.kind = memo[p].kind,
         UNCHANGED <<subj, late, fresh>>, faults' \in 0..MaxFaults,
         pc[p] # "idle", x \notin {"proxy", "owned"}
  PROVE  Machines'
  <1>1. p \in Workers => m.kind \in Kinds
    BY DEF WellFormed, Machines
  <1>2. /\ subj' \in [Procs -> Requests] /\ fresh' \in [Procs -> BOOLEAN]
        /\ late' \in [Procs -> SUBSET (SUBSET Apis)]
    BY DEF WellFormed, Machines
  <1> QED
    BY <1>1, <1>2, MachinesMove

LEMMA FaultsStay == WellFormed /\ UNCHANGED faults => faults' \in 0..MaxFaults
  BY DEF WellFormed, Machines

LEMMA FreshStays ==
  WellFormed /\ UNCHANGED fresh => fresh' \in [Procs -> BOOLEAN]
  BY DEF WellFormed, Machines

-----------------------------------------------------------------------------
(* Every action keeps the variables in form. *)

LEMMA WFStart ==
  ASSUME WellFormed, NEW p \in Procs, NEW r \in Requests,
         ApproveStart(p, r) \/ RevokeStart(p, r)
  PROVE  WellFormed'
  <1>1. /\ p \in Approvers \cup Revokers /\ Moves(p, "proxy") /\ pc[p] = "idle"
        /\ subj' = [subj EXCEPT ![p] = r]
        /\ UNCHANGED <<db, edge, lease, held, memo, faults>>
    BY DEF ApproveStart, RevokeStart, Goto, Moves
  <1>2. "proxy" \in Places(p) /\ p \notin Workers /\ subj' \in [Procs -> Requests]
    BY <1>1, ConstantsAssumption DEF Places, WellFormed, Machines
  <1>3. Machines'
    BY <1>1, <1>2, MachinesGo DEF WellFormed, Machines, edge
  <1>4. Rows'
    BY <1>1, RowsStay DEF db, edge
  <1> QED
    BY <1>1, <1>2, <1>3, <1>4, GoKeeps

LEMMA WFTakeProxy ==
  ASSUME WellFormed, NEW p \in Procs, TakeProxy(p)
  PROVE  WellFormed'
  <1>1. pc[p] = "proxy" /\ TakeKey(p, ApiOf[subj[p]]) /\ UNCHANGED <<db, edge, subj, memo>>
    BY DEF TakeProxy
  <1>2. p \in Roles /\ subj[p] \in Requests
    BY <1>1, RoleOf
  <1>3. ApiOf[subj[p]] \in Keys
    BY <1>2, KeysAre
  <1>4. CASE p \in Approvers
    <2>1. Moves(p, "admit") /\ "admit" \in Places(p)
      BY <1>4, ConstantsAssumption DEF TakeProxy, Goto, Moves, Places
    <2> QED
      BY <1>1, <1>3, <2>1, TakeKeeps
  <1>5. CASE p \in Revokers
    <2>1. Moves(p, "claim") /\ "claim" \in Places(p)
      BY <1>5, ConstantsAssumption DEF TakeProxy, Goto, Moves, Places
    <2> QED
      BY <1>1, <1>3, <2>1, TakeKeeps
  <1>6. CASE p \in Workers
    <2>1. Moves(p, "owned") /\ "owned" \in Places(p)
      BY <1>6, ConstantsAssumption DEF TakeProxy, Goto, Moves, Places
    <2> QED
      BY <1>1, <1>3, <2>1, TakeKeeps
  <1> QED
    BY <1>2, <1>4, <1>5, <1>6 DEF Roles

LEMMA WFProxyTimeout ==
  ASSUME WellFormed, NEW p \in Procs, ProxyTimeout(p)
  PROVE  WellFormed'
  <1>1. /\ pc[p] \in {"proxy", "submit"} /\ UNCHANGED <<db, edge, lease, held, subj, memo>>
        /\ Fault("refused") /\ Moves(p, IF p \in Workers THEN "resched" ELSE "done")
    BY DEF ProxyTimeout, LockTimeout, Goto, Moves
  <1>2. faults' \in 0..MaxFaults /\ UNCHANGED <<late, subj, memo>>
    BY <1>1, FaultIs DEF edge
  <1>3. fresh' \in [Procs -> BOOLEAN]
    BY <1>1, FreshStays DEF edge
  <1>4. Rows'
    BY <1>1, RowsStay DEF db, edge
  <1>5. CASE p \in Workers
    <2>1. Moves(p, "resched") /\ "resched" \in Places(p)
      BY <1>1, <1>5, ConstantsAssumption DEF Places
    <2>2. Machines'
      BY <1>1, <1>2, <1>3, <2>1, GoOn
    <2> QED
      BY <1>1, <1>4, <2>1, <2>2, GoKeeps
  <1>6. CASE p \notin Workers
    <2>1. p \in Clients \cup Approvers \cup Revokers
      BY <1>1, <1>6, RoleOf DEF Roles
    <2>2. Moves(p, "done") /\ "done" \in Places(p)
      BY <1>1, <1>6, <2>1 DEF Places
    <2>3. Machines'
      BY <1>1, <1>2, <1>3, <2>2, GoOn
    <2> QED
      BY <1>1, <1>4, <2>2, <2>3, GoKeeps
  <1> QED
    BY <1>5, <1>6

LEMMA WFEnter ==
  ASSUME WellFormed, NEW p \in Procs,
         EnterConsumer(p) \/ RollbackEnter(p) \/ RollbackLifecycle(p)
  PROVE  WellFormed'
  <1>1. UNCHANGED <<db, edge, subj, memo>> /\ consumer \in Keys /\ lifecycle \in Keys
    BY KeysAre DEF EnterConsumer, RollbackEnter, RollbackLifecycle
  <1>2. CASE EnterConsumer(p)
    <2>1. p \in Roles /\ pc[p] = "ckey" /\ TakeKey(p, consumer)
      BY <1>2, RoleOf DEF EnterConsumer
    <2>2. CASE Adding(p)
      <3>1. Moves(p, "check") /\ "check" \in Places(p)
        BY <1>2, <2>2, ConstantsAssumption DEF EnterConsumer, Goto, Moves, Places, Adding
      <3> QED
        BY <1>1, <2>1, <3>1, TakeKeeps
    <2>3. CASE ~ Adding(p)
      <3>1. Moves(p, "get") /\ "get" \in Places(p)
        BY <1>2, <2>1, <2>3, ConstantsAssumption DEF EnterConsumer, Goto, Moves, Places, Roles
      <3> QED
        BY <1>1, <2>1, <3>1, TakeKeeps
    <2> QED
      BY <2>2, <2>3
  <1>3. CASE RollbackEnter(p)
    <2>1. Moves(p, "rget") /\ "rget" \in Places(p) /\ pc[p] = "rckey" /\ TakeKey(p, consumer)
      BY <1>3, ConstantsAssumption DEF RollbackEnter, Goto, Moves, Places
    <2> QED
      BY <1>1, <2>1, TakeKeeps
  <1>4. CASE RollbackLifecycle(p)
    <2>1. /\ Moves(p, "restore") /\ "restore" \in Places(p) /\ pc[p] = "rlife"
          /\ TakeKey(p, lifecycle)
      BY <1>4, ConstantsAssumption DEF RollbackLifecycle, Goto, Moves, Places
    <2> QED
      BY <1>1, <2>1, TakeKeeps
  <1> QED
    BY <1>2, <1>3, <1>4

(* What the transactions make of the rows. *)
LEMMA JobRowIs ==
  ASSUME WellFormed, NEW k \in Kinds, NEW r \in Requests, NEW row \in JobRows
  PROVE  [job EXCEPT ![k][r] = row] \in [Kinds -> [Requests -> JobRows]]
  BY DEF WellFormed, Rows

LEMMA RowsOf ==
  ASSUME NEW p \in Procs
  PROVE  /\ NoJob \in JobRows /\ [st |-> "sending", gen |-> p] \in JobRows
         /\ [st |-> "pending", gen |-> p] \in JobRows
         /\ [st |-> "active", by |-> NoProc] \in GrantRows
         /\ [st |-> "revoked", by |-> p] \in GrantRows
         /\ "approve" \in Kinds /\ "revoke" \in Kinds
  BY DEF NoJob, JobRows, GrantRows, Kinds

LEMMA ClaimApprovalRows ==
  ASSUME WellFormed, NEW p \in Procs, ClaimApproval(p), UNCHANGED <<grant, status, acl>>
  PROVE  Rows'
  <1>1. job' \in [Kinds -> [Requests -> JobRows]]
    BY JobRowIs, RowsOf, RoleOf DEF ClaimApproval
  <1>2. req' \in [Requests -> ReqStatus]
    BY DEF ClaimApproval, WellFormed, Rows, ReqStatus
  <1> QED
    BY <1>1, <1>2 DEF WellFormed, Rows

LEMMA ClaimRevocationRows ==
  ASSUME WellFormed, NEW p \in Procs, ClaimRevocation(p), UNCHANGED <<status, acl>>
  PROVE  Rows'
  <1>1. job' \in [Kinds -> [Requests -> JobRows]]
    BY JobRowIs, RowsOf, RoleOf DEF ClaimRevocation
  <1>2. req' \in [Requests -> ReqStatus]
    BY DEF ClaimRevocation, ClaimGrant, WellFormed, Rows, ReqStatus
  <1>3. grant' \in [Requests -> GrantRows]
    BY RowsOf DEF ClaimRevocation, ClaimGrant, WellFormed, Rows
  <1> QED
    BY <1>1, <1>2, <1>3 DEF WellFormed, Rows

LEMMA CreateGrantRows ==
  ASSUME WellFormed, NEW p \in Procs, CreateGrant(p), UNCHANGED <<req, status, acl>>
  PROVE  Rows'
  <1>1. job' \in [Kinds -> [Requests -> JobRows]]
    BY JobRowIs, RowsOf, RoleOf DEF CreateGrant
  <1>2. grant' \in [Requests -> GrantRows]
    BY RowsOf DEF CreateGrant, WellFormed, Rows
  <1> QED
    BY <1>1, <1>2 DEF WellFormed, Rows

LEMMA RestoreRevokedRows ==
  ASSUME WellFormed, NEW p \in Procs, RestoreRevoked(p), UNCHANGED <<status, acl>>
  PROVE  Rows'
  <1>1. CASE RestoreOwed(p)
    <2>1. job' \in [Kinds -> [Requests -> JobRows]]
      <3>1. job' = [job EXCEPT !["revoke"][subj[p]] = NoJob]
        BY <1>1 DEF RestoreRevoked
      <3> QED
        BY <3>1, JobRowIs, RowsOf, RoleOf
    <2>2. req' \in [Requests -> ReqStatus]
      BY <1>1 DEF RestoreRevoked, WellFormed, Rows, ReqStatus
    <2>3. grant' \in [Requests -> GrantRows]
      BY <1>1, RowsOf DEF RestoreRevoked, WellFormed, Rows
    <2> QED
      BY <2>1, <2>2, <2>3 DEF WellFormed, Rows
  <1>2. CASE ~ RestoreOwed(p)
    BY <1>2, RowsStay DEF RestoreRevoked
  <1> QED
    BY <1>1, <1>2

LEMMA CompleteJobRows ==
  ASSUME WellFormed, NEW p \in Workers, p \in Procs, pc[p] # "idle", CompleteJob(p),
         UNCHANGED <<grant, status, acl>>
  PROVE  Rows'
  <1>1. memo[p].kind \in Kinds /\ subj[p] \in Requests
    BY RoleOf
  <1>2. job' \in [Kinds -> [Requests -> JobRows]]
    BY <1>1, JobRowIs, RowsOf DEF CompleteJob
  <1>3. RecoveredStatus(p) \in ReqStatus
    BY <1>1 DEF RecoveredStatus, ReqStatus, WellFormed, Rows
  <1>4. req' \in [Requests -> ReqStatus]
    BY <1>3 DEF CompleteJob, WellFormed, Rows
  <1> QED
    BY <1>2, <1>4 DEF WellFormed, Rows

LEMMA WFAdmit ==
  ASSUME WellFormed, NEW p \in Procs, ApproveAdmit(p) \/ ApproveRefused(p)
  PROVE  WellFormed'
  <1>1. UNCHANGED <<db, acl, late, subj, faults>> /\ p \in Approvers /\ pc[p] = "admit"
    BY DEF ApproveAdmit, ApproveRefused, edge
  <1>2. Rows' /\ faults' \in 0..MaxFaults
    BY <1>1, RowsStay, FaultsStay DEF db
  <1>3. CASE ApproveAdmit(p)
    <2>1. /\ Moves(p, "claim") /\ "claim" \in Places(p) /\ memo' = memo
          /\ UNCHANGED <<lease, held, fresh>>
      BY <1>1, <1>3, ConstantsAssumption DEF ApproveAdmit, Goto, Moves, Places, edge
    <2>2. Machines'
      BY <1>1, <1>2, <2>1, FreshStays, GoOn
    <2> QED
      BY <1>1, <1>2, <2>1, <2>2, GoKeeps
  <1>4. CASE ApproveRefused(p)
    BY <1>1, <1>2, <1>4, FinishKeeps DEF ApproveRefused
  <1> QED
    BY <1>3, <1>4

LEMMA WFClaim ==
  ASSUME WellFormed, NEW p \in Procs, ApproveClaim(p) \/ RevokeClaim(p)
  PROVE  WellFormed'
  <1>1. /\ p \in Approvers \cup Revokers /\ pc[p] = "claim" /\ Moves(p, "ckey")
        /\ UNCHANGED <<status, edge, lease, held, subj, memo, faults>>
    BY DEF ApproveClaim, RevokeClaim, Goto, Moves
  <1>2. "ckey" \in Places(p)
    BY <1>1, ConstantsAssumption DEF Places
  <1>3. Rows'
    BY <1>1, ClaimApprovalRows, ClaimRevocationRows DEF ApproveClaim, RevokeClaim, edge
  <1>4. Machines'
    BY <1>1, <1>2, FreshStays, FaultsStay, GoOn DEF edge
  <1> QED
    BY <1>1, <1>2, <1>3, <1>4, GoKeeps

LEMMA WFClaimFails ==
  ASSUME WellFormed, NEW p \in Procs, ApproveClaimFails(p) \/ RevokeClaimFails(p)
  PROVE  WellFormed'
  <1>1. Finish(p) /\ UNCHANGED <<status, acl, late, subj>>
    BY DEF ApproveClaimFails, RevokeClaimFails
  <1>2. faults' \in 0..MaxFaults
    BY FaultIs, FaultsStay DEF ApproveClaimFails, RevokeClaimFails
  <1>3. \/ UNCHANGED <<req, grant, job>>
        \/ ClaimApproval(p) /\ UNCHANGED grant
        \/ ClaimRevocation(p)
    BY DEF ApproveClaimFails, RevokeClaimFails
  <1>4. Rows'
    BY <1>1, <1>3, RowsStay, ClaimApprovalRows, ClaimRevocationRows
  <1> QED
    BY <1>1, <1>2, <1>4, FinishKeeps

LEMMA WFConsumerTimeout ==
  ASSUME WellFormed, NEW p \in Procs, ConsumerTimeout(p)
  PROVE  WellFormed'
  <1>1. /\ p \in Roles /\ pc[p] # "idle" /\ SectionFails(p) /\ UNCHANGED <<db, edge, subj>>
        /\ faults' \in 0..MaxFaults
    BY RoleOf, FaultIs DEF ConsumerTimeout, LockTimeout
  <1>2. Leases' /\ Machines'
    BY <1>1, SectionFailsIs DEF edge, WellFormed, Machines
  <1> QED
    BY <1>1, <1>2, RowsStay DEF WellFormed, db, edge

LEMMA WFCheckActive ==
  ASSUME WellFormed, NEW p \in Procs, CheckActive(p)
  PROVE  WellFormed'
  <1>1. p \in Approvers /\ pc[p] = "check" /\ UNCHANGED <<db, edge, subj, faults>>
    BY DEF CheckActive
  <1>2. "get" \in Places(p) /\ "live" \in Places(p)
    BY <1>1, ConstantsAssumption DEF Places
  <1>3. Rows' /\ faults' \in 0..MaxFaults /\ fresh' \in [Procs -> BOOLEAN]
    BY <1>1, RowsStay, FaultsStay, FreshStays DEF db, edge
  <1>4. CASE Goto(p, "get") /\ UNCHANGED <<lease, held, memo>>
    <2>1. Moves(p, "get")
      BY <1>4 DEF Goto, Moves
    <2>2. Machines'
      BY <1>1, <1>2, <1>3, <1>4, <2>1, GoOn DEF edge
    <2> QED
      BY <1>1, <1>2, <1>3, <1>4, <2>1, <2>2, GoKeeps
  <1>5. CASE LeaveConsumer(p, "live") /\ Recall(p, [memo[p] EXCEPT !.added = FALSE])
    <2> DEFINE m == [memo[p] EXCEPT !.added = FALSE]
    <2>1. /\ Moves(p, "live") /\ Release(p, {consumer}) /\ memo' = [memo EXCEPT ![p] = m]
          /\ memo[p] \in MemoRecords
      BY <1>5, RoleOf DEF LeaveConsumer, Goto, Moves, Recall
    <2>2. m \in MemoRecords /\ m.kind = memo[p].kind
      BY <2>1, MemoAdded
    <2> HIDE DEF m
    <2>3. Machines'
      BY <1>1, <1>2, <1>3, <2>1, <2>2, GoKnowing DEF edge
    <2> QED
      BY <1>2, <1>3, <2>1, <2>3, LeaveKeeps
  <1> QED
    BY <1>4, <1>5 DEF CheckActive

LEMMA WFGet ==
  ASSUME WellFormed, NEW p \in Procs, Get(p)
  PROVE  WellFormed'
  <1>1. p \in Roles /\ pc[p] = "get" /\ UNCHANGED <<db, acl, late, subj>>
    BY RoleOf DEF Get
  <1>2. Rows'
    BY <1>1, RowsStay DEF db
  <1>3. CASE fresh' = [fresh EXCEPT ![p] = TRUE] /\ Goto(p, "guard")
             /\ UNCHANGED <<lease, held, memo, faults>>
    <2>1. /\ Moves(p, "guard") /\ "guard" \in Places(p) /\ faults' \in 0..MaxFaults
          /\ fresh' \in [Procs -> BOOLEAN]
      BY <1>1, <1>3, FaultsStay, ConstantsAssumption
         DEF Goto, Moves, Places, Roles, WellFormed, Machines
    <2>2. Machines'
      BY <1>1, <1>3, <2>1, GoOn
    <2> QED
      BY <1>1, <1>2, <1>3, <2>1, <2>2, GoKeeps
  <1>4. CASE Fault("refused") /\ SectionFails(p) /\ UNCHANGED fresh
    <2>1. Leases' /\ Machines'
      BY <1>1, <1>4, FaultIs, SectionFailsIs DEF WellFormed, Machines
    <2> QED
      BY <1>2, <2>1 DEF WellFormed
  <1> QED
    BY <1>3, <1>4 DEF Get

LEMMA WFGuardApproval ==
  ASSUME WellFormed, NEW p \in Procs, GuardApproval(p)
  PROVE  WellFormed'
  <1>1. p \in Approvers /\ pc[p] = "guard" /\ UNCHANGED <<db, acl, late, subj, faults>>
    BY DEF GuardApproval, Adding
  <1>2. Rows' /\ faults' \in 0..MaxFaults
    BY <1>1, RowsStay, FaultsStay DEF db
  <1>3. "resched" \in Places(p) /\ "put" \in Places(p)
    BY <1>1, ConstantsAssumption DEF Places
  <1>4. CASE Finish(p)
    BY <1>1, <1>2, <1>4, FinishKeeps
  <1>5. CASE LeaveConsumer(p, "resched") /\ UNCHANGED <<memo, fresh>>
    <2>1. Moves(p, "resched") /\ Release(p, {consumer})
      BY <1>5 DEF LeaveConsumer, Goto, Moves
    <2>2. Machines'
      BY <1>1, <1>2, <1>3, <1>5, <2>1, FreshStays, GoOn
    <2> QED
      BY <1>2, <1>3, <2>1, <2>2, LeaveKeeps
  <1>6. CASE Goto(p, "put") /\ UNCHANGED <<lease, held, memo, fresh>>
    <2>1. Moves(p, "put")
      BY <1>6 DEF Goto, Moves
    <2>2. Machines'
      BY <1>1, <1>2, <1>3, <1>6, <2>1, FreshStays, GoOn
    <2> QED
      BY <1>1, <1>2, <1>3, <1>6, <2>1, <2>2, GoKeeps
  <1> QED
    BY <1>4, <1>5, <1>6 DEF GuardApproval

LEMMA WFGuardUnwind ==
  ASSUME WellFormed, NEW p \in Procs, GuardUnwind(p)
  PROVE  WellFormed'
  <1>1. p \in Approvers /\ pc[p] = "guard" /\ UNCHANGED <<db, edge, subj, memo, faults>>
    BY DEF GuardUnwind
  <1>2. Rows' /\ faults' \in 0..MaxFaults /\ fresh' \in [Procs -> BOOLEAN]
    BY <1>1, RowsStay, FaultsStay, FreshStays DEF db, edge
  <1>3. "resched" \in Places(p) /\ "put" \in Places(p) /\ "drop" \in Places(p)
    BY <1>1, ConstantsAssumption DEF Places
  <1>4. CASE Goto(p, "put") /\ UNCHANGED <<lease, held>>
    <2>1. Moves(p, "put")
      BY <1>4 DEF Goto, Moves
    <2>2. Machines'
      BY <1>1, <1>2, <1>3, <2>1, GoOn DEF edge
    <2> QED
      BY <1>1, <1>2, <1>3, <1>4, <2>1, <2>2, GoKeeps
  <1>5. ASSUME NEW x \in {"drop", "resched"}, LeaveConsumer(p, x)
        PROVE  WellFormed'
    <2>1. Moves(p, x) /\ Release(p, {consumer}) /\ x \in Places(p)
      BY <1>3, <1>5 DEF LeaveConsumer, Goto, Moves
    <2>2. Machines'
      BY <1>1, <1>2, <1>5, <2>1, GoOn DEF edge
    <2> QED
      BY <1>2, <1>5, <2>1, <2>2, LeaveKeeps
  <1> QED
    BY <1>4, <1>5 DEF GuardUnwind

LEMMA WFGuardRevocation ==
  ASSUME WellFormed, NEW p \in Procs, GuardRevocation(p)
  PROVE  WellFormed'
  <1>1. /\ p \in Revokers \cup Workers /\ pc[p] = "guard"
        /\ UNCHANGED <<db, acl, late, subj, faults>>
    BY DEF GuardRevocation
  <1>2. Rows' /\ faults' \in 0..MaxFaults
    BY <1>1, RowsStay, FaultsStay DEF db
  <1>3. "drop" \in Places(p) /\ "put" \in Places(p)
    BY <1>1, ConstantsAssumption DEF Places
  <1>4. CASE Finish(p)
    BY <1>1, <1>2, <1>4, FinishKeeps
  <1>5. CASE LeaveConsumer(p, "drop") /\ UNCHANGED <<memo, fresh>>
    <2>1. Moves(p, "drop") /\ Release(p, {consumer})
      BY <1>5 DEF LeaveConsumer, Goto, Moves
    <2>2. Machines'
      BY <1>1, <1>2, <1>3, <1>5, <2>1, FreshStays, GoOn
    <2> QED
      BY <1>2, <1>3, <2>1, <2>2, LeaveKeeps
  <1>6. CASE Goto(p, "put") /\ UNCHANGED <<lease, held, memo, fresh>>
    <2>1. Moves(p, "put")
      BY <1>6 DEF Goto, Moves
    <2>2. Machines'
      BY <1>1, <1>2, <1>3, <1>6, <2>1, FreshStays, GoOn
    <2> QED
      BY <1>1, <1>2, <1>3, <1>6, <2>1, <2>2, GoKeeps
  <1> QED
    BY <1>4, <1>5, <1>6 DEF GuardRevocation

LEMMA ActiveAre == \A a : ActiveOn(a) \in SUBSET Requests
  BY DEF ActiveOn

LEMMA WFGuardReconcile ==
  ASSUME WellFormed, NEW p \in Procs, GuardReconcile(p)
  PROVE  WellFormed'
  <1>1. /\ p \in Workers /\ pc[p] = "guard" /\ Moves(p, "put")
        /\ UNCHANGED <<db, edge, lease, held, subj, faults>>
    BY DEF GuardReconcile, Goto, Moves
  <1>2. Rows' /\ faults' \in 0..MaxFaults
    BY <1>1, RowsStay, FaultsStay DEF db, edge
  <1>3. "put" \in Places(p)
    BY <1>1, ConstantsAssumption DEF Places
  <1> DEFINE L == ActiveOn(Api(p))
             b == status = "active"
             m == [memo[p] EXCEPT !.live = L, !.on = b]
  <1>4. memo' = [memo EXCEPT ![p] = m]
    BY DEF GuardReconcile, Recall
  <1>5. L \in SUBSET Requests /\ b \in BOOLEAN /\ memo[p] \in MemoRecords
    BY ActiveAre, RoleOf
  <1> HIDE DEF L, b
  <1>6. m \in MemoRecords /\ m.kind = memo[p].kind
    <2>1. m \in MemoRecords
      BY <1>5, MemoLive
    <2>2. m.kind = memo[p].kind
      BY <1>5 DEF MemoRecords
    <2> HIDE DEF m
    <2> QED
      BY <2>1, <2>2
  <1> HIDE DEF m
  <1>7. Machines'
    BY <1>1, <1>2, <1>3, <1>4, <1>6, GoKnowing DEF edge
  <1> QED
    BY <1>1, <1>2, <1>3, <1>7, GoKeeps

(* The three writes of the consumer. *)
LEMMA WFPut ==
  ASSUME WellFormed, NEW p \in Roles, p \in Procs, pc[p] = "put", UNCHANGED <<db, subj>>,
         NEW x \in Places(p), x \notin {"idle", "done", "crashed", "submit", "proxy", "owned"},
         acl' \in SUBSET Apis, fresh' \in [Procs -> BOOLEAN],
         late' \in [Procs -> SUBSET (SUBSET Apis)], faults' \in 0..MaxFaults,
         \/ Moves(p, x) /\ memo' = memo /\ UNCHANGED <<lease, held>>
         \/ Moves(p, x) /\ memo' = memo /\ Release(p, {consumer})
         \/ SectionFails(p)
  PROVE  WellFormed'
  <1>1. Rows'
    BY DEF WellFormed, Rows, db
  <1>2. CASE Moves(p, x) /\ memo' = memo
    <2>1. subj' \in [Procs -> Requests]
      BY DEF WellFormed, Machines
    <2>2. Machines'
      BY <1>2, <2>1, MachinesGo
    <2>3. CASE UNCHANGED <<lease, held>>
      BY <1>1, <1>2, <2>2, <2>3, GoKeeps
    <2>4. CASE Release(p, {consumer})
      BY <1>1, <1>2, <2>2, <2>4, LeaveKeeps
    <2>5. CASE SectionFails(p)
      <3>1. Release(p, {consumer})
        BY <2>5 DEF SectionFails, LeaveConsumer
      <3> QED
        BY <3>1, <2>4
    <2> QED
      BY <2>3, <2>4, <2>5
  <1>3. CASE SectionFails(p)
    BY <1>1, <1>3, SectionFailsIs DEF WellFormed
  <1> QED
    BY <1>2, <1>3

LEMMA WFPutGroup ==
  ASSUME WellFormed, NEW p \in Procs, PutGroup(p)
  PROVE  /\ WellFormed' /\ Written(p, acl \cup {Api(p)}) /\ p \in Approvers
         /\ (Moves(p, "grant") /\ memo' = memo /\ EdgeWrite(acl \cup {Api(p)})) \/ SectionFails(p)
  <1>1. p \in Approvers /\ pc[p] = "put" /\ UNCHANGED <<db, subj>> /\ p \in Roles
    BY DEF PutGroup, Adding, Roles
  <1>2. "grant" \in Places(p) /\ acl \cup {Api(p)} \in SUBSET Apis
    BY <1>1, KeysAre, RoleOf, ConstantsAssumption DEF Places, Api, WellFormed, Rows
  <1>3. faults' \in 0..MaxFaults
    BY FaultIs, FaultsStay DEF PutGroup, Put
  <1>4. Written(p, acl \cup {Api(p)})
    BY DEF PutGroup, Put, Written
  <1>5. \/ /\ Moves(p, "grant") /\ memo' = memo /\ UNCHANGED <<lease, held>>
           /\ EdgeWrite(acl \cup {Api(p)})
        \/ SectionFails(p)
    BY DEF PutGroup, Put, Goto, Moves
  <1>6. WellFormed'
    BY <1>1, <1>2, <1>3, <1>4, <1>5, WrittenIs, WFPut
  <1> QED
    BY <1>1, <1>4, <1>5, <1>6

(* Where a process goes once its group is off. *)
Landed(p) ==
    CASE p \in Approvers -> "settle"
      [] p \in Revokers -> "drop"
      [] p \in Workers -> "complete"

LEMMA LandedIs ==
  ASSUME NEW p \in Roles
  PROVE  /\ Landed(p) \in Places(p) /\ Landed(p) \in {"settle", "drop", "complete"}
         /\ p \in Approvers => Landed(p) = "settle"
         /\ p \in Revokers => Landed(p) = "drop"
         /\ p \in Workers => Landed(p) = "complete"
  BY ConstantsAssumption DEF Landed, Roles, Places

LEMMA WFTakeOffGroup ==
  ASSUME WellFormed, NEW p \in Procs, TakeOffGroup(p)
  PROVE  /\ WellFormed' /\ Written(p, acl \ {Api(p)}) /\ p \in Roles
         /\ \/ Moves(p, Landed(p)) /\ memo' = memo /\ EdgeWrite(acl \ {Api(p)})
            \/ SectionFails(p)
  <1>1. p \in Roles /\ pc[p] = "put" /\ UNCHANGED <<db, subj>>
    BY DEF TakeOffGroup, Roles
  <1>2. /\ Landed(p) \in Places(p) /\ acl \ {Api(p)} \in SUBSET Apis
        /\ Landed(p) \notin {"idle", "done", "crashed", "submit", "proxy", "owned"}
    BY <1>1, LandedIs DEF WellFormed, Rows
  <1>3. faults' \in 0..MaxFaults
    BY FaultIs, FaultsStay DEF TakeOffGroup, Put
  <1>4. Written(p, acl \ {Api(p)})
    BY DEF TakeOffGroup, Put, Written
  <1>5. \/ /\ Moves(p, Landed(p)) /\ memo' = memo /\ Release(p, {consumer})
           /\ EdgeWrite(acl \ {Api(p)})
        \/ SectionFails(p)
    BY DEF TakeOffGroup, Put, Goto, Moves, LeaveConsumer, Landed
  <1>6. WellFormed'
    BY <1>1, <1>2, <1>3, <1>4, <1>5, WrittenIs, WFPut
  <1> QED
    BY <1>1, <1>4, <1>5, <1>6

(* What a recovery writes. *)
Groups(p) ==
    CASE memo[p].live = {} -> acl \ {Api(p)}
      [] memo[p].live # {} /\ memo[p].on -> acl \cup {Api(p)}
      [] memo[p].live # {} /\ ~ memo[p].on -> acl

LEMMA GroupsAre ==
  ASSUME WellFormed, NEW p \in Procs
  PROVE  /\ Groups(p) \in SUBSET Apis
         /\ memo[p].live = {} => Groups(p) = acl \ {Api(p)}
         /\ \A a \in Groups(p) : a \in acl \/ a = Api(p)
  <1>1. /\ memo[p].on \in BOOLEAN /\ acl \in SUBSET Apis /\ Api(p) \in Apis
    BY KeysAre, RoleOf DEF Api, WellFormed, Rows, MemoRecords
  <1>2. CASE memo[p].live = {}
    BY <1>1, <1>2 DEF Groups
  <1>3. CASE memo[p].live # {} /\ memo[p].on
    BY <1>1, <1>3 DEF Groups
  <1>4. CASE memo[p].live # {} /\ ~ memo[p].on
    BY <1>1, <1>4 DEF Groups
  <1> QED
    BY <1>2, <1>3, <1>4

LEMMA WFPutReconciled ==
  ASSUME WellFormed, NEW p \in Procs, PutReconciled(p)
  PROVE  /\ WellFormed' /\ Written(p, Groups(p)) /\ p \in Workers
         /\ \/ Moves(p, "complete") /\ memo' = memo /\ EdgeWrite(Groups(p)) /\ fresh[p]
            \/ SectionFails(p)
  <1>1. p \in Roles /\ p \in Workers /\ pc[p] = "put" /\ UNCHANGED <<db, subj>>
    BY DEF PutReconciled, Roles
  <1>2. "complete" \in Places(p)
    BY <1>1, ConstantsAssumption DEF Places
  <1>3. faults' \in 0..MaxFaults
    BY FaultIs, FaultsStay DEF PutReconciled, Put
  <1>4. Written(p, Groups(p))
    BY DEF PutReconciled, Put, Written, Groups
  <1>5. \/ /\ Moves(p, "complete") /\ memo' = memo /\ Release(p, {consumer})
           /\ EdgeWrite(Groups(p)) /\ fresh[p]
        \/ SectionFails(p)
    BY DEF PutReconciled, Put, Goto, Moves, LeaveConsumer, Groups
  <1>6. WellFormed'
    BY <1>1, <1>2, <1>3, <1>4, <1>5, GroupsAre, WrittenIs, WFPut
  <1> QED
    BY <1>1, <1>4, <1>5, <1>6

LEMMA WFGrant ==
  ASSUME WellFormed, NEW p \in Procs, GrantCommit(p) \/ GrantFails(p)
  PROVE  WellFormed'
  <1>1. /\ p \in Approvers /\ pc[p] = "grant" /\ UNCHANGED <<req, status, acl, late, subj>>
        /\ UNCHANGED <<grant, job>> \/ CreateGrant(p)
    BY DEF GrantCommit, GrantFails, edge
  <1>2. Rows'
    BY <1>1, RowsStay, CreateGrantRows
  <1>3. faults' \in 0..MaxFaults
    BY FaultIs, FaultsStay DEF GrantCommit, GrantFails
  <1>4. CASE GrantCommit(p)
    BY <1>1, <1>2, <1>3, <1>4, FinishKeeps DEF GrantCommit
  <1>5. CASE GrantFails(p)
    <2>1. /\ Moves(p, "live") /\ Release(p, {consumer}) /\ "live" \in Places(p)
          /\ UNCHANGED <<memo, fresh>>
      BY <1>1, <1>5, ConstantsAssumption
         DEF GrantFails, LeaveConsumer, Goto, Moves, Places, edge
    <2>2. Machines'
      BY <1>1, <1>3, <2>1, FreshStays, GoOn
    <2> QED
      BY <1>2, <2>1, <2>2, LeaveKeeps
  <1> QED
    BY <1>4, <1>5

LEMMA WFUnwindApproval ==
  ASSUME WellFormed, NEW p \in Procs, UnwindApproval(p)
  PROVE  WellFormed'
  <1>1. p \in Approvers /\ pc[p] = "live" /\ UNCHANGED <<db, edge, lease, held, subj>>
    BY DEF UnwindApproval
  <1>2. Rows' /\ faults' \in 0..MaxFaults /\ fresh' \in [Procs -> BOOLEAN]
    <2>1. faults' \in 0..MaxFaults
      BY FaultIs, FaultsStay DEF UnwindApproval
    <2> QED
      BY <1>1, <2>1, RowsStay, FreshStays DEF db, edge
  <1>3. /\ "drop" \in Places(p) /\ "resched" \in Places(p) /\ "ckey" \in Places(p)
        /\ "settle" \in Places(p)
    BY <1>1, ConstantsAssumption DEF Places
  <1>4. ASSUME NEW x \in {"drop", "resched"}, Goto(p, x), memo' = memo
        PROVE  WellFormed'
    <2>1. Moves(p, x) /\ x \in Places(p)
      BY <1>3, <1>4 DEF Goto, Moves
    <2>2. Machines'
      BY <1>1, <1>2, <1>4, <2>1, GoOn DEF edge
    <2> QED
      BY <1>1, <1>2, <1>4, <2>1, <2>2, GoKeeps
  <1>5. CASE /\ Goto(p, IF memo[p].added THEN "ckey" ELSE "settle")
             /\ Recall(p, [memo[p] EXCEPT !.undo = memo[p].added])
    <2> DEFINE b == memo[p].added
               m == [memo[p] EXCEPT !.undo = b]
               x == IF b THEN "ckey" ELSE "settle"
    <2>1. b \in BOOLEAN /\ memo[p] \in MemoRecords /\ x \in {"ckey", "settle"}
      BY RoleOf DEF MemoRecords
    <2>2. Moves(p, x) /\ memo' = [memo EXCEPT ![p] = m]
      BY <1>5 DEF Goto, Moves, Recall
    <2> HIDE DEF b, x
    <2>3. m \in MemoRecords /\ m.kind = memo[p].kind
      BY <2>1, MemoUndo
    <2> HIDE DEF m
    <2>4. Machines'
      BY <1>1, <1>2, <1>3, <2>1, <2>2, <2>3, GoKnowing DEF edge
    <2> QED
      BY <1>1, <1>2, <1>3, <2>1, <2>2, <2>4, GoKeeps
  <1> QED
    BY <1>4, <1>5 DEF UnwindApproval

LEMMA WFSettleRequest ==
  ASSUME WellFormed, NEW p \in Procs, SettleRequest(p)
  PROVE  WellFormed'
  <1>1. /\ p \in Approvers /\ pc[p] = "settle"
        /\ UNCHANGED <<grant, job, status, edge, lease, held, subj, memo>>
    BY DEF SettleRequest
  <1>2. req' = req \/ req' = [req EXCEPT ![subj[p]] = "pending"]
    BY DEF SettleRequest
  <1>3. Rows'
    BY <1>1, <1>2 DEF WellFormed, Rows, ReqStatus, edge
  <1>4. faults' \in 0..MaxFaults /\ fresh' \in [Procs -> BOOLEAN]
    <2>1. faults' \in 0..MaxFaults
      BY FaultIs, FaultsStay DEF SettleRequest
    <2> QED
      BY <1>1, <2>1, FreshStays DEF edge
  <1>5. Moves(p, "drop") \/ Moves(p, "resched")
    BY DEF SettleRequest, Goto, Moves
  <1>6. "drop" \in Places(p) /\ "resched" \in Places(p)
    BY <1>1, ConstantsAssumption DEF Places
  <1>7. Machines'
    BY <1>1, <1>4, <1>5, <1>6, GoOn DEF edge
  <1> QED
    BY <1>1, <1>3, <1>5, <1>6, <1>7, GoKeeps

(* The job row a process leaves behind. *)
LEMMA JobKindIs ==
  ASSUME WellFormed, NEW p \in Procs
  PROVE  /\ p \in Approvers => JobKind(p) = "approve"
         /\ p \in Revokers => JobKind(p) = "revoke"
         /\ p \in Workers => JobKind(p) = memo[p].kind
         /\ p \in Roles /\ pc[p] # "idle" => JobKind(p) \in Kinds
  <1>1. p \in Workers /\ pc[p] # "idle" => memo[p].kind \in Kinds
    BY RoleOf
  <1> QED
    BY <1>1, ConstantsAssumption DEF JobKind, Kinds, Roles

LEMMA WFSettleJob ==
  ASSUME WellFormed, NEW p \in Procs, SettleJob(p)
  PROVE  WellFormed'
  <1>1. /\ p \in Roles /\ pc[p] \in {"drop", "resched"} /\ Finish(p)
        /\ UNCHANGED <<req, grant, status, acl, late, subj>>
    BY RoleOf DEF SettleJob
  <1>2. faults' \in 0..MaxFaults
    BY FaultIs, FaultsStay DEF SettleJob
  <1>3. \/ job' = job
        \/ job' = [job EXCEPT ![JobKind(p)][subj[p]] = NoJob]
        \/ job' = [job EXCEPT ![JobKind(p)][subj[p]] = [st |-> "pending", gen |-> p]]
    BY DEF SettleJob
  <1>4. JobKind(p) \in Kinds /\ subj[p] \in Requests
    BY <1>1, JobKindIs, RoleOf
  <1>5. job' \in [Kinds -> [Requests -> JobRows]]
    <2>1. CASE job' = job
      BY <2>1 DEF WellFormed, Rows
    <2>2. CASE job' = [job EXCEPT ![JobKind(p)][subj[p]] = NoJob]
      BY <1>4, <2>2, JobRowIs, RowsOf
    <2>3. CASE job' = [job EXCEPT ![JobKind(p)][subj[p]] = [st |-> "pending", gen |-> p]]
      BY <1>4, <2>3, JobRowIs, RowsOf
    <2> QED
      BY <1>3, <2>1, <2>2, <2>3
  <1>6. Rows'
    BY <1>1, <1>5 DEF WellFormed, Rows
  <1> QED
    BY <1>1, <1>2, <1>6, FinishKeeps

LEMMA WFRollbackGet ==
  ASSUME WellFormed, NEW p \in Procs, RollbackGet(p)
  PROVE  WellFormed'
  <1>1. /\ p \in Revokers /\ pc[p] = "rget" /\ Moves(p, "rlife")
        /\ UNCHANGED <<db, edge, lease, held, subj>>
    BY DEF RollbackGet, Goto, Moves
  <1>2. Rows' /\ faults' \in 0..MaxFaults
    <2>1. faults' \in 0..MaxFaults
      BY FaultIs, FaultsStay DEF RollbackGet
    <2> QED
      BY <1>1, <2>1, RowsStay DEF db, edge
  <1>3. "rlife" \in Places(p)
    BY <1>1, ConstantsAssumption DEF Places
  <1>4. ASSUME NEW b \in BOOLEAN, Recall(p, [memo[p] EXCEPT !.on = b])
        PROVE  WellFormed'
    <2> DEFINE m == [memo[p] EXCEPT !.on = b]
    <2>1. memo' = [memo EXCEPT ![p] = m] /\ memo[p] \in MemoRecords
      BY <1>4, RoleOf DEF Recall
    <2>2. m \in MemoRecords
      BY <2>1, MemoOn
    <2>3. m.kind = memo[p].kind
      BY <2>1 DEF MemoRecords
    <2> HIDE DEF m
    <2>4. Machines'
      BY <1>1, <1>2, <1>3, <2>1, <2>2, <2>3, GoKnowing DEF edge
    <2> QED
      BY <1>1, <1>2, <1>3, <2>4, GoKeeps
  <1>5. (Api(p) \in acl) \in BOOLEAN
    OBVIOUS
  <1> QED
    BY <1>4, <1>5 DEF RollbackGet

(* The two ways a failed rollback goes on. *)
LEMMA RetryKeeps ==
  ASSUME WellFormed, NEW p \in Revokers, p \in Procs,
         pc[p] \in {"rckey", "rlife", "restore"},
         RestoreAlone(p) \/ ResumeUnderFreshProxy(p), UNCHANGED <<edge, subj>>,
         faults' \in 0..MaxFaults, Rows'
  PROVE  /\ WellFormed' /\ Elsewhere(p) /\ pc'[p] \in {"rckey", "resched"}
  <1>1. memo[p] \in MemoRecords
    BY RoleOf
  <1>2. PICK x \in {"rckey", "resched"}, keys \in {held[p], {consumer, lifecycle}} :
          Moves(p, x) /\ Release(p, keys)
    BY DEF RestoreAlone, ResumeUnderFreshProxy, Goto, Moves
  <1>3. x \in Places(p)
    BY ConstantsAssumption DEF Places
  <1>4. PICK m \in MemoRecords :
          memo' = [memo EXCEPT ![p] = m] /\ m.kind = memo[p].kind
    <2>1. CASE RestoreAlone(p)
      <3> DEFINE n == [memo[p] EXCEPT !.ok = FALSE]
      <3>1. memo' = [memo EXCEPT ![p] = n] /\ n \in MemoRecords
        BY <1>1, <2>1, MemoOk DEF RestoreAlone, Recall
      <3>2. n.kind = memo[p].kind
        BY <1>1 DEF MemoRecords
      <3> HIDE DEF n
      <3> QED
        BY <3>1, <3>2
    <2>2. CASE ResumeUnderFreshProxy(p)
      <3> DEFINE n == [memo[p] EXCEPT !.undo = TRUE]
      <3>1. memo' = [memo EXCEPT ![p] = n] /\ n \in MemoRecords
        BY <1>1, <2>2, MemoUndo DEF ResumeUnderFreshProxy, Recall
      <3>2. n.kind = memo[p].kind
        BY <1>1 DEF MemoRecords
      <3> HIDE DEF n
      <3> QED
        BY <3>1, <3>2
    <2> QED
      BY <2>1, <2>2
  <1>6. Machines'
    BY <1>2, <1>3, <1>4, GoKnowing DEF edge
  <1>7. WellFormed'
    BY <1>2, <1>3, <1>6, LeaveKeeps
  <1> QED
    BY <1>2, <1>4, <1>7 DEF Elsewhere, Moves, WellFormed, Machines

LEMMA WFRollbackTimeout ==
  ASSUME WellFormed, NEW p \in Procs, RollbackTimeout(p)
  PROVE  WellFormed'
  <1>1. /\ p \in Revokers /\ pc[p] \in {"rckey", "rlife", "restore"} /\ RestoreAlone(p)
        /\ UNCHANGED <<edge, subj, db>> /\ Fault("refused")
    BY DEF RollbackTimeout, LockTimeout
  <1>2. Rows' /\ faults' \in 0..MaxFaults
    BY <1>1, RowsStay, FaultIs DEF db, edge
  <1> QED
    BY <1>1, <1>2, RetryKeeps

LEMMA WFRestore ==
  ASSUME WellFormed, NEW p \in Procs, RestoreCommit(p) \/ RestoreFails(p)
  PROVE  WellFormed'
  <1>1. /\ p \in Revokers /\ pc[p] = "restore" /\ UNCHANGED <<status, edge, subj>>
        /\ UNCHANGED <<req, grant, job>> \/ RestoreRevoked(p)
    BY DEF RestoreCommit, RestoreFails
  <1>2. Rows'
    BY <1>1, RowsStay, RestoreRevokedRows DEF edge
  <1>3. faults' \in 0..MaxFaults
    BY FaultIs, FaultsStay DEF RestoreCommit, RestoreFails
  <1>4. CASE RestoreAlone(p) \/ ResumeUnderFreshProxy(p)
    BY <1>1, <1>2, <1>3, <1>4, RetryKeeps
  <1>5. CASE Release(p, {consumer, lifecycle}) /\ Goto(p, "resched") /\ UNCHANGED memo
    <2>1. Moves(p, "resched") /\ "resched" \in Places(p)
      BY <1>1, <1>5, ConstantsAssumption DEF Goto, Moves, Places
    <2>2. Machines'
      BY <1>1, <1>3, <1>5, <2>1, FreshStays, GoOn DEF edge
    <2> QED
      BY <1>2, <1>5, <2>1, <2>2, LeaveKeeps
  <1> QED
    BY <1>4, <1>5 DEF RestoreCommit, RestoreFails

LEMMA WFWorkerClaim ==
  ASSUME WellFormed, NEW p \in Procs, NEW kind \in Kinds, NEW r \in Requests,
         WorkerClaim(p, kind, r)
  PROVE  WellFormed'
  <1> DEFINE m == [Blank EXCEPT !.kind = kind]
             x == IF kind = "revoke" THEN "ckey" ELSE "proxy"
  <1>1. /\ p \in Workers /\ pc[p] = "idle" /\ Moves(p, x) /\ memo' = [memo EXCEPT ![p] = m]
        /\ job' = [job EXCEPT ![kind][r] = [st |-> "sending", gen |-> p]]
        /\ subj' = [subj EXCEPT ![p] = r]
        /\ UNCHANGED <<req, grant, status, edge, lease, held, faults>>
    BY DEF WorkerClaim, Recall, Goto, Moves
  <1>2. x \in Places(p)
    BY <1>1, ConstantsAssumption DEF Places
  <1>3. m \in MemoRecords /\ m.kind = kind
    BY MemoKind
  <1>4. Rows'
    BY <1>1, JobRowIs, RowsOf DEF WellFormed, Rows, edge
  <1>5. /\ subj' \in [Procs -> Requests] /\ fresh' \in [Procs -> BOOLEAN]
        /\ late' \in [Procs -> SUBSET (SUBSET Apis)] /\ faults' \in 0..MaxFaults
    BY <1>1 DEF WellFormed, Machines, edge
  <1>6. (x \in {"proxy", "owned"} => m.kind = "approve") /\ (x # "idle" => m.kind \in Kinds)
    BY <1>3 DEF Kinds
  <1> HIDE DEF m, x
  <1>7. Machines'
    BY <1>1, <1>2, <1>3, <1>5, <1>6, MachinesMove
  <1> QED
    BY <1>1, <1>2, <1>4, <1>7, GoKeeps

LEMMA WFRecoverApproval ==
  ASSUME WellFormed, NEW p \in Procs, RecoverApproval(p)
  PROVE  WellFormed'
  <1>1. p \in Workers /\ pc[p] = "owned" /\ UNCHANGED <<db, acl, late, subj, faults>>
    BY DEF RecoverApproval
  <1>2. Rows' /\ faults' \in 0..MaxFaults
    BY <1>1, RowsStay, FaultsStay DEF db
  <1>3. CASE Finish(p)
    BY <1>1, <1>2, <1>3, FinishKeeps
  <1>4. CASE /\ Recall(p, [memo[p] EXCEPT !.status = req[subj[p]]])
             /\ Goto(p, "ckey") /\ UNCHANGED <<lease, held, fresh>>
    <2> DEFINE s == req[subj[p]]
               m == [memo[p] EXCEPT !.status = s]
    <2>1. /\ memo' = [memo EXCEPT ![p] = m] /\ Moves(p, "ckey") /\ "ckey" \in Places(p)
          /\ s \in ReqStatus /\ memo[p] \in MemoRecords
      BY <1>1, <1>4, RoleOf, ConstantsAssumption
         DEF Recall, Goto, Moves, Places, WellFormed, Rows
    <2> HIDE DEF s
    <2>2. m \in MemoRecords
      BY <2>1, MemoStatus
    <2>3. m.kind = memo[p].kind
      BY <2>1 DEF MemoRecords
    <2> HIDE DEF m
    <2>4. Machines'
      BY <1>1, <1>2, <1>4, <2>1, <2>2, <2>3, GoKnowing
    <2> QED
      BY <1>1, <1>2, <1>4, <2>1, <2>4, GoKeeps
  <1> QED
    BY <1>3, <1>4 DEF RecoverApproval

LEMMA WFComplete ==
  ASSUME WellFormed, NEW p \in Procs, WorkerComplete(p) \/ WorkerCompleteFails(p)
  PROVE  WellFormed'
  <1>1. /\ p \in Workers /\ pc[p] = "complete" /\ UNCHANGED <<grant, status, acl, late, subj>>
        /\ UNCHANGED <<req, job>> \/ CompleteJob(p)
    BY DEF WorkerComplete, WorkerCompleteFails, edge
  <1>2. Rows'
    BY <1>1, RowsStay, CompleteJobRows
  <1>3. faults' \in 0..MaxFaults
    BY FaultIs, FaultsStay DEF WorkerComplete, WorkerCompleteFails
  <1>4. CASE WorkerComplete(p)
    BY <1>1, <1>2, <1>3, <1>4, FinishKeeps DEF WorkerComplete
  <1>5. CASE WorkerCompleteFails(p)
    <2>1. /\ Moves(p, "resched") /\ "resched" \in Places(p)
          /\ UNCHANGED <<lease, held, memo, fresh>>
      BY <1>1, <1>5, ConstantsAssumption
         DEF WorkerCompleteFails, Goto, Moves, Places, edge
    <2>2. Machines'
      BY <1>1, <1>3, <2>1, FreshStays, GoOn
    <2> QED
      BY <1>1, <1>2, <2>1, <2>2, GoKeeps
  <1> QED
    BY <1>4, <1>5

LEMMA WFCrash ==
  ASSUME WellFormed, NEW p \in Procs, Crash(p)
  PROVE  WellFormed'
  <1> DEFINE x == IF p \in OneShot THEN "crashed" ELSE "idle"
  <1>1. /\ Moves(p, x) /\ memo' = [memo EXCEPT ![p] = Blank] /\ held' = [held EXCEPT ![p] = {}]
        /\ fresh' = [fresh EXCEPT ![p] = FALSE] /\ UNCHANGED <<db, acl, late, lease, subj>>
        /\ faults' \in 0..MaxFaults
    BY FaultIs DEF Crash, Moves
  <1>2. x \in Places(p) /\ (p \in Workers => x = "idle") /\ x \in {"idle", "crashed"}
    BY ConstantsAssumption DEF OneShot, Places, Procs
  <1>3. /\ subj' \in [Procs -> Requests] /\ fresh' \in [Procs -> BOOLEAN]
        /\ late' \in [Procs -> SUBSET (SUBSET Apis)]
    BY <1>1 DEF WellFormed, Machines
  <1>4. /\ held' \in [Procs -> SUBSET Keys] /\ held'[p] = {}
        /\ lease' \in [Keys -> Procs \cup {NoProc}]
        /\ \A q \in Procs : q # p => held'[q] = held[q]
    BY <1>1 DEF WellFormed, Leases
  <1> HIDE DEF x
  <1>5. Machines'
    BY <1>1, <1>2, <1>3, BlankIs, MachinesMove
  <1>6. Leases'
    BY <1>1, <1>2, <1>4, LeasesMove
  <1> QED
    BY <1>1, <1>5, <1>6, RowsStay DEF WellFormed, db

LEMMA WFLateLands ==
  ASSUME WellFormed, NEW p \in Procs, LateLands(p)
  PROVE  WellFormed'
  <1>1. PICK groups \in late[p] : EdgeWrite(groups)
    BY DEF LateLands
  <1>2. UNCHANGED <<db, lease, held, pc, subj, memo, faults>> /\ groups \in SUBSET Apis
    BY DEF LateLands, WellFormed, Machines
  <1>3. Machines'
    BY <1>1, <1>2 DEF EdgeWrite, WellFormed, Machines
  <1>4. Leases'
    BY <1>2 DEF WellFormed, Leases
  <1>5. Rows'
    BY <1>1, <1>2 DEF EdgeWrite, WellFormed, Rows, db
  <1> QED
    BY <1>3, <1>4, <1>5 DEF WellFormed

LEMMA ControlStays ==
  ASSUME WellFormed, UNCHANGED <<lease, held, pc, subj, memo, fresh, late>>,
         faults' \in 0..MaxFaults
  PROVE  Leases' /\ Machines'
  BY DEF WellFormed, Leases, Machines

LEMMA WFDecide ==
  ASSUME WellFormed, NEW r \in Requests, Cancel(r) \/ Deny(r)
  PROVE  WellFormed'
  <1>1. /\ UNCHANGED <<grant, job, status, edge, lease, held, pc, subj, memo, faults>>
        /\ req' \in [Requests -> ReqStatus]
    BY DEF Cancel, Deny, WellFormed, Rows, ReqStatus
  <1>2. Leases' /\ Machines'
    BY <1>1, FaultsStay, ControlStays DEF edge
  <1> QED
    BY <1>1, <1>2 DEF WellFormed, Rows, edge

LEMMA WFReleaseStale ==
  ASSUME WellFormed, NEW kind \in Kinds, NEW r \in Requests, ReleaseStale(kind, r)
  PROVE  WellFormed'
  <1>1. /\ UNCHANGED <<req, grant, status, edge, lease, held, pc, subj, memo>>
        /\ job' = [job EXCEPT ![kind][r].st = "pending"]
    BY DEF ReleaseStale
  <1>2. faults' \in 0..MaxFaults
    BY FaultIs, FaultsStay DEF ReleaseStale
  <1>3. job' \in [Kinds -> [Requests -> JobRows]]
    <2>1. job \in [Kinds -> [Requests -> JobRows]]
      BY DEF WellFormed, Rows
    <2> QED
      BY <1>1, <2>1 DEF JobRows
  <1>4. Leases' /\ Machines'
    BY <1>1, <1>2, ControlStays DEF edge
  <1> QED
    BY <1>1, <1>3, <1>4 DEF WellFormed, Rows, edge

LEMMA WFStep ==
  ASSUME WellFormed, NEW p \in Procs, Step(p)
  PROVE  WellFormed'
  BY WFRequest, WFStart, WFTakeProxy, WFProxyTimeout, WFEnter, WFAdmit, WFClaim,
     WFClaimFails, WFConsumerTimeout, WFCheckActive, WFGet, WFGuardApproval, WFGuardUnwind,
     WFGuardRevocation, WFGuardReconcile, WFPutGroup, WFTakeOffGroup, WFPutReconciled,
     WFGrant, WFUnwindApproval, WFSettleRequest, WFSettleJob, WFRollbackGet,
     WFRollbackTimeout, WFRestore, WFWorkerClaim, WFRecoverApproval, WFComplete
     DEF Step

LEMMA WellFormedStep == WellFormed /\ [Next]_vars => WellFormed'
  <1> SUFFICES ASSUME WellFormed, [Next]_vars PROVE WellFormed'
    OBVIOUS
  <1>1. CASE UNCHANGED vars
    BY <1>1 DEF vars, WellFormed, Rows, Leases, Machines
  <1>2. CASE \E p \in Procs : Step(p) \/ Crash(p) \/ LateLands(p)
    BY <1>2, WFStep, WFCrash, WFLateLands
  <1>3. CASE \E r \in Requests : Cancel(r) \/ Deny(r)
    BY <1>3, WFDecide
  <1>4. CASE \E kind \in Kinds, r \in Requests : ReleaseStale(kind, r)
    BY <1>4, WFReleaseStale
  <1> QED
    BY <1>1, <1>2, <1>3, <1>4 DEF Next, Quiescent

LEMMA WellFormedType == WellFormed => TypeOK
  <1> SUFFICES ASSUME WellFormed PROVE TypeOK
    OBVIOUS
  <1> QED
    BY DEF WellFormed, Rows, Leases, Machines, TypeOK, GrantRows, JobRows, MemoRecords,
                ReqStatus

(* The variables keep their types, and a process that rests holds no lease. *)
THEOREM TypeCorrect == Spec => []TypeOK
  <1>1. Init => WellFormed
    BY WellFormedInit
  <1>2. WellFormed /\ [Next]_vars => WellFormed'
    BY WellFormedStep
  <1>3. WellFormed => TypeOK
    BY WellFormedType
  <1> QED
    BY <1>1, <1>2, <1>3, PTL DEF Spec

-----------------------------------------------------------------------------
(* What a step of p may do to the requests, the grants and the jobs. *)
Inserting(p) ==
    /\ p \in Clients /\ pc[p] = "insert" /\ req[subj[p]] = "absent"
    /\ req' = [req EXCEPT ![subj[p]] = "pending"] /\ UNCHANGED <<grant, job>>
Approving(p) ==
    p \in Approvers /\ req[subj[p]] = "pending" /\ ClaimApproval(p) /\ UNCHANGED grant
Granting(p) ==
    /\ p \in Approvers /\ pc[p] = "grant" /\ Owns(p, "approve") /\ CreateGrant(p)
    /\ UNCHANGED req
HandingBack(p) ==
    /\ p \in Approvers /\ Owns(p, "approve") /\ req[subj[p]] = "approved"
    /\ req' = [req EXCEPT ![subj[p]] = "pending"] /\ UNCHANGED <<grant, job>>
Dropping(p) ==
    /\ p \in Roles /\ pc[p] = "drop" /\ JobKind(p) \in Kinds /\ Owns(p, JobKind(p))
    /\ job' = [job EXCEPT ![JobKind(p)][subj[p]] = NoJob] /\ UNCHANGED <<req, grant>>
Rescheduling(p) ==
    /\ p \in Roles /\ pc[p] = "resched" /\ JobKind(p) \in Kinds /\ Owns(p, JobKind(p))
    /\ job' = [job EXCEPT ![JobKind(p)][subj[p]] = [st |-> "pending", gen |-> p]]
    /\ UNCHANGED <<req, grant>>
Revoking(p) ==
    p \in Revokers /\ pc[p] = "claim" /\ grant[subj[p]].st = "active" /\ ClaimRevocation(p)
Restoring(p) ==
    p \in Revokers /\ pc[p] = "restore" /\ RestoreOwed(p) /\ RestoreRevoked(p)
Claiming(p) ==
    /\ p \in Workers /\ pc[p] = "idle" /\ UNCHANGED <<req, grant>>
    /\ \E kind \in Kinds, r \in Requests :
         /\ job[kind][r].st = "pending"
         /\ job' = [job EXCEPT ![kind][r] = [st |-> "sending", gen |-> p]]
Completing(p) ==
    /\ p \in Workers /\ pc[p] = "complete" /\ memo[p].kind \in Kinds
    /\ Owns(p, memo[p].kind) /\ CompleteJob(p) /\ UNCHANGED grant

Store(p) ==
    \/ UNCHANGED <<req, grant, job>>
    \/ Inserting(p) \/ Approving(p) \/ Granting(p) \/ HandingBack(p) \/ Dropping(p)
    \/ Rescheduling(p) \/ Revoking(p) \/ Restoring(p) \/ Claiming(p) \/ Completing(p)

LEMMA StoreOf ==
  ASSUME WellFormed, History, NEW p \in Procs, Step(p)
  PROVE  Store(p)
  <1> USE DEF Store
  <1>1. CASE RequestCheck(p) \/ RequestLock(p) \/ RequestInsert(p)
    <2>1. CASE RequestInsert(p)
      <3>1. p \in Clients /\ pc[p] = "insert" /\ UNCHANGED <<grant, job>>
        BY <2>1 DEF RequestInsert
      <3>2. req[subj[p]] = "absent"
        BY <3>1 DEF History, Finds, Inserts
      <3>3. req' = req \/ req' = [req EXCEPT ![subj[p]] = "pending"]
        BY <2>1 DEF RequestInsert
      <3> QED
        BY <3>1, <3>2, <3>3 DEF Inserting
    <2> QED
      BY <1>1, <2>1 DEF RequestCheck, RequestLock, db
  <1>2. CASE \E r \in Requests : ApproveStart(p, r) \/ RevokeStart(p, r)
    BY <1>2 DEF ApproveStart, RevokeStart, db
  <1>3. CASE TakeProxy(p) \/ ProxyTimeout(p) \/ ApproveAdmit(p) \/ ApproveRefused(p)
    BY <1>3 DEF TakeProxy, ProxyTimeout, ApproveAdmit, ApproveRefused, db
  <1>4. CASE ApproveClaim(p) \/ ApproveClaimFails(p)
    BY <1>4 DEF ApproveClaim, ApproveClaimFails, Approving
  <1>5. CASE EnterConsumer(p) \/ ConsumerTimeout(p) \/ CheckActive(p) \/ Get(p)
    BY <1>5 DEF EnterConsumer, ConsumerTimeout, CheckActive, Get, db
  <1>6. CASE GuardApproval(p) \/ GuardUnwind(p) \/ GuardRevocation(p) \/ GuardReconcile(p)
    BY <1>6 DEF GuardApproval, GuardUnwind, GuardRevocation, GuardReconcile, db
  <1>7. CASE PutGroup(p) \/ TakeOffGroup(p) \/ PutReconciled(p)
    BY <1>7 DEF PutGroup, TakeOffGroup, PutReconciled, db
  <1>8. CASE GrantCommit(p) \/ GrantFails(p)
    BY <1>8 DEF GrantCommit, GrantFails, Granting, GrantAllowed
  <1>9. CASE UnwindApproval(p)
    BY <1>9 DEF UnwindApproval, db
  <1>10. CASE SettleRequest(p)
    BY <1>10 DEF SettleRequest, HandingBack
  <1>11. CASE SettleJob(p)
    <2>1. p \in Roles /\ pc[p] \in {"drop", "resched"} /\ UNCHANGED <<req, grant>>
      BY <1>11, RoleOf DEF SettleJob
    <2>2. JobKind(p) \in Kinds
      BY <2>1, JobKindIs
    <2>3. \/ job' = job
          \/ /\ Owns(p, JobKind(p)) /\ pc[p] = "drop"
             /\ job' = [job EXCEPT ![JobKind(p)][subj[p]] = NoJob]
          \/ /\ Owns(p, JobKind(p)) /\ pc[p] = "resched"
             /\ job' = [job EXCEPT ![JobKind(p)][subj[p]] = [st |-> "pending", gen |-> p]]
      BY <1>11, <2>1 DEF SettleJob
    <2> QED
      BY <2>1, <2>2, <2>3 DEF Dropping, Rescheduling
  <1>12. CASE RevokeClaim(p) \/ RevokeClaimFails(p)
    BY <1>12 DEF RevokeClaim, RevokeClaimFails, Revoking
  <1>13. CASE RollbackEnter(p) \/ RollbackGet(p) \/ RollbackLifecycle(p) \/ RollbackTimeout(p)
    BY <1>13 DEF RollbackEnter, RollbackGet, RollbackLifecycle, RollbackTimeout, db
  <1>14. CASE RestoreCommit(p) \/ RestoreFails(p)
    <2>1. p \in Revokers /\ pc[p] = "restore"
          /\ (RestoreRevoked(p) \/ UNCHANGED <<req, grant, job>>)
      BY <1>14 DEF RestoreCommit, RestoreFails
    <2>2. RestoreRevoked(p) => RestoreOwed(p) \/ UNCHANGED <<req, grant, job>>
      BY DEF RestoreRevoked
    <2> QED
      BY <2>1, <2>2 DEF Restoring
  <1>15. CASE \E kind \in Kinds, r \in Requests : WorkerClaim(p, kind, r)
    BY <1>15 DEF WorkerClaim, Claiming
  <1>16. CASE RecoverApproval(p)
    BY <1>16 DEF RecoverApproval, db
  <1>17. CASE WorkerComplete(p) \/ WorkerCompleteFails(p)
    <2>1. p \in Workers /\ pc[p] = "complete" /\ UNCHANGED grant
      BY <1>17 DEF WorkerComplete, WorkerCompleteFails
    <2>2. (Owns(p, memo[p].kind) /\ CompleteJob(p)) \/ UNCHANGED <<req, job>>
      BY <1>17 DEF WorkerComplete, WorkerCompleteFails
    <2>3. memo[p].kind \in Kinds
      BY <2>1, RoleOf
    <2> QED
      BY <2>1, <2>2, <2>3 DEF Completing
  <1> QED
    BY <1>1, <1>2, <1>3, <1>4, <1>5, <1>6, <1>7, <1>8, <1>9, <1>10, <1>11, <1>12, <1>13,
       <1>14, <1>15, <1>16, <1>17 DEF Step

(* A step of p leaves the control of the others alone. *)
LEMMA OthersStay ==
  ASSUME WellFormed, NEW p \in Procs, Step(p)
  PROVE  Elsewhere(p)
  <1> USE DEF Elsewhere, Goto, Recall
  <1>0. pc \in [Procs -> PCs] /\ memo \in [Procs -> MemoRecords] /\ subj \in [Procs -> Requests]
    BY DEF WellFormed, Machines
  <1>1. CASE RequestCheck(p) \/ RequestLock(p) \/ RequestInsert(p)
    BY <1>0, <1>1 DEF RequestCheck, RequestLock, RequestInsert, Finish
  <1>2. CASE \E r \in Requests : ApproveStart(p, r) \/ RevokeStart(p, r)
    BY <1>0, <1>2 DEF ApproveStart, RevokeStart
  <1>3. CASE TakeProxy(p) \/ ProxyTimeout(p) \/ ApproveAdmit(p) \/ ApproveRefused(p)
    BY <1>0, <1>3 DEF TakeProxy, ProxyTimeout, ApproveAdmit, ApproveRefused, Finish
  <1>4. CASE ApproveClaim(p) \/ ApproveClaimFails(p) \/ RevokeClaim(p) \/ RevokeClaimFails(p)
    BY <1>0, <1>4 DEF ApproveClaim, ApproveClaimFails, RevokeClaim, RevokeClaimFails, Finish
  <1>5. CASE EnterConsumer(p) \/ ConsumerTimeout(p) \/ CheckActive(p) \/ Get(p)
    BY <1>0, <1>5 DEF EnterConsumer, ConsumerTimeout, CheckActive, Get, SectionFails,
                      LeaveConsumer
  <1>6. CASE GuardApproval(p) \/ GuardUnwind(p) \/ GuardRevocation(p) \/ GuardReconcile(p)
    BY <1>0, <1>6 DEF GuardApproval, GuardUnwind, GuardRevocation, GuardReconcile, Finish,
                      LeaveConsumer
  <1>7. CASE PutGroup(p) \/ TakeOffGroup(p) \/ PutReconciled(p)
    <2>1. subj' = subj
      BY <1>7 DEF PutGroup, TakeOffGroup, PutReconciled
    <2>2. SectionFails(p) \/ (memo' = memo /\ \E x : Moves(p, x))
      BY <1>7, WFPutGroup, WFTakeOffGroup, WFPutReconciled
    <2> QED
      BY <1>0, <2>1, <2>2 DEF Moves, SectionFails, LeaveConsumer
  <1>8. CASE GrantCommit(p) \/ GrantFails(p) \/ UnwindApproval(p)
    BY <1>0, <1>8 DEF GrantCommit, GrantFails, UnwindApproval, Finish, LeaveConsumer
  <1>9. CASE SettleRequest(p) \/ SettleJob(p)
    BY <1>0, <1>9 DEF SettleRequest, SettleJob, Finish
  <1>10. CASE RollbackEnter(p) \/ RollbackGet(p) \/ RollbackLifecycle(p) \/ RollbackTimeout(p)
    BY <1>0, <1>10 DEF RollbackEnter, RollbackGet, RollbackLifecycle, RollbackTimeout,
                       RestoreAlone
  <1>11. CASE RestoreCommit(p) \/ RestoreFails(p)
    <2>1. /\ subj' = subj
          /\ \/ RestoreAlone(p) \/ ResumeUnderFreshProxy(p)
             \/ Goto(p, "resched") /\ UNCHANGED memo
      BY <1>11 DEF RestoreCommit, RestoreFails
    <2> QED
      BY <1>0, <2>1 DEF RestoreAlone, ResumeUnderFreshProxy
  <1>12. CASE \E kind \in Kinds, r \in Requests : WorkerClaim(p, kind, r)
    BY <1>0, <1>12 DEF WorkerClaim
  <1>13. CASE RecoverApproval(p) \/ WorkerComplete(p) \/ WorkerCompleteFails(p)
    BY <1>0, <1>13 DEF RecoverApproval, WorkerComplete, WorkerCompleteFails, Finish
  <1> QED
    BY <1>1, <1>2, <1>3, <1>4, <1>5, <1>6, <1>7, <1>8, <1>9, <1>10, <1>11, <1>12, <1>13
       DEF Step

-----------------------------------------------------------------------------
(* The history: what each transaction does to the request it is about. *)

(* The record of one request: its status, its grant's and its job's. *)
Recorded(r) ==
    /\ grant[r].st = "active" => req[r] = "approved"
    /\ grant[r].st = "revoked" <=> req[r] = "revoked"
    /\ (req[r] = "approved" /\ grant[r].st = "none") => job["approve"][r].st # "none"
    /\ job["approve"][r].st # "none" => grant[r].st = "none"

LEMMA RecordIs ==
  (HistoryMatchesGrant /\ OwedOrGranted) <=> \A r \in Requests : Recorded(r)
  BY DEF HistoryMatchesGrant, OwedOrGranted, Recorded

LEMMA RowIs ==
  ASSUME WellFormed, NEW r \in Requests
  PROVE  /\ grant[r] \in GrantRows /\ req[r] \in ReqStatus
         /\ job["approve"][r] \in JobRows /\ job["revoke"][r] \in JobRows
         /\ grant[r].st \in {"none", "active", "revoked"}
  BY DEF WellFormed, Rows, GrantRows, Kinds

LEMMA RecordStays ==
  ASSUME NEW r \in Requests, Recorded(r), req'[r] = req[r], grant'[r].st = grant[r].st,
         job'["approve"][r].st = job["approve"][r].st
  PROVE  Recorded(r)'
  BY DEF Recorded

LEMMA HistoryCore ==
  ASSUME WellFormed, History, NEW p \in Procs, Store(p), NEW r \in Requests
  PROVE  Recorded(r)'
  <1>1. Recorded(r) /\ subj[p] \in Requests
    BY RecordIs, RoleOf DEF History
  <1>2. /\ req \in [Requests -> ReqStatus] /\ grant \in [Requests -> GrantRows]
        /\ job \in [Kinds -> [Requests -> JobRows]] /\ "approve" \in Kinds /\ "revoke" \in Kinds
    BY DEF WellFormed, Rows, Kinds
  <1>3. grant[r].st \in {"none", "active", "revoked"} /\ NoJob.st = "none"
    BY RowIs DEF NoJob
  <1>4. CASE UNCHANGED <<req, grant, job>>
    BY <1>1, <1>4, RecordStays
  <1>5. CASE Inserting(p)
    BY <1>1, <1>2, <1>3, <1>5 DEF Inserting, Recorded
  <1>6. CASE Approving(p)
    BY <1>1, <1>2, <1>3, <1>6 DEF Approving, ClaimApproval, Recorded
  <1>7. CASE Granting(p)
    <2>1. Finds(p)
      BY DEF History
    <2>2. req[subj[p]] = "approved"
      BY <1>7, <2>1 DEF Granting, Finds, ApproverFinds, Claimed
    <2> QED
      BY <1>1, <1>2, <1>3, <1>7, <2>2 DEF Granting, CreateGrant, Recorded
  <1>8. CASE HandingBack(p)
    <2>1. job["approve"][subj[p]].st # "none"
      BY <1>8 DEF HandingBack, Owns
    <2> QED
      BY <1>1, <1>2, <1>3, <1>8, <2>1 DEF HandingBack, Recorded
  <1>9. CASE Dropping(p)
    <2>1. Finds(p)
      BY DEF History
    <2>2. JobKind(p) = "approve" => req[subj[p]] # "approved"
      BY <1>9, <2>1, JobKindIs, ConstantsAssumption
         DEF Dropping, Finds, ApproverFinds, WorkerFinds, Roles
    <2> QED
      BY <1>1, <1>2, <1>3, <1>9, <2>2 DEF Dropping, Recorded
  <1>10. CASE Rescheduling(p)
    <2>1. job[JobKind(p)][subj[p]].st # "none"
      BY <1>10 DEF Rescheduling, Owns
    <2> QED
      BY <1>1, <1>2, <1>3, <1>10, <2>1 DEF Rescheduling, Recorded
  <1>11. CASE Revoking(p)
    BY <1>1, <1>2, <1>3, <1>11 DEF Revoking, ClaimRevocation, ClaimGrant, Recorded
  <1>12. CASE Restoring(p)
    <2>1. /\ grant[subj[p]].st = "revoked"
          /\ grant' = [grant EXCEPT ![subj[p]] = [st |-> "active", by |-> NoProc]]
          /\ job' = [job EXCEPT !["revoke"][subj[p]] = NoJob]
          /\ req' = IF req[subj[p]] = "revoked"
                    THEN [req EXCEPT ![subj[p]] = "approved"] ELSE req
      BY <1>12 DEF Restoring, RestoreRevoked, RestoreOwed
    <2> QED
      BY <1>1, <1>2, <1>3, <2>1 DEF Recorded
  <1>13. CASE Claiming(p)
    BY <1>1, <1>2, <1>3, <1>13 DEF Claiming, Recorded
  <1>14. CASE Completing(p)
    <2>1. Finds(p) /\ p \in Workers /\ pc[p] = "complete" /\ Owns(p, memo[p].kind)
      BY <1>14 DEF History, Completing
    <2>2. job' = [job EXCEPT ![memo[p].kind][subj[p]] = NoJob] /\ grant' = grant
      BY <1>14 DEF Completing, CompleteJob
    <2>3. CASE memo[p].kind = "approve"
      <3>1. req' = [req EXCEPT ![subj[p]] = RecoveredStatus(p)]
        BY <1>14, <2>3 DEF Completing, CompleteJob
      <3>2. /\ req[subj[p]] = "approved" => memo[p].status = "approved"
            /\ subj[p] \notin memo[p].live
        BY <2>1, <2>3 DEF Finds, WorkerFinds
      <3>3. \/ RecoveredStatus(p) = req[subj[p]] /\ req[subj[p]] # "approved"
            \/ RecoveredStatus(p) \in {"cancelled", "pending"} /\ req[subj[p]] = "approved"
        BY <3>2 DEF RecoveredStatus
      <3>4. job["approve"][subj[p]].st # "none"
        BY <2>1, <2>3 DEF Owns
      <3> HIDE DEF RecoveredStatus
      <3> QED
        BY <1>1, <1>2, <1>3, <2>2, <2>3, <3>1, <3>3, <3>4 DEF Recorded
    <2>4. CASE memo[p].kind # "approve"
      <3>1. req' = req
        BY <1>14, <2>4 DEF Completing, CompleteJob
      <3>2. job'["approve"][r].st = job["approve"][r].st
        BY <1>2, <2>2, <2>4
      <3> QED
        BY <1>1, <2>2, <3>1, <3>2, RecordStays
    <2> QED
      BY <2>3, <2>4
  <1> QED
    BY <1>4, <1>5, <1>6, <1>7, <1>8, <1>9, <1>10, <1>11, <1>12, <1>13, <1>14 DEF Store

(* A job row another process owns is not touched, and its request keeps    *)
(* its decision.                                                           *)
LEMMA OwnersUndisturbed ==
  ASSUME WellFormed, History, NEW p \in Procs, Store(p), NEW q \in Procs, q # p,
         subj'[q] = subj[q], Owns(q, "approve")'
  PROVE  /\ Owns(q, "approve")
         /\ req'[subj[q]] = "approved" <=> req[subj[q]] = "approved"
  <1> DEFINE r == subj[q]
  <1>1. /\ r \in Requests /\ subj[p] \in Requests /\ Recorded(r)
        /\ job'["approve"][r] = [st |-> "sending", gen |-> q]
    BY RoleOf, RecordIs DEF History, Owns
  <1>2. /\ req \in [Requests -> ReqStatus] /\ grant \in [Requests -> GrantRows]
        /\ job \in [Kinds -> [Requests -> JobRows]] /\ "approve" \in Kinds /\ "revoke" \in Kinds
    BY DEF WellFormed, Rows, Kinds
  <1>3. /\ NoJob # [st |-> "sending", gen |-> q]
        /\ [st |-> "sending", gen |-> p] # [st |-> "sending", gen |-> q]
        /\ [st |-> "pending", gen |-> p] # [st |-> "sending", gen |-> q]
    BY DEF NoJob
  <1>4. SUFFICES /\ job["approve"][r] = [st |-> "sending", gen |-> q]
                 /\ req'[r] = "approved" <=> req[r] = "approved"
    BY DEF Owns
  <1> HIDE DEF r
  <1>5. CASE UNCHANGED <<req, grant, job>>
    BY <1>1, <1>5
  <1>6. CASE Inserting(p)
    BY <1>1, <1>2, <1>6 DEF Inserting
  <1>7. CASE Approving(p)
    BY <1>1, <1>2, <1>3, <1>7 DEF Approving, ClaimApproval
  <1>8. CASE Granting(p)
    BY <1>1, <1>2, <1>3, <1>8 DEF Granting, CreateGrant
  <1>9. CASE HandingBack(p)
    BY <1>1, <1>2, <1>3, <1>9 DEF HandingBack, Owns
  <1>10. CASE Dropping(p)
    BY <1>1, <1>2, <1>3, <1>10 DEF Dropping
  <1>11. CASE Rescheduling(p)
    BY <1>1, <1>2, <1>3, <1>11 DEF Rescheduling
  <1>12. CASE Revoking(p)
    <2>1. job["approve"][r] = [st |-> "sending", gen |-> q]
      BY <1>1, <1>2, <1>12 DEF Revoking, ClaimRevocation
    <2>2. grant[r].st = "none"
      BY <1>1, <2>1 DEF Recorded
    <2> QED
      BY <1>1, <1>2, <1>12, <2>1, <2>2 DEF Revoking, ClaimRevocation, ClaimGrant
  <1>13. CASE Restoring(p)
    <2>1. /\ grant[subj[p]].st = "revoked"
          /\ job' = [job EXCEPT !["revoke"][subj[p]] = NoJob]
          /\ req' = IF req[subj[p]] = "revoked"
                    THEN [req EXCEPT ![subj[p]] = "approved"] ELSE req
      BY <1>13 DEF Restoring, RestoreRevoked, RestoreOwed
    <2>2. job["approve"][r] = [st |-> "sending", gen |-> q]
      BY <1>1, <1>2, <2>1
    <2>3. grant[r].st = "none"
      BY <1>1, <2>2 DEF Recorded
    <2> QED
      BY <1>1, <1>2, <2>1, <2>2, <2>3
  <1>14. CASE Claiming(p)
    BY <1>1, <1>2, <1>3, <1>14 DEF Claiming
  <1>15. CASE Completing(p)
    <2>1. /\ job' = [job EXCEPT ![memo[p].kind][subj[p]] = NoJob] /\ memo[p].kind \in Kinds
          /\ req' = IF memo[p].kind = "approve"
                    THEN [req EXCEPT ![subj[p]] = RecoveredStatus(p)] ELSE req
      BY <1>15 DEF Completing, CompleteJob
    <2>2. job["approve"][r] = [st |-> "sending", gen |-> q]
      BY <1>1, <1>2, <1>3, <2>1
    <2>3. memo[p].kind = "approve" => subj[p] # r
      BY <1>1, <1>2, <1>3, <2>1
    <2> QED
      BY <1>1, <1>2, <2>1, <2>2, <2>3
  <1> QED
    BY <1>5, <1>6, <1>7, <1>8, <1>9, <1>10, <1>11, <1>12, <1>13, <1>14, <1>15 DEF Store

LEMMA AbsentStays ==
  ASSUME WellFormed, History, NEW p \in Procs, Store(p), NEW r \in Requests,
         req[r] = "absent", ~ (Inserting(p) /\ subj[p] = r)
  PROVE  req'[r] = "absent"
  <1>1. /\ req \in [Requests -> ReqStatus] /\ subj[p] \in Requests
    BY RoleOf DEF WellFormed, Rows
  <1>2. CASE UNCHANGED <<req, grant, job>>
    BY <1>2
  <1>3. CASE Inserting(p) \/ Approving(p) \/ HandingBack(p)
    BY <1>1, <1>3 DEF Inserting, Approving, ClaimApproval, HandingBack
  <1>4. CASE Granting(p) \/ Dropping(p) \/ Rescheduling(p) \/ Claiming(p)
    BY <1>4 DEF Granting, Dropping, Rescheduling, Claiming
  <1>5. CASE Revoking(p)
    BY <1>1, <1>5 DEF Revoking, ClaimRevocation, ClaimGrant
  <1>6. CASE Restoring(p)
    BY <1>1, <1>6 DEF Restoring, RestoreRevoked
  <1>7. CASE Completing(p)
    BY <1>1, <1>7 DEF Completing, CompleteJob, RecoveredStatus
  <1> QED
    BY <1>2, <1>3, <1>4, <1>5, <1>6, <1>7 DEF Store

LEMMA FindsElsewhere ==
  ASSUME WellFormed, History, NEW p \in Procs, Store(p), Elsewhere(p), NEW q \in Procs, q # p
  PROVE  Finds(q)'
  <1>1. Finds(q) /\ Finds(p) /\ pc'[q] = pc[q] /\ memo'[q] = memo[q] /\ subj'[q] = subj[q]
    BY DEF History, Elsewhere
  <1>2. ASSUME q \in Clients PROVE Inserts(q)'
    <2>1. SUFFICES ASSUME pc[q] \in {"idle", "submit", "insert"}
                   PROVE  req'[Submits[q]] = "absent"
      BY <1>1, <1>2 DEF Finds, Inserts
    <2>2. req[Submits[q]] = "absent" /\ Submits[q] \in Requests
      BY <1>1, <1>2, <2>1, ConstantsAssumption DEF Finds, Inserts
    <2>3. ~ (Inserting(p) /\ subj[p] = Submits[q])
      BY <1>1, <1>2, ConstantsAssumption DEF Inserting, Finds, Inserts
    <2> QED
      BY <2>2, <2>3, AbsentStays
  <1>3. Owns(q, "approve")' => /\ Owns(q, "approve")
                               /\ req'[subj[q]] = "approved" <=> req[subj[q]] = "approved"
    BY <1>1, OwnersUndisturbed
  <1>4. q \in Approvers => ApproverFinds(q)'
    BY <1>1, <1>3 DEF Finds, ApproverFinds
  <1>5. q \in Workers => WorkerFinds(q)'
    BY <1>1, <1>3 DEF Finds, WorkerFinds
  <1> QED
    BY <1>2, <1>4, <1>5 DEF Finds

(* What a process itself finds after its step. *)
LEMMA FindsPassing ==
  ASSUME NEW p \in Procs, pc'[p] \notin Claimed \cup {"drop", "complete"},
         p \in Clients => pc'[p] \in {"done", "crashed"}
  PROVE  Finds(p)'
  BY DEF Finds, Inserts, ApproverFinds, WorkerFinds, Claimed

LEMMA FindsRevoker ==
  ASSUME NEW p \in Revokers
  PROVE  Finds(p)'
  BY ConstantsAssumption DEF Finds

LEMMA FindsApprover ==
  ASSUME NEW p \in Approvers, Finds(p), UNCHANGED <<req, job>>, subj'[p] = subj[p],
         pc[p] \in Claimed, pc'[p] # "drop"
  PROVE  Finds(p)'
  BY ConstantsAssumption DEF Finds, ApproverFinds, Owns, Claimed

LEMMA FindsWorker ==
  ASSUME NEW p \in Workers, Finds(p), UNCHANGED <<req, job>>, subj'[p] = subj[p],
         memo'[p].kind = memo[p].kind, memo'[p].status = memo[p].status,
         pc[p] \in {"ckey", "get", "guard", "put"}, pc'[p] # "drop",
         pc'[p] \in {"put", "complete"} => pc[p] = "put" /\ memo'[p].live = memo[p].live
  PROVE  Finds(p)'
  BY ConstantsAssumption DEF Finds, WorkerFinds, Owns

LEMMA FindsOther ==
  ASSUME NEW p \in Workers, memo'[p].kind # "approve"
  PROVE  Finds(p)'
  BY ConstantsAssumption DEF Finds, WorkerFinds

LEMMA FindsGranted ==
  ASSUME WellFormed, History, NEW p \in Approvers, p \in Procs, UNCHANGED <<req, job>>,
         subj'[p] = subj[p], subj[p] \in ActiveOn(Api(p))
  PROVE  Finds(p)'
  <1>1. job["approve"][subj[p]].st = "none"
    BY RecordIs, RoleOf DEF ActiveOn, History, Recorded
  <1>2. ~ Owns(p, "approve")'
    BY <1>1 DEF Owns
  <1> QED
    BY <1>2, ConstantsAssumption DEF Finds, ApproverFinds

(* After an error inside the consumer's section. *)
LEMMA FindsAfterError ==
  ASSUME WellFormed, History, NEW p \in Roles, p \in Procs, SectionFails(p), subj' = subj,
         UNCHANGED <<req, job>>, pc[p] \in Claimed
  PROVE  Finds(p)'
  <1>1. pc'[p] = OnError(p) /\ Finds(p)
    BY DEF SectionFails, LeaveConsumer, Goto, WellFormed, Machines, History
  <1>2. CASE p \in Approvers
    BY <1>1, <1>2, OnErrorIs, FindsApprover
  <1>3. CASE p \in Revokers
    BY <1>3, FindsRevoker
  <1>4. CASE p \in Workers
    <2>1. pc'[p] = "resched"
      BY <1>1, <1>4, ConstantsAssumption DEF OnError, Adding
    <2> QED
      BY <1>4, <2>1, FindsPassing, ConstantsAssumption DEF Claimed
  <1> QED
    BY <1>2, <1>3, <1>4 DEF Roles

LEMMA FindsAtEnd ==
  ASSUME WellFormed, NEW p \in Procs, Finish(p)
  PROVE  Finds(p)'
  <1>1. pc'[p] = Rest(p)
    BY DEF Finish, Rest, WellFormed, Machines
  <1>2. Rest(p) \in {"idle", "done"} /\ (p \in Clients => Rest(p) = "done")
    BY DEF Rest, OneShot
  <1> QED
    BY <1>1, <1>2, FindsPassing DEF Claimed

LEMMA FindsStart ==
  ASSUME WellFormed, History, NEW p \in Procs,
         \/ RequestCheck(p) \/ RequestLock(p) \/ RequestInsert(p)
         \/ \E r \in Requests : ApproveStart(p, r) \/ RevokeStart(p, r)
         \/ TakeProxy(p) \/ ProxyTimeout(p) \/ ApproveAdmit(p) \/ ApproveRefused(p)
         \/ ApproveClaimFails(p) \/ GrantCommit(p) \/ SettleJob(p) \/ WorkerComplete(p)
  PROVE  Finds(p)'
  <1>0. Finds(p) /\ pc \in [Procs -> PCs] /\ subj \in [Procs -> Requests]
    BY DEF History, WellFormed, Machines
  <1>1. CASE RequestCheck(p)
    <2>1. /\ p \in Clients /\ pc'[p] = "submit" /\ subj'[p] = Submits[p]
          /\ req' = req /\ req[Submits[p]] = "absent"
      BY <1>0, <1>1 DEF RequestCheck, Goto, db
    <2> QED
      BY <2>1, ConstantsAssumption DEF Finds, Inserts
  <1>2. CASE RequestLock(p)
    <2>1. /\ p \in Clients /\ pc'[p] = "insert" /\ subj'[p] = subj[p] /\ pc[p] = "submit"
          /\ req' = req
      BY <1>0, <1>2 DEF RequestLock, Goto, db
    <2> QED
      BY <1>0, <2>1, ConstantsAssumption DEF Finds, Inserts
  <1>3. CASE \E r \in Requests : ApproveStart(p, r) \/ RevokeStart(p, r)
    <2>1. p \in Approvers \cup Revokers /\ pc'[p] = "proxy"
      BY <1>0, <1>3 DEF ApproveStart, RevokeStart, Goto
    <2> QED
      BY <2>1, FindsPassing, ConstantsAssumption DEF Claimed
  <1>4. CASE TakeProxy(p)
    <2>1. p \in Roles
      BY <1>4, RoleOf DEF TakeProxy
    <2>2. pc'[p] \in {"admit", "claim", "owned"}
      BY <1>0, <1>4, <2>1, ConstantsAssumption DEF TakeProxy, Goto, Roles
    <2> QED
      BY <2>1, <2>2, FindsPassing, ConstantsAssumption DEF Claimed, Roles
  <1>5. CASE ProxyTimeout(p)
    <2>1. pc'[p] = IF p \in Workers THEN "resched" ELSE "done"
      BY <1>0, <1>5 DEF ProxyTimeout, Goto
    <2> QED
      BY <2>1, FindsPassing, ConstantsAssumption DEF Claimed
  <1>6. CASE ApproveAdmit(p)
    <2>1. p \in Approvers /\ pc'[p] = "claim"
      BY <1>0, <1>6 DEF ApproveAdmit, Goto
    <2> QED
      BY <2>1, FindsPassing, ConstantsAssumption DEF Claimed
  <1>7. CASE \/ RequestInsert(p) \/ ApproveRefused(p) \/ ApproveClaimFails(p) \/ GrantCommit(p)
             \/ SettleJob(p) \/ WorkerComplete(p)
    BY <1>7, FindsAtEnd DEF RequestInsert, ApproveRefused, ApproveClaimFails, GrantCommit,
                            SettleJob, WorkerComplete
  <1> QED
    BY <1>1, <1>2, <1>3, <1>4, <1>5, <1>6, <1>7

LEMMA FindsSection ==
  ASSUME WellFormed, History, NEW p \in Procs,
         \/ EnterConsumer(p) \/ ConsumerTimeout(p) \/ CheckActive(p) \/ Get(p)
         \/ PutGroup(p) \/ TakeOffGroup(p) \/ PutReconciled(p)
  PROVE  Finds(p)'
  <1>0. /\ Finds(p) /\ pc \in [Procs -> PCs] /\ UNCHANGED <<req, job, subj>>
        /\ pc[p] \in {"ckey", "check", "get", "put"} /\ p \in Roles
    <2>1. pc[p] \in {"ckey", "get"} /\ p \notin Others => p \in Roles
      BY RoleOf
    <2>2. /\ pc[p] \in {"ckey", "check", "get", "put"} /\ (pc[p] = "check" => p \in Approvers)
          /\ pc[p] = "put" => p \in Roles
          /\ pc[p] \in {"ckey", "get"} => p \notin Others
      BY DEF EnterConsumer, ConsumerTimeout, CheckActive, Get, PutGroup, TakeOffGroup,
             PutReconciled, Adding, Roles
    <2>3. UNCHANGED <<req, job, subj>>
      BY DEF EnterConsumer, ConsumerTimeout, CheckActive, Get, PutGroup, TakeOffGroup,
             PutReconciled, db
    <2> QED
      BY <2>1, <2>2, <2>3 DEF History, WellFormed, Machines, Roles
  <1>1. CASE SectionFails(p)
    BY <1>0, <1>1, FindsAfterError DEF Claimed
  <1>2. CASE ~ SectionFails(p)
    <2>1. (memo' = memo \/ p \in Approvers) /\ (pc'[p] = "drop" => p \in Revokers)
          /\ (pc'[p] \in {"put", "complete"} => pc[p] = "put")
      <3>1. CASE EnterConsumer(p)
        BY <1>0, <3>1 DEF EnterConsumer, Goto
      <3>2. CASE CheckActive(p)
        BY <1>0, <3>2 DEF CheckActive, LeaveConsumer, Goto
      <3>3. CASE Get(p)
        BY <1>0, <1>2, <3>3 DEF Get, Goto
      <3>4. CASE PutGroup(p)
        <4>1. memo' = memo /\ Moves(p, "grant")
          BY <1>2, <3>4, WFPutGroup
        <4> QED
          BY <1>0, <4>1 DEF Moves
      <3>5. CASE TakeOffGroup(p)
        <4>1. memo' = memo /\ Moves(p, Landed(p))
          BY <1>2, <3>5, WFTakeOffGroup
        <4>2. pc'[p] = Landed(p)
          BY <1>0, <4>1 DEF Moves
        <4>3. pc[p] = "put"
          BY <3>5 DEF TakeOffGroup
        <4> QED
          BY <1>0, <4>1, <4>2, <4>3, LandedIs DEF Roles
      <3>6. CASE PutReconciled(p)
        <4>1. memo' = memo /\ Moves(p, "complete") /\ pc[p] = "put"
          BY <1>2, <3>6, WFPutReconciled DEF PutReconciled
        <4> QED
          BY <1>0, <4>1 DEF Moves
      <3> QED
        BY <1>2, <3>1, <3>2, <3>3, <3>4, <3>5, <3>6 DEF ConsumerTimeout
    <2>2. CASE p \in Approvers
      BY <1>0, <2>1, <2>2, FindsApprover, ConstantsAssumption DEF Claimed
    <2>3. CASE p \in Revokers
      BY <2>3, FindsRevoker
    <2>4. CASE p \in Workers
      <3>1. pc[p] # "check"
        BY <2>4, RoleOf, ConstantsAssumption DEF Places
      <3> QED
        BY <1>0, <2>1, <2>4, <3>1, FindsWorker, ConstantsAssumption
    <2> QED
      BY <1>0, <2>2, <2>3, <2>4 DEF Roles
  <1> QED
    BY <1>1, <1>2

LEMMA FindsApproval ==
  ASSUME WellFormed, History, NEW p \in Procs,
         \/ ApproveClaim(p) \/ GuardApproval(p) \/ GuardUnwind(p) \/ GrantFails(p)
         \/ UnwindApproval(p) \/ SettleRequest(p)
  PROVE  Finds(p)'
  <1>0. /\ Finds(p) /\ pc \in [Procs -> PCs] /\ subj' = subj /\ p \in Approvers
        /\ subj[p] \in Requests /\ req \in [Requests -> ReqStatus]
        /\ job \in [Kinds -> [Requests -> JobRows]] /\ "approve" \in Kinds
    <2>1. subj' = subj /\ p \in Approvers
      BY DEF ApproveClaim, GuardApproval, GuardUnwind, GrantFails, UnwindApproval,
             SettleRequest, Adding
    <2> QED
      BY <2>1, RoleOf DEF History, WellFormed, Machines, Rows, Kinds
  <1>1. CASE ApproveClaim(p)
    <2>1. pc'[p] = "ckey" /\ req'[subj[p]] = "approved"
      BY <1>0, <1>1 DEF ApproveClaim, ClaimApproval, Goto
    <2> QED
      BY <1>0, <2>1, ConstantsAssumption DEF Finds, ApproverFinds
  <1>2. CASE GuardApproval(p)
    <2>1. Finish(p) \/ pc'[p] \in {"resched", "put"}
      BY <1>0, <1>2 DEF GuardApproval, LeaveConsumer, Goto
    <2>2. UNCHANGED <<req, job>> /\ pc[p] \in Claimed
      BY <1>2 DEF GuardApproval, db, Claimed
    <2> QED
      BY <1>0, <2>1, <2>2, FindsAtEnd, FindsApprover
  <1>3. CASE GuardUnwind(p)
    <2>1. UNCHANGED <<req, job>> /\ pc[p] \in Claimed
      BY <1>3 DEF GuardUnwind, db, Claimed
    <2>2. pc'[p] # "drop" \/ subj[p] \in ActiveOn(Api(p))
      BY <1>0, <1>3 DEF GuardUnwind, LeaveConsumer, Goto
    <2> QED
      BY <1>0, <2>1, <2>2, FindsGranted, FindsApprover
  <1>4. CASE GrantFails(p)
    <2>1. pc'[p] = "live" /\ pc[p] \in Claimed /\ req' = req
      BY <1>0, <1>4 DEF GrantFails, LeaveConsumer, Goto, Claimed
    <2>2. CASE job' = job
      BY <1>0, <2>1, <2>2, FindsApprover
    <2>3. CASE CreateGrant(p)
      <3>1. ~ Owns(p, "approve")'
        BY <1>0, <2>3 DEF CreateGrant, Owns, NoJob
      <3> QED
        BY <1>0, <3>1, ConstantsAssumption DEF Finds, ApproverFinds
    <2> QED
      BY <1>4, <2>2, <2>3 DEF GrantFails
  <1>5. CASE UnwindApproval(p)
    <2>1. UNCHANGED <<req, job>> /\ pc[p] \in Claimed
      BY <1>5 DEF UnwindApproval, db, Claimed
    <2>2. pc'[p] # "drop" \/ subj[p] \in ActiveOn(Api(p))
      BY <1>0, <1>5 DEF UnwindApproval, Goto
    <2> QED
      BY <1>0, <2>1, <2>2, FindsGranted, FindsApprover
  <1>6. CASE SettleRequest(p)
    <2>1. pc'[p] \in {"drop", "resched"} /\ job' = job
      BY <1>0, <1>6 DEF SettleRequest, Goto
    <2>2. CASE pc'[p] = "resched"
      BY <1>0, <2>2, FindsPassing, ConstantsAssumption DEF Claimed
    <2>3. CASE pc'[p] = "drop"
      <3>1. req' = IF Owns(p, "approve") /\ req[subj[p]] = "approved"
                   THEN [req EXCEPT ![subj[p]] = "pending"] ELSE req
        BY <1>0, <1>6, <2>3 DEF SettleRequest, Goto
      <3>2. Owns(p, "approve")' => Owns(p, "approve")
        BY <1>0, <2>1 DEF Owns
      <3>3. Owns(p, "approve")' => req'[subj[p]] # "approved"
        BY <1>0, <3>1, <3>2
      <3> QED
        BY <1>0, <2>3, <3>3, ConstantsAssumption DEF Finds, ApproverFinds, Claimed
    <2> QED
      BY <2>1, <2>2, <2>3
  <1> QED
    BY <1>1, <1>2, <1>3, <1>4, <1>5, <1>6

LEMMA FindsRecovery ==
  ASSUME WellFormed, History, NEW p \in Procs, p \in Workers,
         \/ GuardRevocation(p) \/ GuardReconcile(p) \/ RecoverApproval(p)
         \/ WorkerCompleteFails(p) \/ \E kind \in Kinds, r \in Requests : WorkerClaim(p, kind, r)
  PROVE  Finds(p)'
  <1>0. /\ Finds(p) /\ pc \in [Procs -> PCs] /\ memo \in [Procs -> MemoRecords]
        /\ memo[p] \in MemoRecords /\ subj[p] \in Requests /\ req[subj[p]] \in ReqStatus
    BY RoleOf, RowIs DEF History, WellFormed, Machines
  <1>1. CASE GuardRevocation(p)
    <2>1. memo[p].kind = "revoke" /\ (Finish(p) \/ memo' = memo)
      BY <1>1, ConstantsAssumption DEF GuardRevocation
    <2> QED
      BY <2>1, FindsAtEnd, FindsOther
  <1>2. CASE GuardReconcile(p)
    <2> DEFINE L == ActiveOn(Api(p))
               b == status = "active"
               m == [memo[p] EXCEPT !.live = L, !.on = b]
    <2>1. /\ memo'[p] = m /\ pc[p] = "guard" /\ pc'[p] = "put" /\ UNCHANGED <<req, job, subj>>
          /\ memo[p].kind = "approve"
      BY <1>0, <1>2 DEF GuardReconcile, Recall, Goto, db
    <2>2. m.live = L /\ m.kind = memo[p].kind /\ m.status = memo[p].status
      BY <1>0 DEF MemoRecords
    <2>3. Owns(p, "approve") => subj[p] \notin L
      BY <1>0, RecordIs DEF ActiveOn, History, Recorded, Owns
    <2> HIDE DEF m, L, b
    <2>4. Owns(p, "approve")' => Owns(p, "approve")
      BY <2>1 DEF Owns
    <2> QED
      BY <1>0, <2>1, <2>2, <2>3, <2>4, ConstantsAssumption DEF Finds, WorkerFinds
  <1>3. CASE RecoverApproval(p)
    <2>1. CASE Finish(p)
      BY <2>1, FindsAtEnd
    <2>2. CASE ~ Finish(p)
      <3> DEFINE s == req[subj[p]]
                 m == [memo[p] EXCEPT !.status = s]
      <3>1. memo'[p] = m /\ pc'[p] = "ckey" /\ UNCHANGED <<req, subj>>
        BY <1>0, <1>3, <2>2 DEF RecoverApproval, Recall, Goto, db
      <3>2. m.status = s
        BY <1>0 DEF MemoRecords
      <3>3. req'[subj'[p]] = s
        BY <3>1
      <3> HIDE DEF m, s
      <3> QED
        BY <1>0, <3>1, <3>2, <3>3, ConstantsAssumption DEF Finds, WorkerFinds
    <2> QED
      BY <2>1, <2>2
  <1>4. CASE WorkerCompleteFails(p)
    <2>1. pc'[p] = "resched"
      BY <1>0, <1>4 DEF WorkerCompleteFails, Goto
    <2> QED
      BY <2>1, FindsPassing, ConstantsAssumption DEF Claimed
  <1>5. ASSUME NEW kind \in Kinds, NEW r \in Requests, WorkerClaim(p, kind, r)
        PROVE  Finds(p)'
    <2>1. CASE kind = "revoke"
      <3>1. memo'[p] = [Blank EXCEPT !.kind = kind]
        BY <1>0, <1>5 DEF WorkerClaim, Recall
      <3>2. [Blank EXCEPT !.kind = kind].kind = kind
        BY BlankIs DEF MemoRecords
      <3> QED
        BY <2>1, <3>1, <3>2, FindsOther
    <2>2. CASE kind # "revoke"
      <3>1. pc'[p] = "proxy"
        BY <1>0, <1>5, <2>2 DEF WorkerClaim, Goto
      <3> QED
        BY <3>1, FindsPassing, ConstantsAssumption DEF Claimed
    <2> QED
      BY <2>1, <2>2
  <1> QED
    BY <1>1, <1>2, <1>3, <1>4, <1>5

LEMMA FindsStep ==
  ASSUME WellFormed, History, NEW p \in Procs, Step(p)
  PROVE  Finds(p)'
  <1>1. CASE p \in Revokers
    BY <1>1, FindsRevoker
  <1>2. CASE p \notin Revokers
    <2>1. GuardRevocation(p) \/ GuardReconcile(p) \/ RecoverApproval(p) \/ WorkerCompleteFails(p)
            => p \in Workers
      BY <1>2 DEF GuardRevocation, GuardReconcile, RecoverApproval, WorkerCompleteFails
    <2>2. (\E kind \in Kinds, r \in Requests : WorkerClaim(p, kind, r)) => p \in Workers
      BY DEF WorkerClaim
    <2>3. ~ (\/ RevokeClaim(p) \/ RevokeClaimFails(p) \/ RollbackEnter(p) \/ RollbackGet(p)
             \/ RollbackLifecycle(p) \/ RollbackTimeout(p) \/ RestoreCommit(p)
             \/ RestoreFails(p))
      BY <1>2 DEF RevokeClaim, RevokeClaimFails, RollbackEnter, RollbackGet,
                  RollbackLifecycle, RollbackTimeout, RestoreCommit, RestoreFails
    <2> QED
      BY <2>1, <2>2, <2>3, FindsStart, FindsSection, FindsApproval, FindsRecovery DEF Step
  <1> QED
    BY <1>1, <1>2

LEMMA HistoryInit == Init => History
  <1> SUFFICES ASSUME Init PROVE History
    OBVIOUS
  <1>1. \A r \in Requests : Recorded(r)
    BY DEF Init, Recorded, NoGrant, NoJob, Kinds
  <1>2. \A p \in Procs : Finds(p)
    BY ConstantsAssumption
       DEF Init, Finds, Inserts, ApproverFinds, WorkerFinds, Claimed, Procs
  <1> QED
    BY <1>1, <1>2, RecordIs DEF History

(* Steps that leave every process where it is. *)
LEMMA FindsStay ==
  ASSUME History, UNCHANGED <<pc, memo, subj>>,
         \A q \in Procs : Owns(q, "approve")' =>
           /\ Owns(q, "approve")
           /\ req'[subj[q]] = "approved" <=> req[subj[q]] = "approved",
         \A r \in Requests : req[r] = "absent" => req'[r] = "absent"
  PROVE  \A q \in Procs : Finds(q)'
  <1> SUFFICES ASSUME NEW q \in Procs PROVE Finds(q)'
    OBVIOUS
  <1>1. Finds(q)
    BY DEF History
  <1>2. q \in Clients => Inserts(q)'
    BY <1>1, ConstantsAssumption DEF Finds, Inserts
  <1>3. q \in Approvers => ApproverFinds(q)'
    BY <1>1 DEF Finds, ApproverFinds
  <1>4. q \in Workers => WorkerFinds(q)'
    BY <1>1 DEF Finds, WorkerFinds
  <1> QED
    BY <1>2, <1>3, <1>4 DEF Finds

LEMMA HistoryStep == WellFormed /\ History /\ [Next]_vars => History'
  <1> SUFFICES ASSUME WellFormed, History, [Next]_vars PROVE History'
    OBVIOUS
  <1>0. /\ req \in [Requests -> ReqStatus] /\ job \in [Kinds -> [Requests -> JobRows]]
        /\ "approve" \in Kinds /\ \A r \in Requests : Recorded(r)
    BY RecordIs DEF WellFormed, Rows, Kinds, History
  <1>1. CASE UNCHANGED <<req, grant, job, pc, memo, subj>>
    <2>1. \A q \in Procs : Finds(q)'
      BY <1>1, FindsStay DEF Owns
    <2>2. \A r \in Requests : Recorded(r)'
      BY <1>0, <1>1, RecordStays
    <2> QED
      BY <2>1, <2>2, RecordIs DEF History, HistoryMatchesGrant, OwedOrGranted, Recorded
  <1>2. ASSUME NEW p \in Procs, Step(p) PROVE History'
    <2>1. Store(p) /\ Elsewhere(p)
      BY <1>2, StoreOf, OthersStay
    <2>2. \A r \in Requests : Recorded(r)'
      BY <2>1, HistoryCore
    <2>3. \A q \in Procs : Finds(q)'
      BY <1>2, <2>1, FindsElsewhere, FindsStep
    <2> QED
      BY <2>2, <2>3 DEF History, HistoryMatchesGrant, OwedOrGranted, Recorded
  <1>3. ASSUME NEW p \in Procs, Crash(p) PROVE History'
    <2>1. UNCHANGED <<req, grant, job>> /\ Elsewhere(p)
          /\ pc'[p] = IF p \in OneShot THEN "crashed" ELSE "idle"
      BY <1>3 DEF Crash, db, Elsewhere, WellFormed, Machines
    <2>2. \A r \in Requests : Recorded(r)'
      BY <1>0, <2>1, RecordStays
    <2>3. Finds(p)'
      BY <2>1, FindsPassing DEF Claimed, OneShot
    <2>4. \A q \in Procs : Finds(q)'
      BY <2>1, <2>3, FindsElsewhere DEF Store
    <2> QED
      BY <2>2, <2>4 DEF History, HistoryMatchesGrant, OwedOrGranted, Recorded
  <1>4. ASSUME NEW r \in Requests, Cancel(r) \/ Deny(r) PROVE History'
    <2>1. /\ UNCHANGED <<grant, job, pc, memo, subj>> /\ req[r] = "pending"
          /\ req' = [req EXCEPT ![r] = "cancelled"] \/ req' = [req EXCEPT ![r] = "denied"]
      BY <1>4 DEF Cancel, Deny
    <2>2. \A s \in Requests : Recorded(s)'
      BY <1>0, <2>1 DEF Recorded
    <2>3. \A q \in Procs : Finds(q)'
      BY <1>0, <2>1, FindsStay, RoleOf DEF Owns
    <2> QED
      BY <2>2, <2>3 DEF History, HistoryMatchesGrant, OwedOrGranted, Recorded
  <1>5. ASSUME NEW kind \in Kinds, NEW r \in Requests, ReleaseStale(kind, r) PROVE History'
    <2>1. /\ UNCHANGED <<req, grant, pc, memo, subj>> /\ job[kind][r].st = "sending"
          /\ job' = [job EXCEPT ![kind][r].st = "pending"]
      BY <1>5 DEF ReleaseStale
    <2>2. \A s \in Requests : Recorded(s)'
      BY <1>0, <2>1 DEF Recorded, JobRows
    <2>3. \A q \in Procs : Owns(q, "approve")' => Owns(q, "approve")
      BY <1>0, <2>1, RoleOf DEF Owns, JobRows
    <2>4. \A q \in Procs : Finds(q)'
      BY <2>1, <2>3, FindsStay
    <2> QED
      BY <2>2, <2>4 DEF History, HistoryMatchesGrant, OwedOrGranted, Recorded
  <1>6. ASSUME NEW p \in Procs, LateLands(p) PROVE History'
    BY <1>1, <1>6 DEF LateLands, db
  <1> QED
    BY <1>1, <1>2, <1>3, <1>4, <1>5, <1>6 DEF Next, Quiescent, vars

(* A decision that was taken stays, and a grant comes back from its own    *)
(* revocation's rollback only.                                             *)
LEMMA StoreIsFinal ==
  ASSUME WellFormed, History, NEW p \in Procs, Store(p), NEW r \in Requests
  PROVE  /\ req[r] \in {"cancelled", "denied"} => req'[r] = req[r] /\ grant'[r] = grant[r]
         /\ grant[r].st = "revoked" /\ grant'[r].st = "active" =>
              Restoring(p) /\ grant[r].by = p
  <1>1. Recorded(r) /\ subj[p] \in Requests /\ Finds(p)
    BY RecordIs, RoleOf DEF History
  <1>2. req \in [Requests -> ReqStatus] /\ grant \in [Requests -> GrantRows]
    BY DEF WellFormed, Rows
  <1>3. CASE UNCHANGED <<req, grant, job>> \/ Dropping(p) \/ Rescheduling(p) \/ Claiming(p)
    BY <1>3 DEF Dropping, Rescheduling, Claiming
  <1>4. CASE Inserting(p) \/ Approving(p) \/ HandingBack(p)
    BY <1>1, <1>2, <1>4 DEF Inserting, Approving, ClaimApproval, HandingBack
  <1>5. CASE Granting(p)
    <2>1. req[subj[p]] = "approved" /\ job["approve"][subj[p]].st # "none"
      BY <1>1, <1>5 DEF Granting, Finds, ApproverFinds, Claimed, Owns
    <2> QED
      BY <1>1, <1>2, <1>5, <2>1 DEF Granting, CreateGrant, Recorded
  <1>6. CASE Revoking(p)
    BY <1>1, <1>2, <1>6 DEF Revoking, ClaimRevocation, ClaimGrant, Recorded
  <1>7. CASE Restoring(p)
    <2>1. /\ grant[subj[p]] = [st |-> "revoked", by |-> p]
          /\ grant' = [grant EXCEPT ![subj[p]] = [st |-> "active", by |-> NoProc]]
          /\ req' = IF req[subj[p]] = "revoked"
                    THEN [req EXCEPT ![subj[p]] = "approved"] ELSE req
      BY <1>7 DEF Restoring, RestoreRevoked, RestoreOwed
    <2> QED
      BY <1>1, <1>2, <1>7, <2>1 DEF Recorded
  <1>8. CASE Completing(p)
    BY <1>1, <1>2, <1>8 DEF Completing, CompleteJob, RecoveredStatus
  <1> QED
    BY <1>3, <1>4, <1>5, <1>6, <1>7, <1>8 DEF Store

LEMMA RollbackLeaves ==
  ASSUME WellFormed, NEW p \in Procs, Step(p), pc[p] = "restore"
  PROVE  pc'[p] # "restore"
  <1>1. ~ (\/ RequestCheck(p) \/ RequestLock(p) \/ RequestInsert(p)
           \/ TakeProxy(p) \/ ProxyTimeout(p) \/ ApproveAdmit(p) \/ ApproveRefused(p)
           \/ ApproveClaim(p) \/ ApproveClaimFails(p) \/ EnterConsumer(p)
           \/ ConsumerTimeout(p) \/ CheckActive(p) \/ Get(p))
    BY DEF RequestCheck, RequestLock, RequestInsert, TakeProxy, ProxyTimeout, ApproveAdmit,
           ApproveRefused, ApproveClaim, ApproveClaimFails, EnterConsumer, ConsumerTimeout,
           CheckActive, Get
  <1>2. ~ (\/ GuardApproval(p) \/ GuardUnwind(p) \/ GuardRevocation(p) \/ GuardReconcile(p)
           \/ PutGroup(p) \/ TakeOffGroup(p) \/ PutReconciled(p) \/ GrantCommit(p)
           \/ GrantFails(p) \/ UnwindApproval(p) \/ SettleRequest(p) \/ SettleJob(p))
    BY DEF GuardApproval, GuardUnwind, GuardRevocation, GuardReconcile, PutGroup,
           TakeOffGroup, PutReconciled, GrantCommit, GrantFails, UnwindApproval,
           SettleRequest, SettleJob
  <1>3. ~ (\/ RevokeClaim(p) \/ RevokeClaimFails(p) \/ RollbackEnter(p) \/ RollbackGet(p)
           \/ RollbackLifecycle(p) \/ RollbackTimeout(p) \/ RecoverApproval(p)
           \/ WorkerComplete(p) \/ WorkerCompleteFails(p))
    BY DEF RevokeClaim, RevokeClaimFails, RollbackEnter, RollbackGet, RollbackLifecycle,
           RollbackTimeout, RecoverApproval, WorkerComplete, WorkerCompleteFails
  <1>4. /\ ~ \E r \in Requests : ApproveStart(p, r) \/ RevokeStart(p, r)
        /\ ~ \E kind \in Kinds, r \in Requests : WorkerClaim(p, kind, r)
    BY DEF ApproveStart, RevokeStart, WorkerClaim
  <1>5. RestoreCommit(p) \/ RestoreFails(p)
    BY <1>1, <1>2, <1>3, <1>4 DEF Step
  <1>6. RestoreAlone(p) \/ ResumeUnderFreshProxy(p) \/ Goto(p, "resched")
    BY <1>5 DEF RestoreCommit, RestoreFails
  <1> QED
    BY <1>6 DEF RestoreAlone, ResumeUnderFreshProxy, Goto, WellFormed, Machines

LEMMA FinalStep ==
  ASSUME WellFormed, History, [Next]_vars, NEW r \in Requests
  PROVE  /\ req[r] \in {"cancelled", "denied"} => req'[r] = req[r] /\ grant'[r] = grant[r]
         /\ grant[r].st = "revoked" /\ grant'[r].st = "active" =>
              pc[grant[r].by] = "restore" /\ pc'[grant[r].by] # "restore"
  <1>1. CASE UNCHANGED <<req, grant>>
    BY <1>1
  <1>2. ASSUME NEW p \in Procs, Step(p)
        PROVE  /\ req[r] \in {"cancelled", "denied"} =>
                    req'[r] = req[r] /\ grant'[r] = grant[r]
               /\ grant[r].st = "revoked" /\ grant'[r].st = "active" =>
                    pc[grant[r].by] = "restore" /\ pc'[grant[r].by] # "restore"
    <2>1. Store(p)
      BY <1>2, StoreOf
    <2> QED
      BY <1>2, <2>1, StoreIsFinal, RollbackLeaves DEF Restoring
  <1>3. ASSUME NEW s \in Requests, Cancel(s) \/ Deny(s)
        PROVE  /\ req[r] \in {"cancelled", "denied"} => req'[r] = req[r]
               /\ grant' = grant
    BY <1>3 DEF Cancel, Deny, WellFormed, Rows
  <1>4. ASSUME NEW p \in Procs, Crash(p) \/ LateLands(p) PROVE UNCHANGED <<req, grant>>
    BY <1>4 DEF Crash, LateLands, db
  <1>5. ASSUME NEW kind \in Kinds, NEW s \in Requests, ReleaseStale(kind, s)
        PROVE  UNCHANGED <<req, grant>>
    BY <1>5 DEF ReleaseStale
  <1> QED
    BY <1>1, <1>2, <1>3, <1>4, <1>5 DEF Next, Quiescent, vars

(* The history of a request agrees with its grant: an active grant has an  *)
(* approved request, a revoked one a revoked request, and an approval      *)
(* without a grant is still owed by its job, whoever decided, undid or     *)
(* recovered it.                                                           *)
THEOREM HistoryStaysTrue == Spec => []HistoryMatchesGrant
  <1>1. Init => WellFormed /\ History
    BY WellFormedInit, HistoryInit
  <1>2. WellFormed /\ History /\ [Next]_vars => WellFormed' /\ History'
    BY WellFormedStep, HistoryStep
  <1>3. History => HistoryMatchesGrant
    BY DEF History
  <1> QED
    BY <1>1, <1>2, <1>3, PTL DEF Spec

(* A cancelled or denied request is never acted on again: approve() cannot *)
(* overtake a cancellation, and no recovery brings the request back.       *)
THEOREM DecisionsStayFinal == Spec => DecisionsAreFinal
  <1>1. Init => WellFormed /\ History
    BY WellFormedInit, HistoryInit
  <1>2. WellFormed /\ History /\ [Next]_vars => WellFormed' /\ History'
    BY WellFormedStep, HistoryStep
  <1>3. WellFormed /\ History /\ [Next]_vars =>
          [\A r \in Requests : req[r] \in {"cancelled", "denied"} =>
             req'[r] = req[r] /\ grant'[r] = grant[r]]_vars
    BY FinalStep
  <1> QED
    BY <1>1, <1>2, <1>3, PTL DEF Spec, DecisionsAreFinal

(* A revoked grant only comes back in the rollback of the revocation that  *)
(* took it: never by another revocation, an approval or a recovery.        *)
THEOREM RollbackIsOwn == Spec => OnlyOwnRollback
  <1>1. Init => WellFormed /\ History
    BY WellFormedInit, HistoryInit
  <1>2. WellFormed /\ History /\ [Next]_vars => WellFormed' /\ History'
    BY WellFormedStep, HistoryStep
  <1>3. WellFormed /\ History /\ [Next]_vars =>
          [\A r \in Requests : (grant[r].st = "revoked" /\ grant'[r].st = "active") =>
             pc[grant[r].by] = "restore" /\ pc'[grant[r].by] # "restore"]_vars
    BY FinalStep
  <1> QED
    BY <1>1, <1>2, <1>3, PTL DEF Spec, OnlyOwnRollback

-----------------------------------------------------------------------------
(* The gateway: a step of p keeps what covers a group. *)

LEMMA JobKindStays ==
  ASSUME NEW q \in Procs, memo'[q] = memo[q]
  PROVE  JobKind(q)' = JobKind(q)
  BY DEF JobKind

LEMMA SettlingStays ==
  ASSUME NEW q \in Procs, memo'[q] = memo[q], pc'[q] = pc[q]
  PROVE  Settling(q)' = Settling(q)
  BY DEF Settling

LEMMA OnJobStays ==
  ASSUME NEW q \in Procs, memo'[q] = memo[q], subj'[q] = subj[q], NEW k, NEW r
  PROVE  OnJob(q, k, r)' = OnJob(q, k, r)
  BY JobKindStays DEF OnJob

LEMMA FirmStays ==
  ASSUME NEW p \in Procs, Elsewhere(p), NEW k \in Kinds, NEW r \in Requests, Firm(k, r),
         job'[k][r] = job[k][r],
         Settling(p)' /\ OnJob(p, k, r)' => Settling(p) /\ OnJob(p, k, r)
  PROVE  Firm(k, r)'
  <1> SUFFICES ASSUME NEW q \in Procs, job[k][r] = [st |-> "sending", gen |-> q],
                      OnJob(q, k, r)', Settling(q)'
               PROVE  FALSE
    BY DEF Firm
  <1>1. CASE q = p
    BY <1>1 DEF Firm
  <1>2. CASE q # p
    <2>1. OnJob(q, k, r) /\ Settling(q)
      BY <1>2, OnJobStays, SettlingStays DEF Elsewhere
    <2> QED
      BY <2>1 DEF Firm
  <1> QED
    BY <1>1, <1>2

(* A row p has just claimed or handed on. *)
LEMMA FirmNow ==
  ASSUME NEW p \in Procs, NEW k \in Kinds, NEW r \in Requests,
         \/ job'[k][r] = [st |-> "sending", gen |-> p] /\ ~ Settling(p)'
         \/ job'[k][r].st = "pending"
  PROVE  Firm(k, r)'
  <1>1. CASE job'[k][r].st = "pending"
    BY <1>1 DEF Firm
  <1>2. CASE job'[k][r] = [st |-> "sending", gen |-> p] /\ ~ Settling(p)'
    <2>1. job'[k][r].st # "none" /\ job'[k][r].gen = p
      BY <1>2
    <2>2. \A q \in Procs : job'[k][r] = [st |-> "sending", gen |-> q] => q = p
      BY <2>1
    <2> QED
      BY <1>2, <2>1, <2>2 DEF Firm
  <1> QED
    BY <1>1, <1>2

(* Whatever covers a group keeps covering it. *)
Keeps ==
    /\ \A k \in Kinds, r \in Requests :
         Firm(k, r) => Firm(k, r)' \/ ActiveOn(ApiOf[r])' # {}
    /\ \A a \in Apis : ActiveOn(a) # {} => ActiveOn(a)' # {} \/ Removal(a)'

(* A process comes to settle its job only with a live grant of its API. *)
Calm(p) ==
    Settling(p)' =>
      /\ UNCHANGED <<job, grant>> /\ subj'[p] = subj[p] /\ JobKind(p)' = JobKind(p)
      /\ Settling(p) \/ ActiveOn(Api(p)) # {}

LEMMA CoverStays ==
  ASSUME Keeps, NEW a \in Apis
  PROVE  /\ Covered(a) => Covered(a)'
         /\ ActiveOn(a) # {} \/ Removal(a) => ActiveOn(a)' # {} \/ Removal(a)'
         /\ ActiveOn(a)' # {} \/ Removal(a)' => Covered(a)'
  <1>1. "revoke" \in Kinds
    BY DEF Kinds
  <1>2. ActiveOn(a)' # {} \/ Removal(a)' => Covered(a)'
    BY <1>1 DEF Removal, Covered
  <1>3. Removal(a) => ActiveOn(a)' # {} \/ Removal(a)'
    BY <1>1 DEF Removal, Keeps
  <1>4. Covered(a) => Covered(a)'
    <2>1. CASE ActiveOn(a) # {}
      BY <1>2, <2>1 DEF Keeps
    <2>2. ASSUME NEW k \in Kinds, NEW r \in Requests, ApiOf[r] = a, Firm(k, r)
          PROVE  Covered(a)'
      BY <2>2 DEF Keeps, Covered
    <2> QED
      BY <2>1, <2>2 DEF Covered
  <1> QED
    BY <1>2, <1>3, <1>4 DEF Keeps

LEMMA ActiveStays ==
  ASSUME NEW a, NEW r \in Requests, ApiOf[r] = a, grant'[r].st = "active"
  PROVE  ActiveOn(a)' # {}
  BY DEF ActiveOn

LEMMA KeepsOf ==
  ASSUME WellFormed, History, NEW p \in Procs, Store(p), Elsewhere(p), Calm(p)
  PROVE  Keeps
  <1>r. PICK x \in Requests : x = subj[p]
    BY RoleOf
  <1>0. /\ x = subj[p] /\ grant \in [Requests -> GrantRows]
        /\ job \in [Kinds -> [Requests -> JobRows]]
        /\ "approve" \in Kinds /\ "revoke" \in Kinds /\ Api(p) = ApiOf[x]
    BY <1>r DEF WellFormed, Rows, Kinds, Api
  <1>1. ASSUME UNCHANGED grant, NEW a, ActiveOn(a) # {}
        PROVE  ActiveOn(a)' # {}
    BY <1>1 DEF ActiveOn
  (* Rows that stay, while p does not come to settle. *)
  <1>2. ASSUME NEW k \in Kinds, NEW r \in Requests, Firm(k, r), job'[k][r] = job[k][r],
               ~ Settling(p)'
        PROVE  Firm(k, r)'
    BY <1>2, FirmStays
  <1>3. CASE UNCHANGED <<job, grant>>
    <2>1. ASSUME NEW k \in Kinds, NEW r \in Requests, Firm(k, r)
          PROVE  Firm(k, r)' \/ ActiveOn(ApiOf[r])' # {}
      <3>1. CASE ~ (Settling(p)' /\ OnJob(p, k, r)')
        BY <1>3, <2>1, <3>1, FirmStays
      <3>2. CASE Settling(p)' /\ OnJob(p, k, r)'
        <4>1. OnJob(p, k, r) /\ x = r
          BY <1>r, <3>2 DEF Calm, OnJob
        <4>2. Settling(p) \/ ActiveOn(Api(p)) # {}
          BY <3>2 DEF Calm
        <4>3. CASE Settling(p)
          BY <1>3, <2>1, <4>1, <4>3, FirmStays
        <4>4. CASE ActiveOn(Api(p)) # {}
          BY <1>0, <1>1, <1>3, <4>1, <4>4
        <4> QED
          BY <4>2, <4>3, <4>4
      <3> QED
        BY <3>1, <3>2
    <2> QED
      BY <1>1, <1>3, <2>1 DEF Keeps
  <1>4. CASE ~ UNCHANGED <<job, grant>>
    <2>1. ~ Settling(p)'
      BY <1>4 DEF Calm
    (* One row of one request changes. *)
    <2>2. ASSUME NEW k \in Kinds, NEW r \in Requests, UNCHANGED grant,
                 \A l \in Kinds, s \in Requests : (l # k \/ s # r) => job'[l][s] = job[l][s],
                 ~ Firm(k, r) \/ Firm(k, r)'
          PROVE  Keeps
      <3>1. ASSUME NEW l \in Kinds, NEW s \in Requests, Firm(l, s) PROVE Firm(l, s)'
        BY <1>2, <2>1, <2>2, <3>1
      <3> QED
        BY <1>1, <2>2, <3>1 DEF Keeps
    <2>3. CASE Approving(p)
      <3>1. /\ job' = [job EXCEPT !["approve"][x] = [st |-> "sending", gen |-> p]]
            /\ UNCHANGED grant
        BY <1>r, <2>3 DEF Approving, ClaimApproval
      <3>2. Firm("approve", x)'
        BY <1>0, <2>1, <3>1, FirmNow
      <3> QED
        BY <1>0, <2>2, <3>1, <3>2
    <2>4. CASE Granting(p)
      <3>1. /\ job' = [job EXCEPT !["approve"][x] = NoJob]
            /\ grant' = [grant EXCEPT ![x] = [st |-> "active", by |-> NoProc]]
        BY <1>r, <2>4 DEF Granting, CreateGrant
      <3>2. ActiveOn(ApiOf[x])' # {}
        BY <1>0, <3>1, ActiveStays
      <3>3. \A k \in Kinds, r \in Requests : (k # "approve" \/ r # x) =>
              job'[k][r] = job[k][r]
        BY <1>0, <3>1
      <3>4. ASSUME NEW k \in Kinds, NEW r \in Requests, Firm(k, r)
            PROVE  Firm(k, r)' \/ ActiveOn(ApiOf[r])' # {}
        BY <1>2, <2>1, <3>2, <3>3, <3>4
      <3>5. ASSUME NEW a \in Apis, ActiveOn(a) # {} PROVE ActiveOn(a)' # {}
        <4>1. PICK r \in Requests : ApiOf[r] = a /\ grant[r].st = "active"
          BY <3>5 DEF ActiveOn
        <4>2. grant'[r].st = "active"
          BY <1>0, <3>1, <4>1
        <4> QED
          BY <4>1, <4>2, ActiveStays
      <3> QED
        BY <3>4, <3>5 DEF Keeps
    <2>5. CASE Dropping(p)
      <3>1. PICK k \in Kinds : k = JobKind(p)
        BY <2>5 DEF Dropping
      <3>4. /\ p \in Roles /\ pc[p] = "drop" /\ Owns(p, k)
            /\ job' = [job EXCEPT ![k][x] = NoJob] /\ UNCHANGED grant
        BY <1>r, <2>5, <3>1 DEF Dropping
      <3>2. ~ Firm(k, x)
        BY <1>r, <3>1, <3>4 DEF Firm, Owns, OnJob, Settling, Roles
      <3> QED
        BY <1>0, <2>2, <3>2, <3>4
    <2>6. CASE Rescheduling(p)
      <3>1. PICK k \in Kinds : k = JobKind(p)
        BY <2>6 DEF Rescheduling
      <3>2. job' = [job EXCEPT ![k][x] = [st |-> "pending", gen |-> p]] /\ UNCHANGED grant
        BY <1>r, <2>6, <3>1 DEF Rescheduling
      <3>3. Firm(k, x)'
        BY <1>0, <3>2, FirmNow
      <3> QED
        BY <1>0, <2>2, <3>2, <3>3
    <2>7. CASE Revoking(p)
      <3>1. /\ job' = [job EXCEPT !["revoke"][x] = [st |-> "sending", gen |-> p]]
            /\ grant' = [grant EXCEPT ![x] = [st |-> "revoked", by |-> p]]
        BY <1>r, <2>7 DEF Revoking, ClaimRevocation, ClaimGrant
      <3>2. Firm("revoke", x)'
        BY <1>0, <2>1, <3>1, FirmNow
      <3>3. \A k \in Kinds, r \in Requests : (k # "revoke" \/ r # x) =>
              job'[k][r] = job[k][r]
        BY <1>0, <3>1
      <3>4. ASSUME NEW k \in Kinds, NEW r \in Requests, Firm(k, r) PROVE Firm(k, r)'
        BY <1>2, <2>1, <3>2, <3>3, <3>4
      <3>5. ASSUME NEW a \in Apis, ActiveOn(a) # {} PROVE ActiveOn(a)' # {} \/ Removal(a)'
        <4>1. PICK r \in Requests : ApiOf[r] = a /\ grant[r].st = "active"
          BY <3>5 DEF ActiveOn
        <4>2. CASE r = x
          BY <3>2, <4>1, <4>2 DEF Removal
        <4>3. CASE r # x
          <5>1. grant'[r].st = "active"
            BY <1>0, <3>1, <4>1, <4>3
          <5> QED
            BY <4>1, <5>1, ActiveStays
        <4> QED
          BY <4>2, <4>3
      <3> QED
        BY <3>4, <3>5 DEF Keeps
    <2>8. CASE Restoring(p)
      <3>1. /\ job' = [job EXCEPT !["revoke"][x] = NoJob]
            /\ grant' = [grant EXCEPT ![x] = [st |-> "active", by |-> NoProc]]
        BY <1>r, <2>8 DEF Restoring, RestoreRevoked
      <3>2. ActiveOn(ApiOf[x])' # {}
        BY <1>0, <3>1, ActiveStays
      <3>3. \A k \in Kinds, r \in Requests : (k # "revoke" \/ r # x) =>
              job'[k][r] = job[k][r]
        BY <1>0, <3>1
      <3>4. ASSUME NEW k \in Kinds, NEW r \in Requests, Firm(k, r)
            PROVE  Firm(k, r)' \/ ActiveOn(ApiOf[r])' # {}
        BY <1>2, <2>1, <3>2, <3>3, <3>4
      <3>5. ASSUME NEW a \in Apis, ActiveOn(a) # {} PROVE ActiveOn(a)' # {}
        <4>1. PICK r \in Requests : ApiOf[r] = a /\ grant[r].st = "active"
          BY <3>5 DEF ActiveOn
        <4>2. grant'[r].st = "active"
          BY <1>0, <3>1, <4>1
        <4> QED
          BY <4>1, <4>2, ActiveStays
      <3> QED
        BY <3>4, <3>5 DEF Keeps
    <2>9. CASE Claiming(p)
      <3>1. PICK k \in Kinds, r \in Requests :
              job' = [job EXCEPT ![k][r] = [st |-> "sending", gen |-> p]]
        BY <2>9 DEF Claiming
      <3>2. Firm(k, r)'
        BY <1>0, <2>1, <3>1, FirmNow
      <3> QED
        BY <1>0, <2>2, <2>9, <3>1, <3>2 DEF Claiming
    <2>10. CASE Completing(p)
      <3>1. PICK k \in Kinds : k = memo[p].kind
        BY <2>10 DEF Completing
      <3>2. /\ p \in Workers /\ pc[p] = "complete" /\ Owns(p, k)
            /\ job' = [job EXCEPT ![k][x] = NoJob] /\ UNCHANGED grant
        BY <1>r, <2>10, <3>1 DEF Completing, CompleteJob
      <3>3. ~ Firm(k, x)
        BY <1>r, <3>1, <3>2, JobKindIs DEF Firm, Owns, OnJob, Settling
      <3> QED
        BY <1>0, <2>2, <3>2, <3>3
    <2> QED
      BY <1>4, <2>3, <2>4, <2>5, <2>6, <2>7, <2>8, <2>9, <2>10
         DEF Store, Inserting, HandingBack
  <1> QED
    BY <1>3, <1>4

(* A step that writes no group, and what it must have seen to write one next. *)
Ready(p) ==
    /\ p \in Approvers /\ pc[p] = "put" /\ ~ memo[p].undo => Owns(p, "approve")
    /\ p \in Workers /\ pc[p] = "put" /\ memo[p].kind = "approve" /\ memo[p].live # {} =>
         ActiveOn(Api(p)) # {}

Quiet(p) ==
    /\ UNCHANGED <<acl, late>>
    /\ \A q \in Procs : q # p => (fresh'[q] => fresh[q])
    /\ Calm(p) /\ Ready(p)'

LEMMA QuietGo ==
  ASSUME WellFormed, NEW p \in Procs, UNCHANGED <<acl, late>>,
         fresh' = fresh \/ \E b : fresh' = [fresh EXCEPT ![p] = b],
         pc'[p] \notin {"drop", "complete", "settle", "put"},
         p \in Approvers /\ pc'[p] = "live" => memo'[p].added
  PROVE  Quiet(p)
  <1>1. ~ Settling(p)' /\ Ready(p)'
    BY DEF Settling, Ready
  <1>2. \A q \in Procs : q # p => (fresh'[q] => fresh[q])
    BY DEF WellFormed, Machines
  <1> QED
    BY <1>1, <1>2 DEF Quiet, Calm

LEMMA QuietFinish ==
  ASSUME WellFormed, NEW p \in Procs, Finish(p), UNCHANGED <<acl, late>>
  PROVE  Quiet(p)
  <1>1. pc'[p] \in {"done", "idle"} /\ fresh' = [fresh EXCEPT ![p] = FALSE]
    BY DEF Finish, WellFormed, Machines
  <1> QED
    BY <1>1, QuietGo

(* After an error in the section nothing is about to be settled. *)
LEMMA FailsUnsettled ==
  ASSUME WellFormed, StoppedLeave, NEW p \in Roles, p \in Procs, SectionFails(p),
         pc[p] \notin WayOut
  PROVE  ~ Settling(p)' /\ Ready(p)' /\ pc'[p] \in {"live", "settle", "rckey", "resched"}
  <1> DEFINE b == ~ memo[p].undo
             m == [memo[p] EXCEPT !.ok = b]
  <1>1. pc'[p] = OnError(p) /\ memo'[p] = m /\ memo[p] \in MemoRecords
    BY RoleOf DEF SectionFails, LeaveConsumer, Goto, Recall, WellFormed, Machines
  <1>2. m.ok = b
    BY <1>1 DEF MemoRecords
  <1>3. pc'[p] \in {"live", "settle", "rckey", "resched"}
    BY <1>1, OnErrorIs
  <1>4. OnError(p) = "settle" => memo[p].undo
    <2>1. CASE p \in Approvers
      BY <2>1, ConstantsAssumption DEF OnError, Adding
    <2>2. CASE p \in Revokers
      BY <2>2, ConstantsAssumption DEF OnError, Adding
    <2>3. CASE p \in Workers
      BY <2>3, ConstantsAssumption DEF OnError, Adding
    <2> QED
      BY <2>1, <2>2, <2>3 DEF Roles
  <1>5. pc'[p] = "settle" => ~ m.ok
    BY <1>1, <1>2, <1>4
  <1>6. p \in Approvers => m.added
    <2>1. m.added = memo[p].added
      BY <1>1 DEF MemoRecords
    <2> HIDE DEF m
    <2> QED
      BY <2>1 DEF StoppedLeave
  <1> HIDE DEF m, b
  <1> QED
    BY <1>1, <1>3, <1>5, <1>6 DEF Settling, Ready

LEMMA QuietFails ==
  ASSUME WellFormed, StoppedLeave, NEW p \in Roles, p \in Procs, SectionFails(p),
         pc[p] \notin WayOut, UNCHANGED <<acl, late, fresh>>
  PROVE  Quiet(p)
  BY FailsUnsettled DEF Quiet, Calm

LEMMA QuietStart ==
  ASSUME WellFormed, NEW p \in Procs,
         \/ RequestCheck(p) \/ RequestLock(p) \/ RequestInsert(p)
         \/ \E r \in Requests : ApproveStart(p, r) \/ RevokeStart(p, r)
         \/ TakeProxy(p) \/ ProxyTimeout(p) \/ ApproveAdmit(p) \/ ApproveRefused(p)
         \/ ApproveClaim(p) \/ ApproveClaimFails(p) \/ RevokeClaim(p) \/ RevokeClaimFails(p)
  PROVE  Quiet(p)
  <1>0. pc \in [Procs -> PCs]
    BY DEF WellFormed, Machines
  <1>1. CASE RequestCheck(p) \/ RequestLock(p)
    <2>1. pc'[p] \in {"submit", "insert"} /\ UNCHANGED <<acl, late, fresh>>
      BY <1>0, <1>1 DEF RequestCheck, RequestLock, Goto, edge
    <2> QED
      BY <2>1, QuietGo
  <1>2. CASE \/ RequestInsert(p) \/ ApproveRefused(p) \/ ApproveClaimFails(p)
             \/ RevokeClaimFails(p)
    BY <1>2, QuietFinish DEF RequestInsert, ApproveRefused, ApproveClaimFails,
                             RevokeClaimFails
  <1>3. CASE \E r \in Requests : ApproveStart(p, r) \/ RevokeStart(p, r)
    <2>1. pc'[p] = "proxy" /\ UNCHANGED <<acl, late, fresh>>
      BY <1>0, <1>3 DEF ApproveStart, RevokeStart, Goto, edge
    <2> QED
      BY <2>1, QuietGo
  <1>4. CASE TakeProxy(p)
    <2>1. p \in Roles
      BY <1>4, RoleOf DEF TakeProxy
    <2>2. pc'[p] \in {"admit", "claim", "owned"} /\ UNCHANGED <<acl, late, fresh>>
      BY <1>0, <1>4, <2>1, ConstantsAssumption DEF TakeProxy, Goto, edge, Roles
    <2> QED
      BY <2>2, QuietGo
  <1>5. CASE ProxyTimeout(p) \/ ApproveAdmit(p) \/ ApproveClaim(p) \/ RevokeClaim(p)
    <2>1. /\ pc'[p] \in {"resched", "done", "claim", "ckey"}
          /\ UNCHANGED <<acl, late, fresh>>
      BY <1>0, <1>5 DEF ProxyTimeout, ApproveAdmit, ApproveClaim, RevokeClaim, Goto, edge
    <2> QED
      BY <2>1, QuietGo
  <1> QED
    BY <1>1, <1>2, <1>3, <1>4, <1>5

LEMMA QuietSection ==
  ASSUME WellFormed, StoppedLeave, NEW p \in Procs, CheckActive(p) => status = "active",
         EnterConsumer(p) \/ ConsumerTimeout(p) \/ CheckActive(p) \/ Get(p)
  PROVE  Quiet(p)
  <1>0. pc \in [Procs -> PCs]
    BY DEF WellFormed, Machines
  <1>1. CASE EnterConsumer(p) \/ CheckActive(p)
    <2>1. pc'[p] \in {"check", "get"} /\ UNCHANGED <<acl, late, fresh>>
      BY <1>0, <1>1 DEF EnterConsumer, CheckActive, LeaveConsumer, Goto, edge
    <2> QED
      BY <2>1, QuietGo
  <1>2. CASE ConsumerTimeout(p)
    <2>1. p \in Roles
      BY <1>2, RoleOf DEF ConsumerTimeout
    <2> QED
      BY <1>2, <2>1, QuietFails DEF ConsumerTimeout, edge, WayOut
  <1>3. CASE Get(p)
    <2>1. p \in Roles
      BY <1>3, RoleOf DEF Get
    <2>2. CASE SectionFails(p) /\ UNCHANGED fresh
      BY <1>3, <2>1, <2>2, QuietFails DEF Get, WayOut
    <2>3. CASE fresh' = [fresh EXCEPT ![p] = TRUE] /\ Goto(p, "guard")
      <3>1. pc'[p] = "guard" /\ UNCHANGED <<acl, late>>
        BY <1>0, <1>3, <2>3 DEF Get, Goto
      <3> QED
        BY <2>3, <3>1, QuietGo
    <2> QED
      BY <1>3, <2>2, <2>3 DEF Get
  <1> QED
    BY <1>1, <1>2, <1>3

LEMMA QuietGuard ==
  ASSUME WellFormed, NEW p \in Procs,
         \/ GuardApproval(p) \/ GuardUnwind(p) \/ GuardRevocation(p) \/ GuardReconcile(p)
  PROVE  Quiet(p)
  <1>0. pc \in [Procs -> PCs] /\ memo \in [Procs -> MemoRecords]
    BY DEF WellFormed, Machines
  <1>1. CASE Finish(p)
    BY <1>1, QuietFinish DEF GuardApproval, GuardUnwind, GuardRevocation, GuardReconcile, edge
  <1>2. CASE ~ Finish(p)
    <2>1. UNCHANGED <<acl, late, fresh, job, grant, subj, req>> /\ pc[p] = "guard"
      BY <1>2 DEF GuardApproval, GuardUnwind, GuardRevocation, GuardReconcile, edge, db
    <2>2. ActiveOn(Api(p))' = ActiveOn(Api(p))
      BY <2>1 DEF ActiveOn, Api
    <2>3. CASE GuardApproval(p)
      <3>1. memo' = memo /\ p \in Approvers /\ Owns(p, "approve") /\ pc'[p] \in {"put", "resched"}
        BY <1>0, <1>2, <2>3 DEF GuardApproval, LeaveConsumer, Goto, Adding
      <3>2. Ready(p)'
        BY <2>1, <3>1, ConstantsAssumption DEF Ready, Owns
      <3> QED
        BY <2>1, <3>1, <3>2 DEF Quiet, Calm, Settling
    <2>4. CASE GuardUnwind(p)
      <3>1. /\ memo' = memo /\ p \in Approvers /\ memo[p].undo
            /\ \/ pc'[p] \in {"put", "resched"}
               \/ pc'[p] = "drop" /\ ActiveOn(Api(p)) # {}
        BY <1>0, <2>4 DEF GuardUnwind, LeaveConsumer, Goto
      <3>2. Ready(p)'
        BY <3>1, ConstantsAssumption DEF Ready
      <3>3. Calm(p)
        BY <2>1, <3>1, JobKindStays DEF Calm, Settling
      <3> QED
        BY <2>1, <3>2, <3>3 DEF Quiet
    <2>5. CASE GuardRevocation(p)
      <3>1. /\ memo' = memo
            /\ pc'[p] = "put" \/ (pc'[p] = "drop" /\ ActiveOn(Api(p)) # {})
            /\ p \in Revokers \/ (p \in Workers /\ memo[p].kind = "revoke")
        BY <1>0, <1>2, <2>5 DEF GuardRevocation, LeaveConsumer, Goto
      <3>2. Ready(p)'
        BY <3>1, ConstantsAssumption DEF Ready
      <3>3. Calm(p)
        BY <2>1, <3>1, JobKindStays DEF Calm, Settling
      <3> QED
        BY <2>1, <3>2, <3>3 DEF Quiet
    <2>6. CASE GuardReconcile(p)
      <3> DEFINE L == ActiveOn(Api(p))
                 b == status = "active"
                 m == [memo[p] EXCEPT !.live = L, !.on = b]
      <3>1. memo'[p] = m /\ pc'[p] = "put" /\ memo[p] \in MemoRecords /\ p \in Workers
        BY <1>0, <2>6 DEF GuardReconcile, Recall, Goto
      <3>2. m.live = L
        BY <3>1 DEF MemoRecords
      <3> HIDE DEF m, b
      <3>3. Ready(p)'
        BY <2>2, <3>1, <3>2, ConstantsAssumption DEF Ready
      <3> QED
        BY <2>1, <3>1, <3>3 DEF Quiet, Calm, Settling
    <2> QED
      BY <2>3, <2>4, <2>5, <2>6
  <1> QED
    BY <1>1, <1>2

LEMMA QuietSettle ==
  ASSUME WellFormed, StoppedLeave, NEW p \in Procs,
         \/ GrantCommit(p) \/ GrantFails(p) \/ UnwindApproval(p) \/ SettleRequest(p)
         \/ SettleJob(p)
  PROVE  Quiet(p)
  <1>0. /\ pc \in [Procs -> PCs] /\ memo[p] \in MemoRecords
        /\ UNCHANGED <<acl, late>>
    BY RoleOf DEF WellFormed, Machines, GrantCommit, GrantFails, UnwindApproval,
                  SettleRequest, SettleJob, edge
  <1>1. CASE GrantCommit(p) \/ SettleJob(p)
    BY <1>0, <1>1, QuietFinish DEF GrantCommit, SettleJob
  <1>2. CASE GrantFails(p)
    <2>1. pc'[p] = "live" /\ UNCHANGED fresh /\ memo' = memo /\ memo[p].added
      BY <1>0, <1>2 DEF GrantFails, LeaveConsumer, Goto, edge, StoppedLeave, WayOut
    <2> QED
      BY <1>0, <2>1, QuietGo
  <1>3. CASE UnwindApproval(p)
    <2>1. UNCHANGED <<fresh, job, grant, subj>> /\ p \in Approvers /\ pc[p] = "live"
      BY <1>3 DEF UnwindApproval, db, edge
    <2>2. \/ pc'[p] \in {"resched", "ckey"}
          \/ pc'[p] = "drop" /\ memo' = memo /\ ActiveOn(Api(p)) # {}
          \/ pc'[p] = "settle" /\ ~ memo[p].added
      BY <1>0, <1>3 DEF UnwindApproval, Goto
    <2>3. CASE pc'[p] \in {"resched", "ckey"}
      BY <1>0, <2>1, <2>3, QuietGo
    <2>4. CASE pc'[p] = "drop" /\ memo' = memo /\ ActiveOn(Api(p)) # {}
      <3>1. Calm(p)
        BY <2>1, <2>4, JobKindStays DEF Calm
      <3> QED
        BY <1>0, <2>1, <2>4, <3>1 DEF Quiet, Ready
    <2>5. CASE pc'[p] = "settle" /\ ~ memo[p].added
      <3>1. Settling(p)
        BY <2>1, <2>5 DEF Settling
      <3>2. JobKind(p)' = JobKind(p)
        BY <2>1 DEF JobKind
      <3>3. Calm(p)
        BY <2>1, <3>1, <3>2 DEF Calm
      <3> QED
        BY <1>0, <2>1, <2>5, <3>3 DEF Quiet, Ready
    <2> QED
      BY <2>2, <2>3, <2>4, <2>5
  <1>4. CASE SettleRequest(p)
    <2>1. UNCHANGED <<fresh, job, grant, subj, memo>> /\ pc[p] = "settle"
      BY <1>4 DEF SettleRequest, edge
    <2>2. pc'[p] = "resched" \/ (pc'[p] = "drop" /\ memo[p].ok)
      BY <1>0, <1>4 DEF SettleRequest, Goto
    <2>3. CASE pc'[p] = "resched"
      BY <1>0, <2>1, <2>3, QuietGo
    <2>4. CASE pc'[p] = "drop" /\ memo[p].ok
      <3>1. Calm(p)
        BY <2>1, <2>4, JobKindStays DEF Calm, Settling
      <3> QED
        BY <1>0, <2>1, <2>4, <3>1 DEF Quiet, Ready
    <2> QED
      BY <2>2, <2>3, <2>4
  <1> QED
    BY <1>1, <1>2, <1>3, <1>4

LEMMA QuietRest ==
  ASSUME WellFormed, NEW p \in Procs,
         \/ RollbackEnter(p) \/ RollbackGet(p) \/ RollbackLifecycle(p) \/ RollbackTimeout(p)
         \/ RestoreCommit(p) \/ RestoreFails(p) \/ RecoverApproval(p) \/ WorkerComplete(p)
         \/ WorkerCompleteFails(p) \/ Crash(p)
         \/ \E kind \in Kinds, r \in Requests : WorkerClaim(p, kind, r)
  PROVE  Quiet(p)
  <1>0. pc \in [Procs -> PCs]
    BY DEF WellFormed, Machines
  <1>1. CASE RollbackEnter(p) \/ RollbackGet(p) \/ RollbackLifecycle(p) \/ RollbackTimeout(p)
    <2>1. /\ pc'[p] \in {"rget", "rlife", "restore", "rckey", "resched"}
          /\ UNCHANGED <<acl, late, fresh>>
      BY <1>0, <1>1 DEF RollbackEnter, RollbackGet, RollbackLifecycle, RollbackTimeout,
                        RestoreAlone, Goto, edge
    <2> QED
      BY <2>1, QuietGo
  <1>2. CASE RestoreCommit(p) \/ RestoreFails(p)
    <2>1. /\ RestoreAlone(p) \/ ResumeUnderFreshProxy(p) \/ Goto(p, "resched")
          /\ UNCHANGED <<acl, late, fresh>>
      BY <1>2 DEF RestoreCommit, RestoreFails, edge
    <2>2. pc'[p] \in {"rckey", "resched"}
      BY <1>0, <2>1 DEF RestoreAlone, ResumeUnderFreshProxy, Goto
    <2> QED
      BY <2>1, <2>2, QuietGo
  <1>3. CASE RecoverApproval(p)
    <2>1. Finish(p) \/ (pc'[p] = "ckey" /\ UNCHANGED fresh)
      BY <1>0, <1>3 DEF RecoverApproval, Goto
    <2> QED
      BY <1>3, <2>1, QuietFinish, QuietGo DEF RecoverApproval
  <1>4. CASE WorkerComplete(p)
    BY <1>4, QuietFinish DEF WorkerComplete
  <1>5. CASE \/ WorkerCompleteFails(p)
             \/ \E kind \in Kinds, r \in Requests : WorkerClaim(p, kind, r)
    <2>1. pc'[p] \in {"resched", "ckey", "proxy"} /\ UNCHANGED <<acl, late, fresh>>
      BY <1>0, <1>5 DEF WorkerCompleteFails, WorkerClaim, Goto, edge
    <2> QED
      BY <2>1, QuietGo
  <1>6. CASE Crash(p)
    <2>1. /\ pc'[p] \in {"idle", "crashed"} /\ UNCHANGED <<acl, late>>
          /\ fresh' = [fresh EXCEPT ![p] = FALSE]
      BY <1>0, <1>6 DEF Crash
    <2> QED
      BY <2>1, QuietGo
  <1> QED
    BY <1>1, <1>2, <1>3, <1>4, <1>5, <1>6

(* Every step but the writes of the consumer is quiet. *)
LEMMA QuietStep ==
  ASSUME WellFormed, StoppedLeave, NEW p \in Procs, Step(p) \/ Crash(p),
         CheckActive(p) => status = "active"
  PROVE  Quiet(p) \/ PutGroup(p) \/ TakeOffGroup(p) \/ PutReconciled(p)
  BY QuietStart, QuietSection, QuietGuard, QuietSettle, QuietRest DEF Step

-----------------------------------------------------------------------------
(* The groups on the consumer are covered. *)

LEMMA ApiIs ==
  ASSUME WellFormed, NEW p \in Procs
  PROVE  Api(p) \in Apis
  BY RoleOf, KeysAre DEF Api

LEMMA ReconciledStays ==
  ASSUME WellFormed, Gateway, NEW p \in Procs, Elsewhere(p), Keeps, NEW w \in Workers,
         w # p, fresh'[w] => fresh[w], pc'[w] = "put", memo'[w].kind = "approve",
         memo'[w].live # {}, fresh'[w]
  PROVE  ActiveOn(Api(w))' # {} \/ Removal(Api(w))'
  <1>1. w \in Procs
    BY DEF Procs
  <1>2. PICK a \in Apis : a = Api(w)
    BY <1>1, ApiIs
  <1>3. /\ pc[w] = "put" /\ memo[w].kind = "approve" /\ memo[w].live # {} /\ fresh[w]
        /\ subj'[w] = subj[w]
    BY <1>1 DEF Elsewhere
  <1>4. Api(w)' = a
    BY <1>2, <1>3 DEF Api
  <1>5. ActiveOn(a) # {} \/ Removal(a)
    BY <1>2, <1>3 DEF Gateway, Reconciled
  <1>6. ActiveOn(a)' # {} \/ Removal(a)'
    BY <1>5, CoverStays
  <1> QED
    BY <1>4, <1>6 DEF ActiveOn, Removal

LEMMA ExposedStays ==
  ASSUME WellFormed, NEW p \in Procs, Elsewhere(p), NEW a \in Apis,
         \A q \in Procs : q # p => (fresh'[q] => fresh[q]),
         NEW q \in Approvers, q # p, (Adding(q) /\ pc[q] = "put" /\ fresh[q] /\ Api(q) = a)'
  PROVE  Exposed(a)
  <1>1. q \in Procs
    BY DEF Procs
  <1>2. Adding(q) /\ pc[q] = "put" /\ fresh[q] /\ Api(q) = a
    BY <1>1 DEF Elsewhere, Adding, Api
  <1> QED
    BY <1>2 DEF Exposed

LEMMA QuietGateway ==
  ASSUME WellFormed, WellFormed', History, Gateway, NEW p \in Procs, Store(p), Elsewhere(p),
         Quiet(p)
  PROVE  Gateway'
  <1>1. Keeps
    BY KeepsOf DEF Quiet
  <1>2. ASSUME NEW a \in Apis, Exposed(a)' PROVE Covered(a)'
    <2>1. CASE Exposed(a)
      BY <1>1, <2>1, CoverStays DEF Gateway, Accounted
    <2>2. CASE (Adding(p) /\ pc[p] = "put" /\ fresh[p] /\ Api(p) = a)'
      <3>1. PICK r \in Requests : r = subj'[p]
        BY DEF WellFormed, Machines
      <3>2. job'["approve"][r] = [st |-> "sending", gen |-> p]
        BY <2>2, <3>1 DEF Quiet, Ready, Adding, Owns
      <3>3. ~ Settling(p)'
        BY <2>2 DEF Settling
      <3>4. Firm("approve", r)' /\ ApiOf[r] = a
        BY <2>2, <3>1, <3>2, <3>3, FirmNow DEF Kinds, Api
      <3> QED
        BY <3>4 DEF Covered, Kinds
    <2>3. CASE a \in acl' \/ \E q \in Procs : \E g \in late'[q] : a \in g
      BY <2>1, <2>3 DEF Quiet, Exposed
    <2>4. ASSUME NEW q \in Approvers, q # p,
                 (Adding(q) /\ pc[q] = "put" /\ fresh[q] /\ Api(q) = a)'
          PROVE  Covered(a)'
      BY <2>1, <2>4, ExposedStays DEF Quiet
    <2> QED
      BY <1>2, <2>2, <2>3, <2>4 DEF Exposed
  <1>3. ASSUME NEW w \in Workers, pc'[w] = "put", memo'[w].kind = "approve",
               memo'[w].live # {}, fresh'[w]
        PROVE  ActiveOn(Api(w))' # {} \/ Removal(Api(w))'
    <2>1. CASE w = p
      BY <1>3, <2>1 DEF Quiet, Ready
    <2>2. CASE w # p
      <3>1. fresh'[w] => fresh[w]
        BY <2>2 DEF Quiet, Procs
      <3> QED
        BY <1>1, <1>3, <2>2, <3>1, ReconciledStays
    <2> QED
      BY <2>1, <2>2
  <1> QED
    BY <1>2, <1>3 DEF Gateway, Accounted, Reconciled

(* A write of the consumer that failed, or that left its caller to commit. *)
LEMMA WriteGateway ==
  ASSUME WellFormed, WellFormed', History, Gateway, NEW p \in Procs, Elsewhere(p),
         UNCHANGED <<req, grant, job>>, ~ Settling(p)', pc'[p] # "put",
         NEW groups, Written(p, groups),
         \A a \in groups : fresh[p] => Covered(a) \/ Exposed(a),
         groups \in SUBSET Apis
  PROVE  Gateway'
  <1>1. Keeps
    BY KeepsOf DEF Store, Calm
  <1>2. \A q \in Procs : q # p => (fresh'[q] => fresh[q])
    BY WrittenIs
  <1>3. ASSUME NEW a \in groups, fresh[p] PROVE a \in Apis /\ Covered(a)
    BY <1>3 DEF Gateway, Accounted, Exposed
  <1>4. ASSUME NEW a \in Apis, Exposed(a)' PROVE Covered(a)'
    <2>1. CASE Exposed(a)
      BY <1>1, <2>1, CoverStays DEF Gateway, Accounted
    <2>2. CASE fresh[p] /\ a \in groups
      BY <1>1, <1>3, <2>2, CoverStays
    <2>3. ASSUME NEW q \in Approvers, (Adding(q) /\ pc[q] = "put" /\ fresh[q] /\ Api(q) = a)'
          PROVE  Covered(a)'
      <3>1. q # p
        BY <2>3
      <3> QED
        BY <1>2, <2>1, <2>3, <3>1, ExposedStays
    <2>4. CASE a \in acl' \/ \E q \in Procs : \E g \in late'[q] : a \in g
      <3>1. CASE fresh[p] /\ EdgeWrite(groups)
        BY <2>2, <2>4, <3>1 DEF EdgeWrite
      <3>2. CASE UNCHANGED edge
        BY <2>1, <2>4, <3>2 DEF edge, Exposed
      <3>3. CASE /\ fresh[p] /\ late' = [late EXCEPT ![p] = @ \cup {groups}]
                 /\ UNCHANGED <<acl, fresh>>
        <4>1. CASE a \in acl'
          BY <2>1, <3>3, <4>1 DEF Exposed
        <4>2. ASSUME NEW q \in Procs, NEW g \in late'[q], a \in g PROVE Covered(a)'
          <5>1. g \in late[q] \/ g = groups
            BY <3>3, <4>2 DEF WellFormed, Machines
          <5> QED
            BY <2>1, <2>2, <3>3, <4>2, <5>1 DEF Exposed
        <4> QED
          BY <2>4, <4>1, <4>2
      <3> QED
        BY <3>1, <3>2, <3>3 DEF Written
    <2> QED
      BY <1>4, <2>3, <2>4 DEF Exposed
  <1>5. ASSUME NEW w \in Workers, pc'[w] = "put", memo'[w].kind = "approve",
               memo'[w].live # {}, fresh'[w]
        PROVE  ActiveOn(Api(w))' # {} \/ Removal(Api(w))'
    <2>1. w # p /\ w \in Procs
      BY <1>5 DEF Procs
    <2> QED
      BY <1>1, <1>2, <1>5, <2>1, ReconciledStays
  <1> QED
    BY <1>4, <1>5 DEF Gateway, Accounted, Reconciled

(* A write that landed, with the caller about to settle its job. *)
LEMMA LandedGateway ==
  ASSUME WellFormed, WellFormed', Gateway, NEW p \in Procs, Elsewhere(p),
         UNCHANGED <<req, grant, job, subj, memo>>, NEW groups \in SUBSET Apis,
         EdgeWrite(groups),
         \A a \in groups : a \in acl \/ a = Api(p),
         Api(p) \in groups =>
           /\ JobKind(p) = "approve"
           /\ ActiveOn(Api(p)) # {} \/ Removal(Api(p))
  PROVE  Gateway'
  <1>1. acl' = groups /\ (\A q \in Procs : fresh'[q] = FALSE /\ late'[q] = {})
    BY DEF EdgeWrite
  <1>2. PICK s \in Apis : s = Api(p)
    BY ApiIs
  <1>3. ASSUME NEW a \in groups PROVE Covered(a)'
    <2>1. ActiveOn(a) # {} => Covered(a)'
      BY DEF Covered, ActiveOn
    <2>2. CASE a # s
      <3>1. Covered(a)
        BY <1>2, <1>3, <2>2 DEF Gateway, Accounted, Exposed
      <3>2. ASSUME NEW k \in Kinds, NEW r \in Requests, ApiOf[r] = a, Firm(k, r)
            PROVE  Covered(a)'
        <4>1. ~ OnJob(p, k, r)'
          BY <1>2, <2>2, <3>2 DEF OnJob, Api
        <4>2. Firm(k, r)'
          BY <3>2, <4>1, FirmStays
        <4> QED
          BY <3>2, <4>2 DEF Covered
      <3> QED
        BY <2>1, <3>1, <3>2 DEF Covered
    <2>3. CASE a = s
      <3>1. JobKind(p) = "approve" /\ (ActiveOn(a) # {} \/ Removal(a))
        BY <1>2, <1>3, <2>3
      <3>2. ASSUME NEW r \in Requests, ApiOf[r] = a, Firm("revoke", r)
            PROVE  Covered(a)'
        <4>1. JobKind(p)' = "approve"
          BY <3>1, JobKindStays
        <4>2. ~ OnJob(p, "revoke", r)'
          BY <4>1 DEF OnJob
        <4>3. Firm("revoke", r)'
          BY <3>2, <4>2, FirmStays DEF Kinds
        <4> QED
          BY <3>2, <4>3 DEF Covered, Kinds
      <3> QED
        BY <2>1, <3>1, <3>2 DEF Removal
    <2> QED
      BY <2>2, <2>3
  <1>4. \A q \in Approvers : ~ fresh'[q]
    BY <1>1 DEF Procs
  <1>5. Accounted'
    BY <1>1, <1>3, <1>4 DEF Accounted, Exposed
  <1>6. Reconciled'
    BY <1>1 DEF Reconciled, Procs
  <1> QED
    BY <1>5, <1>6 DEF Gateway

LEMMA PutsGateway ==
  ASSUME WellFormed, WellFormed', StoppedLeave, History, Gateway, NEW p \in Procs, Elsewhere(p),
         PutGroup(p) \/ TakeOffGroup(p) \/ PutReconciled(p)
  PROVE  Gateway'
  <1>0. /\ pc \in [Procs -> PCs] /\ UNCHANGED <<req, grant, job, subj>> /\ pc[p] = "put"
        /\ p \in Roles /\ acl \in SUBSET Apis /\ Api(p) \in Apis
    <2>1. UNCHANGED <<req, grant, job, subj>> /\ pc[p] = "put" /\ p \in Roles
      BY DEF PutGroup, TakeOffGroup, PutReconciled, db, Adding, Roles
    <2> QED
      BY <2>1, RoleOf, ApiIs DEF WellFormed, Machines, Rows
  <1>1. SectionFails(p) => ~ Settling(p)' /\ pc'[p] # "put"
    BY <1>0, FailsUnsettled DEF WayOut
  <1>e. \A a \in acl : Exposed(a)
    BY DEF Exposed
  <1>2. CASE PutGroup(p)
    <2>1. /\ Written(p, acl \cup {Api(p)})
          /\ (Moves(p, "grant") /\ memo' = memo) \/ SectionFails(p)
      BY <1>2, WFPutGroup
    <2>2. ~ Settling(p)' /\ pc'[p] # "put"
      BY <1>0, <1>1, <2>1 DEF Moves, Settling
    <2>3. fresh[p] => Exposed(Api(p))
      BY <1>0, <1>2 DEF PutGroup, Adding, Exposed
    <2>4. acl \cup {Api(p)} \in SUBSET Apis
      BY <1>0
    <2> QED
      BY <1>0, <1>e, <2>1, <2>2, <2>3, <2>4, WriteGateway
  <1>3. CASE TakeOffGroup(p)
    <2>1. /\ Written(p, acl \ {Api(p)})
          /\ (memo' = memo /\ EdgeWrite(acl \ {Api(p)})) \/ SectionFails(p)
      BY <1>3, WFTakeOffGroup
    <2>2. acl \ {Api(p)} \in SUBSET Apis
      BY <1>0
    <2>3. CASE SectionFails(p)
      BY <1>0, <1>1, <1>e, <2>1, <2>2, <2>3, WriteGateway
    <2>4. CASE memo' = memo /\ EdgeWrite(acl \ {Api(p)})
      BY <1>0, <2>2, <2>4, LandedGateway
    <2> QED
      BY <2>1, <2>3, <2>4
  <1>4. CASE PutReconciled(p)
    <2>1. /\ Written(p, Groups(p)) /\ p \in Workers
          /\ (memo' = memo /\ EdgeWrite(Groups(p)) /\ fresh[p]) \/ SectionFails(p)
      BY <1>4, WFPutReconciled
    <2>2. /\ Groups(p) \in SUBSET Apis /\ (memo[p].live = {} => Groups(p) = acl \ {Api(p)})
          /\ \A a \in Groups(p) : a \in acl \/ a = Api(p)
      BY GroupsAre
    <2>3. Api(p) \in Groups(p) /\ fresh[p] => ActiveOn(Api(p)) # {} \/ Removal(Api(p))
      BY <1>0, <1>4, <2>1, <2>2 DEF PutReconciled, Gateway, Reconciled
    <2>4. ActiveOn(Api(p)) # {} \/ Removal(Api(p)) => Covered(Api(p))
      BY DEF Removal, Covered, Kinds
    <2>5. JobKind(p) = "approve"
      BY <1>4, <2>1, JobKindIs DEF PutReconciled
    <2> HIDE DEF Groups
    <2>6. CASE SectionFails(p)
      BY <1>0, <1>1, <1>e, <2>1, <2>2, <2>3, <2>4, <2>6, WriteGateway
    <2>7. CASE memo' = memo /\ EdgeWrite(Groups(p)) /\ fresh[p]
      BY <1>0, <2>2, <2>3, <2>5, <2>7, LandedGateway
    <2> QED
      BY <2>1, <2>6, <2>7
  <1> QED
    BY <1>2, <1>3, <1>4

(* Steps that leave every process where it is. *)
LEMMA FirmInPlace ==
  ASSUME UNCHANGED <<pc, memo, subj>>, NEW k \in Kinds, NEW r \in Requests, Firm(k, r),
         job'[k][r] = job[k][r]
  PROVE  Firm(k, r)'
  BY DEF Firm, OnJob, JobKind, Settling

LEMMA StillGateway ==
  ASSUME WellFormed, Gateway, UNCHANGED <<pc, memo, subj, grant>>,
         \A k \in Kinds, r \in Requests : Firm(k, r) => Firm(k, r)',
         \A q \in Procs : fresh'[q] => fresh[q],
         \A a \in Apis : a \in acl' => Exposed(a),
         \A q \in Procs : late'[q] \subseteq late[q]
  PROVE  Gateway'
  <1>1. \A a \in Apis : ActiveOn(a) # {} => ActiveOn(a)' # {}
    BY DEF ActiveOn
  <1>2. Keeps
    BY <1>1 DEF Keeps
  <1>3. ASSUME NEW a \in Apis, Exposed(a)' PROVE Covered(a)'
    <2>1. CASE Exposed(a)
      BY <1>2, <2>1, CoverStays DEF Gateway, Accounted
    <2>2. ASSUME NEW q \in Approvers, (Adding(q) /\ pc[q] = "put" /\ fresh[q] /\ Api(q) = a)'
          PROVE  Exposed(a)
      <3>1. Adding(q) /\ pc[q] = "put" /\ fresh[q] /\ Api(q) = a
        BY <2>2 DEF Adding, Api, Procs
      <3> QED
        BY <3>1 DEF Exposed
    <2>3. CASE a \in acl' \/ \E q \in Procs : \E g \in late'[q] : a \in g
      BY <2>1, <2>3 DEF Exposed
    <2> QED
      BY <1>3, <2>1, <2>2, <2>3 DEF Exposed
  <1>4. ASSUME NEW w \in Workers, pc'[w] = "put", memo'[w].kind = "approve",
               memo'[w].live # {}, fresh'[w]
        PROVE  ActiveOn(Api(w))' # {} \/ Removal(Api(w))'
    <2>1. PICK a \in Apis : a = Api(w)
      BY ApiIs DEF Procs
    <2>2. ActiveOn(a) # {} \/ Removal(a)
      BY <1>4, <2>1 DEF Gateway, Reconciled, Procs
    <2>3. ActiveOn(a)' # {} \/ Removal(a)'
      BY <1>2, <2>2, CoverStays
    <2>4. Api(w)' = a
      BY <2>1 DEF Api
    <2> QED
      BY <2>3, <2>4 DEF ActiveOn, Removal
  <1> QED
    BY <1>3, <1>4 DEF Gateway, Accounted, Reconciled

LEMMA GatewayInit == Init => Gateway
  <1> SUFFICES ASSUME Init PROVE Gateway
    OBVIOUS
  <1>1. Accounted
    BY DEF Init, Accounted, Exposed, Procs
  <1>2. Reconciled
    BY DEF Init, Reconciled, Procs
  <1> QED
    BY <1>1, <1>2 DEF Gateway

LEMMA GatewayStep ==
  ASSUME WellFormed, StoppedLeave, status = "active", History, Gateway, [Next]_vars
  PROVE  Gateway'
  <1>0. WellFormed'
    BY WellFormedStep
  <1>1. ASSUME NEW p \in Procs, Step(p) PROVE Gateway'
    <2>1. Store(p) /\ Elsewhere(p)
      BY <1>1, StoreOf, OthersStay
    <2> QED
      BY <1>0, <1>1, <2>1, QuietStep, QuietGateway, PutsGateway
  <1>2. ASSUME NEW p \in Procs, Crash(p) PROVE Gateway'
    <2>1. Store(p) /\ Elsewhere(p)
      BY <1>2 DEF Crash, db, Store, Elsewhere, WellFormed, Machines
    <2>2. Quiet(p)
      BY <1>2, QuietRest
    <2> QED
      BY <1>0, <2>1, <2>2, QuietGateway
  <1>3. ASSUME NEW p \in Procs, LateLands(p) PROVE Gateway'
    <2>1. PICK g \in late[p] : EdgeWrite(g)
      BY <1>3 DEF LateLands
    <2>2. UNCHANGED <<pc, memo, subj, grant, job>>
      BY <1>3 DEF LateLands, db
    <2>3. /\ \A a \in Apis : a \in acl' => Exposed(a)
          /\ \A q \in Procs : (fresh'[q] => fresh[q]) /\ late'[q] \subseteq late[q]
      BY <2>1 DEF EdgeWrite, Exposed
    <2>4. \A k \in Kinds, r \in Requests : Firm(k, r) => Firm(k, r)'
      BY <2>2, FirmInPlace
    <2> QED
      BY <2>2, <2>3, <2>4, StillGateway
  <1>4. CASE UNCHANGED <<pc, memo, subj, grant, acl, fresh, late, job>>
    <2>1. \A k \in Kinds, r \in Requests : Firm(k, r) => Firm(k, r)'
      BY <1>4, FirmInPlace
    <2> QED
      BY <1>4, <2>1, StillGateway DEF Exposed
  <1>5. ASSUME NEW kind \in Kinds, NEW r \in Requests, ReleaseStale(kind, r) PROVE Gateway'
    <2>1. /\ UNCHANGED <<pc, memo, subj, grant, acl, fresh, late>>
          /\ job' = [job EXCEPT ![kind][r].st = "pending"]
          /\ job \in [Kinds -> [Requests -> JobRows]]
      BY <1>5 DEF ReleaseStale, edge, WellFormed, Rows
    <2>2. job'[kind][r].st = "pending"
      BY <2>1 DEF JobRows
    <2>3. \A k \in Kinds, s \in Requests : (k # kind \/ s # r) => job'[k][s] = job[k][s]
      BY <2>1
    <2>4. Firm(kind, r)'
      BY <2>2 DEF Firm
    <2>5. \A k \in Kinds, s \in Requests : Firm(k, s) => Firm(k, s)'
      BY <2>1, <2>3, <2>4, FirmInPlace
    <2> QED
      BY <2>1, <2>5, StillGateway DEF Exposed
  <1>6. ASSUME NEW r \in Requests, Cancel(r) \/ Deny(r) PROVE Gateway'
    BY <1>4, <1>6 DEF Cancel, Deny, edge
  <1> QED
    BY <1>1, <1>2, <1>3, <1>4, <1>5, <1>6 DEF Next, Quiescent, vars

LEMMA StatusStays == [Next]_vars => status' = status
  <1> SUFFICES ASSUME [Next]_vars PROVE status' = status
    OBVIOUS
  <1>1. ASSUME NEW p \in Procs, Step(p) PROVE status' = status
    <2>1. ASSUME \/ RequestCheck(p) \/ RequestLock(p) \/ RequestInsert(p)
                 \/ \E r \in Requests : ApproveStart(p, r) \/ RevokeStart(p, r)
                 \/ TakeProxy(p) \/ ProxyTimeout(p) \/ ApproveAdmit(p) \/ ApproveRefused(p)
                 \/ ApproveClaim(p) \/ ApproveClaimFails(p) \/ EnterConsumer(p)
                 \/ ConsumerTimeout(p) \/ CheckActive(p) \/ Get(p)
          PROVE  status' = status
      BY <2>1 DEF RequestCheck, RequestLock, RequestInsert, ApproveStart, RevokeStart,
                  TakeProxy, ProxyTimeout, ApproveAdmit, ApproveRefused, ApproveClaim,
                  ApproveClaimFails, EnterConsumer, ConsumerTimeout, CheckActive, Get, db
    <2>2. ASSUME \/ GuardApproval(p) \/ GuardUnwind(p) \/ GuardRevocation(p)
                 \/ GuardReconcile(p) \/ PutGroup(p) \/ TakeOffGroup(p) \/ PutReconciled(p)
                 \/ GrantCommit(p) \/ GrantFails(p) \/ UnwindApproval(p)
                 \/ SettleRequest(p) \/ SettleJob(p)
          PROVE  status' = status
      BY <2>2 DEF GuardApproval, GuardUnwind, GuardRevocation, GuardReconcile, PutGroup,
                  TakeOffGroup, PutReconciled, GrantCommit, GrantFails, UnwindApproval,
                  SettleRequest, SettleJob, db
    <2>3. ASSUME \/ RevokeClaim(p) \/ RevokeClaimFails(p) \/ RollbackEnter(p)
                 \/ RollbackGet(p) \/ RollbackLifecycle(p) \/ RollbackTimeout(p)
                 \/ RestoreCommit(p) \/ RestoreFails(p)
                 \/ \E kind \in Kinds, r \in Requests : WorkerClaim(p, kind, r)
                 \/ RecoverApproval(p) \/ WorkerComplete(p) \/ WorkerCompleteFails(p)
          PROVE  status' = status
      BY <2>3 DEF RevokeClaim, RevokeClaimFails, RollbackEnter, RollbackGet,
                  RollbackLifecycle, RollbackTimeout, RestoreCommit, RestoreFails,
                  WorkerClaim, RecoverApproval, WorkerComplete, WorkerCompleteFails, db
    <2> QED
      BY <1>1, <2>1, <2>2, <2>3 DEF Step
  <1>2. ASSUME NEW p \in Procs, Crash(p) \/ LateLands(p) PROVE status' = status
    BY <1>2 DEF Crash, LateLands, db
  <1>3. ASSUME NEW kind, NEW r, Cancel(r) \/ Deny(r) \/ ReleaseStale(kind, r)
        PROVE  status' = status
    BY <1>3 DEF Cancel, Deny, ReleaseStale
  <1> QED
    BY <1>1, <1>2, <1>3 DEF Next, Quiescent, vars

LEMMA StoppedInit == Init => StoppedLeave
  BY BlankIs DEF Init, StoppedLeave, Procs

(* Only the account check stops an approval, and only Finish forgets it. *)
LEMMA StoppedAt ==
  ASSUME WellFormed, StoppedLeave, NEW p \in Approvers, p \in Procs, Step(p), ~ memo'[p].added
  PROVE  pc'[p] \in WayOut
  <1>0. pc \in [Procs -> PCs] /\ memo \in [Procs -> MemoRecords] /\ memo[p] \in MemoRecords
    BY DEF WellFormed, Machines
  <1>1. ~ Finish(p)
    BY <1>0, BlankIs DEF Finish
  <1>2. CASE \/ RequestCheck(p) \/ RequestLock(p) \/ RequestInsert(p)
             \/ \E r \in Requests : ApproveStart(p, r) \/ RevokeStart(p, r)
             \/ TakeProxy(p) \/ ProxyTimeout(p) \/ ApproveAdmit(p) \/ ApproveRefused(p)
             \/ ApproveClaim(p) \/ ApproveClaimFails(p) \/ EnterConsumer(p)
    <2>1. memo' = memo /\ pc[p] \notin WayOut
      BY <1>1, <1>2, ConstantsAssumption
         DEF RequestCheck, RequestLock, RequestInsert, ApproveStart, RevokeStart, TakeProxy,
             ProxyTimeout, ApproveAdmit, ApproveRefused, ApproveClaim, ApproveClaimFails,
             EnterConsumer, WayOut
    <2> QED
      BY <2>1 DEF StoppedLeave
  <1>3. CASE SectionFails(p)
    <2>1. pc'[p] \in {"live", "settle"}
      BY <1>0, <1>3, ConstantsAssumption
         DEF SectionFails, LeaveConsumer, Goto, OnError, Adding, MemoRecords
    <2> QED
      BY <2>1 DEF WayOut
  <1>4. CASE CheckActive(p)
    <2>1. pc'[p] = "live" \/ memo' = memo
      BY <1>0, <1>4 DEF CheckActive, LeaveConsumer, Goto
    <2> QED
      BY <1>4, <2>1 DEF CheckActive, StoppedLeave, WayOut
  <1>5. CASE /\ ~ SectionFails(p)
             /\ \/ ConsumerTimeout(p) \/ Get(p) \/ GuardApproval(p) \/ GuardUnwind(p)
                \/ PutGroup(p) \/ TakeOffGroup(p) \/ GrantCommit(p) \/ GrantFails(p)
    <2>1. memo' = memo /\ pc[p] \notin WayOut
      BY <1>1, <1>5
         DEF ConsumerTimeout, Get, GuardApproval, GuardUnwind, PutGroup, TakeOffGroup, Put,
             GrantCommit, GrantFails, WayOut
    <2> QED
      BY <2>1 DEF StoppedLeave
  <1>6. CASE UnwindApproval(p)
    <2>1. \/ pc'[p] \in {"drop", "resched", "settle"}
          \/ memo[p].added /\ Recall(p, [memo[p] EXCEPT !.undo = memo[p].added])
      BY <1>0, <1>6 DEF UnwindApproval, Goto
    <2>2. CASE memo[p].added /\ Recall(p, [memo[p] EXCEPT !.undo = memo[p].added])
      <3> DEFINE b == memo[p].added
                 m == [memo[p] EXCEPT !.undo = b]
      <3>1. memo'[p] = m
        BY <1>0, <2>2 DEF Recall
      <3> HIDE DEF b
      <3>2. m.added = memo[p].added
        BY <1>0 DEF MemoRecords
      <3> HIDE DEF m
      <3> QED
        BY <2>2, <3>1, <3>2
    <2> QED
      BY <2>1, <2>2 DEF WayOut
  <1>7. CASE SettleRequest(p)
    BY <1>0, <1>7 DEF SettleRequest, Goto, WayOut
  <1>8. ~ (\/ GuardRevocation(p) \/ GuardReconcile(p) \/ PutReconciled(p) \/ RevokeClaim(p)
           \/ RevokeClaimFails(p) \/ RollbackEnter(p) \/ RollbackGet(p)
           \/ RollbackLifecycle(p) \/ RollbackTimeout(p) \/ RestoreCommit(p)
           \/ RestoreFails(p) \/ RecoverApproval(p) \/ WorkerComplete(p)
           \/ WorkerCompleteFails(p) \/ SettleJob(p)
           \/ \E kind \in Kinds, r \in Requests : WorkerClaim(p, kind, r))
    BY <1>1, ConstantsAssumption
       DEF GuardRevocation, GuardReconcile, PutReconciled, RevokeClaim, RevokeClaimFails,
           RollbackEnter, RollbackGet, RollbackLifecycle, RollbackTimeout, RestoreCommit,
           RestoreFails, RecoverApproval, WorkerComplete, WorkerCompleteFails, SettleJob,
           WorkerClaim
  <1> QED
    BY <1>2, <1>3, <1>4, <1>5, <1>6, <1>7, <1>8 DEF Step

LEMMA StoppedStep ==
  ASSUME WellFormed, StoppedLeave, [Next]_vars
  PROVE  StoppedLeave'
  <1> SUFFICES ASSUME NEW q \in Approvers, ~ memo'[q].added PROVE pc'[q] \in WayOut
    BY DEF StoppedLeave
  <1>0. q \in Procs
    BY DEF Procs
  <1>1. CASE memo'[q] = memo[q] /\ pc'[q] = pc[q]
    BY <1>1 DEF StoppedLeave
  <1>2. ASSUME NEW p \in Procs, Step(p) PROVE pc'[q] \in WayOut
    BY <1>0, <1>1, <1>2, OthersStay, StoppedAt DEF Elsewhere
  <1>3. ASSUME NEW p \in Procs, Crash(p) PROVE pc'[q] \in WayOut
    <2>1. q # p
      BY <1>0, <1>3, BlankIs DEF Crash, WellFormed, Machines
    <2> QED
      BY <1>0, <1>1, <1>3, <2>1 DEF Crash, WellFormed, Machines
  <1>4. ASSUME NEW kind, NEW r, Cancel(r) \/ Deny(r) \/ ReleaseStale(kind, r)
        PROVE  pc'[q] \in WayOut
    BY <1>1, <1>4 DEF Cancel, Deny, ReleaseStale
  <1>5. ASSUME NEW p, LateLands(p) PROVE pc'[q] \in WayOut
    BY <1>1, <1>5 DEF LateLands
  <1>6. CASE UNCHANGED vars
    BY <1>1, <1>6 DEF vars
  <1> QED
    BY <1>2, <1>3, <1>4, <1>5, <1>6 DEF Next, Quiescent

(* No access the portal cannot see: every group on the Edge consumer has   *)
(* an active grant, or a durable job row owes its removal - through any    *)
(* number of crashes, lost answers, late PUTs, takeovers and stalls, of    *)
(* any number of approvals, revocations and recovery workers.              *)
THEOREM NoAccessIsStranded == Spec => []NoStrandedAccess
  <1> DEFINE Inv == WellFormed /\ History /\ StoppedLeave /\ status = "active" /\ Gateway
  <1>1. Init => Inv
    BY WellFormedInit, HistoryInit, StoppedInit, GatewayInit DEF Init
  <1>2. Inv /\ [Next]_vars => Inv'
    BY WellFormedStep, HistoryStep, StatusStays, StoppedStep, GatewayStep
  <1>3. Inv => NoStrandedAccess
    <2> SUFFICES ASSUME Inv, NEW a \in acl
                 PROVE  \/ ActiveOn(a) # {}
                        \/ \E kind \in Kinds, r \in Requests :
                             ApiOf[r] = a /\ job[kind][r].st # "none"
      BY DEF NoStrandedAccess
    <2>1. a \in Apis /\ Exposed(a)
      BY DEF WellFormed, Rows, Exposed
    <2>2. Covered(a)
      BY <2>1 DEF Gateway, Accounted
    <2> QED
      BY <2>2 DEF Covered, Firm
  <1> QED
    BY <1>1, <1>2, <1>3, PTL DEF Spec
===============================================================================
