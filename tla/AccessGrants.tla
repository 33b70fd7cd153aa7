----------------------------- MODULE AccessGrants -----------------------------
(***************************************************************************)
(* Access approvals and revocations of server/src/access/service.ts, the   *)
(* ACL round trip of server/src/credentials/consumers.ts and the recovery  *)
(* worker of server/src/access/gateway-job-worker.ts, for one identity:    *)
(* one Edge consumer, the APIs it may reach and the requests it made.      *)
(*                                                                         *)
(* An approval claims its request, writes the API's group onto the Edge    *)
(* consumer and then commits the grant; a revocation claims the grant and  *)
(* then takes the group off.  Between a claim and its gateway write the    *)
(* portal and the gateway disagree, and a durable job row owes the rest.   *)
(*                                                                         *)
(* Each operation is a process that advances from await to await.  Leases  *)
(* can be taken over, calls can fail with or without having applied, a PUT *)
(* can land late, and processes can crash.  The consumer PUT carries the   *)
(* row's entity tag; whether a process's tag is current is fresh[p].       *)
(* A grant is named by the request it came from.                           *)
(***************************************************************************)
EXTENDS Naturals

CONSTANTS
    Apis,         \* the APIs; each name also stands for the API's proxy lease
    Requests,     \* access requests the identity may make
    ApiOf,        \* the API a request is for
    Clients,      \* runs of request(), Submits[c] being the request made
    Submits,
    Approvers,    \* runs of approve()
    Revokers,     \* runs of revoke() or relinquish()
    Workers,      \* access gateway workers, each a loop
    Others,       \* further processes a composing module adds
    NoProc,       \* no process
    FaultKinds,   \* the faults that may happen: a subset of AllFaults
    MaxFaults     \* how many of them happen in one behaviour

AllFaults == {"refused",     \* an Edge or lock call fails without effect
              "lost",        \* a PUT applies, its acknowledgement is lost
              "dblost",      \* a transaction commits, its answer is lost
              "late",        \* a PUT times out and may still land later
              "db",          \* a transaction or statement fails
              "takeover",    \* a lease lapses under its holder and is taken
              "stall",       \* a job is released as stale under its owner
              "crash"}       \* a process stops for good; a worker restarts

OneShot == Clients \cup Approvers \cup Revokers
Procs == Clients \cup Approvers \cup Revokers \cup Workers \cup Others

consumer == "consumer"       \* the lease of the Edge consumer
lifecycle == "lifecycle"     \* the lease of the account's status
Keys == Apis \cup {consumer, lifecycle}

(* Every run of request() makes a request of its own. *)
ASSUME ConstantsAssumption ==
    /\ Requests # {} /\ ApiOf \in [Requests -> Apis]
    /\ Submits \in [Clients -> Requests]
    /\ \A c, d \in Clients : Submits[c] = Submits[d] => c = d
    /\ Clients \cap (Approvers \cup Revokers \cup Workers \cup Others) = {}
    /\ Approvers \cap (Revokers \cup Workers \cup Others) = {}
    /\ Revokers \cap (Workers \cup Others) = {} /\ Workers \cap Others = {}
    /\ {consumer, lifecycle} \cap Apis = {}
    /\ NoProc \notin Procs
    /\ FaultKinds \subseteq AllFaults
    /\ MaxFaults \in Nat

VARIABLES
    req,        \* req[r]: status of the access request
    grant,      \* grant[r]: the grant row and who revoked it
    job,        \* job[kind][r]: the access_gateway_jobs row of a subject
    acl,        \* the approval groups on the Edge consumer
    status,     \* status of the account
    lease,      \* lease[k]: whose token the lease row carries
    held,       \* held[p]: the leases the async context of p carries
    pc,         \* pc[p]: the await p is at
    subj,       \* subj[p]: the request, or the grant it led to, p works on
    memo,       \* memo[p]: what p remembers across awaits
    fresh,      \* fresh[p]: the entity tag p read is still the row's
    late,       \* late[p]: the PUT of p still under way, if any
    faults      \* faults so far

db == <<req, grant, job, status>>
edge == <<acl, fresh, late>>
vars == <<req, grant, job, acl, status, lease, held, pc, subj, memo, fresh,
          late, faults>>

Kinds == {"approve", "revoke"}
NoJob == [st |-> "none", gen |-> NoProc]
NoGrant == [st |-> "none", by |-> NoProc]
Blank == [kind |-> "none", undo |-> FALSE, added |-> TRUE, ok |-> TRUE,
          on |-> FALSE, status |-> "none", live |-> {}, todo |-> {}]

(* The awaits a process can be at. *)
PCs == {"idle", "done", "crashed", "submit", "insert", "proxy", "admit",
        "claim", "ckey", "check", "get", "guard", "put", "grant", "live",
        "settle", "drop", "resched", "rckey", "rget", "rlife", "restore",
        "owned", "complete", "lkey", "flip", "list", "sweep", "tclaim",
        "tuser", "towner", "grants", "tcreds", "tdone", "tfail",
        "cancel"}

TypeOK ==
    /\ req \in [Requests -> {"absent", "pending", "approved", "denied",
                             "cancelled", "revoked"}]
    /\ grant \in [Requests -> [st : {"none", "active", "revoked"},
                               by : Procs \cup {NoProc}]]
    /\ job \in [Kinds -> [Requests -> [st : {"none", "sending", "pending"},
                                       gen : Procs \cup {NoProc}]]]
    /\ acl \in SUBSET Apis
    /\ status \in {"active", "disabled"}
    /\ lease \in [Keys -> Procs \cup {NoProc}]
    /\ held \in [Procs -> SUBSET Keys]
    /\ pc \in [Procs -> PCs]
    /\ subj \in [Procs -> Requests]
    /\ memo \in [Procs -> [kind : Kinds \cup {"none", "teardown"},
                           undo : BOOLEAN, added : BOOLEAN, ok : BOOLEAN,
                           on : BOOLEAN,
                           status : {"none", "absent", "pending", "approved",
                                     "denied", "cancelled", "revoked",
                                     "active", "disabled"},
                           live : SUBSET Requests, todo : SUBSET Requests]]
    /\ fresh \in [Procs -> BOOLEAN]
    /\ late \in [Procs -> SUBSET (SUBSET Apis)]
    /\ faults \in 0..MaxFaults
    /\ \A p \in Procs : pc[p] \in {"idle", "done", "crashed"} => held[p] = {}

Init ==
    /\ req = [r \in Requests |-> "absent"]
    /\ grant = [r \in Requests |-> NoGrant]
    /\ job = [k \in Kinds |-> [r \in Requests |-> NoJob]]
    /\ acl = {}
    /\ status = "active"
    /\ lease = [k \in Keys |-> NoProc]
    /\ held = [p \in Procs |-> {}]
    /\ pc = [p \in Procs |-> "idle"]
    /\ subj \in [Procs -> {CHOOSE r \in Requests : TRUE}]
    /\ memo = [p \in Procs |-> Blank]
    /\ fresh = [p \in Procs |-> FALSE]
    /\ late = [p \in Procs |-> {}]
    /\ faults = 0

-----------------------------------------------------------------------------
(* Building blocks.                                                        *)

Fault(kind) ==
    /\ kind \in FaultKinds
    /\ faults < MaxFaults
    /\ faults' = faults + 1

(* grants.findActiveByApiAndUser, accessRequests.findPendingByApiAndUser. *)
ActiveOn(a) == {r \in Requests : ApiOf[r] = a /\ grant[r].st = "active"}
PendingOn(a) == {r \in Requests : ApiOf[r] = a /\ req[r] = "pending"}

Goto(p, label) == pc' = [pc EXCEPT ![p] = label]
Recall(p, m) == memo' = [memo EXCEPT ![p] = m]

(* The process's job row is still its own claim (stillOwned). *)
Owns(p, kind) == job[kind][subj[p]] = [st |-> "sending", gen |-> p]

(* A lease row is free, or it lapsed after its holder died. *)
Acquirable(k) ==
    IF lease[k] = NoProc THEN TRUE ELSE k \notin held[lease[k]]

(* serializePerKey gives p the key.  Taking it from a holder that is still *)
(* running means the holder stalled past its TTL.                          *)
TakeKey(p, k) ==
    /\ \/ Acquirable(k) /\ UNCHANGED faults
       \/ ~ Acquirable(k) /\ Fault("takeover")
    /\ lease' = [lease EXCEPT ![k] = p]
    /\ held' = [held EXCEPT ![p] = @ \cup {k}]

(* The wait for a key somebody else holds ran out. *)
LockTimeout(p, k) == ~ Acquirable(k) /\ Fault("refused")

(* Sections end: rows that still carry the token are deleted. *)
Release(p, keys) ==
    /\ lease' = [k \in Keys |-> IF k \in keys /\ lease[k] = p
                                 THEN NoProc ELSE lease[k]]
    /\ held' = [held EXCEPT ![p] = @ \ keys]

(* fenceTransactionBody: every held lease still carries the token of p. *)
FencesHold(p) == \A k \in held[p] : lease[k] = p

(* The operation of p is over; what is not one-shot may start again. *)
Finish(p) ==
    /\ Release(p, held[p])
    /\ pc' = [pc EXCEPT ![p] = IF p \in OneShot THEN "done" ELSE "idle"]
    /\ memo' = [memo EXCEPT ![p] = Blank]
    /\ fresh' = [fresh EXCEPT ![p] = FALSE]

(* p leaves the consumer's section and goes on at label. *)
LeaveConsumer(p, label) == Release(p, {consumer}) /\ Goto(p, label)

(* An Edge write changes the row's tag: every tag read before is stale,    *)
(* and a PUT still under way with such a tag will be refused.              *)
EdgeWrite(groups) ==
    /\ acl' = groups
    /\ fresh' = [q \in Procs |-> FALSE]
    /\ late' = [q \in Procs |-> {}]

(* edge.consumers.replace with If-Match: what it may do to the row, and    *)
(* whether the caller goes on as after a success or as after an error.     *)
Put(p, groups, landed, failed) ==
    \/ fresh[p] /\ EdgeWrite(groups) /\ UNCHANGED faults /\ landed
    \/ ~ fresh[p] /\ UNCHANGED <<edge, faults>> /\ failed
    \/ Fault("refused") /\ UNCHANGED edge /\ failed
    \/ fresh[p] /\ Fault("lost") /\ EdgeWrite(groups) /\ failed
    \/ /\ fresh[p] /\ Fault("late") /\ failed
       /\ late' = [late EXCEPT ![p] = @ \cup {groups}]
       /\ UNCHANGED <<acl, fresh>>

(* A PUT whose caller gave up on it reaches Edge after all. *)
LateLands(p) ==
    /\ \E groups \in late[p] : EdgeWrite(groups)
    /\ UNCHANGED <<db, lease, held, pc, subj, memo, faults>>

-----------------------------------------------------------------------------
(* request(): refuse a second grant, then insert under the proxy lease.    *)
RequestCheck(c) ==
    /\ c \in Clients /\ pc[c] = "idle"
    /\ status = "active"
    /\ req[Submits[c]] = "absent"
    /\ ActiveOn(ApiOf[Submits[c]]) = {}
    /\ subj' = [subj EXCEPT ![c] = Submits[c]]
    /\ Goto(c, "submit")
    /\ UNCHANGED <<db, edge, lease, held, memo, faults>>

RequestLock(c) ==
    /\ c \in Clients /\ pc[c] = "submit"
    /\ TakeKey(c, ApiOf[subj[c]])
    /\ Goto(c, "insert")
    /\ UNCHANGED <<db, edge, subj, memo>>

RequestInsert(c) ==
    /\ c \in Clients /\ pc[c] = "insert"
    /\ req' = IF FencesHold(c) /\ PendingOn(ApiOf[subj[c]]) = {}
               THEN [req EXCEPT ![subj[c]] = "pending"] ELSE req
    /\ Finish(c)
    /\ UNCHANGED <<grant, job, status, acl, late, subj, faults>>

(* cancel() by the requester, deny() by the API owner: one compare-and-set *)
(* out of pending.                                                         *)
Cancel(r) ==
    /\ req[r] = "pending"
    /\ req' = [req EXCEPT ![r] = "cancelled"]
    /\ UNCHANGED <<grant, job, status, edge, lease, held, pc, subj, memo, faults>>

Deny(r) ==
    /\ req[r] = "pending"
    /\ req' = [req EXCEPT ![r] = "denied"]
    /\ UNCHANGED <<grant, job, status, edge, lease, held, pc, subj, memo, faults>>

-----------------------------------------------------------------------------
(* approve(): everything up to the gateway.                                *)
ApproveStart(p, r) ==
    /\ p \in Approvers /\ pc[p] = "idle"
    /\ req[r] # "absent"
    /\ subj' = [subj EXCEPT ![p] = r]
    /\ Goto(p, "proxy")
    /\ UNCHANGED <<db, edge, lease, held, memo, faults>>

TakeProxy(p) ==
    /\ pc[p] = "proxy"
    /\ TakeKey(p, ApiOf[subj[p]])
    /\ Goto(p, CASE p \in Approvers -> "admit"
                 [] p \in Revokers  -> "claim"
                 [] p \in Workers   -> "owned")
    /\ UNCHANGED <<db, edge, subj, memo>>

(* The wait for the proxy lease ran out: a request answers CONFLICT, the   *)
(* worker reschedules its job.                                             *)
ProxyTimeout(p) ==
    /\ pc[p] \in {"proxy", "submit"}
    /\ LockTimeout(p, ApiOf[subj[p]])
    /\ Goto(p, IF p \in Workers THEN "resched" ELSE "done")
    /\ UNCHANGED <<db, edge, lease, held, subj, memo>>

ApproveAdmit(p) ==
    /\ p \in Approvers /\ pc[p] = "admit"
    /\ req[subj[p]] = "pending"
    /\ ActiveOn(ApiOf[subj[p]]) = {}
    /\ Goto(p, "claim")
    /\ UNCHANGED <<db, edge, lease, held, subj, memo, faults>>

ApproveRefused(p) ==
    /\ p \in Approvers /\ pc[p] = "admit"
    /\ req[subj[p]] # "pending" \/ ActiveOn(ApiOf[subj[p]]) # {}
    /\ Finish(p)
    /\ UNCHANGED <<db, acl, late, subj, faults>>

(* claimApproval: the decision and its job row commit together.            *)
ClaimApproval(p) ==
    /\ req' = [req EXCEPT ![subj[p]] = "approved"]
    /\ job' = [job EXCEPT !["approve"][subj[p]] = [st |-> "sending", gen |-> p]]

(* Slip: a blind write instead of the compare-and-set out of pending. *)
ApproveClaim_Blind(p) ==
    /\ p \in Approvers /\ pc[p] = "claim"
    /\ FencesHold(p)
    /\ ClaimApproval(p)
    /\ Goto(p, "ckey")
    /\ UNCHANGED <<grant, status, edge, lease, held, subj, memo, faults>>

ApproveClaim(p) ==
    /\ p \in Approvers /\ pc[p] = "claim"
    /\ FencesHold(p) /\ req[subj[p]] = "pending"
    /\ ClaimApproval(p)
    /\ Goto(p, "ckey")
    /\ UNCHANGED <<grant, status, edge, lease, held, subj, memo, faults>>

(* The claim is refused (a lost decision, a lost lease), or fails; or it   *)
(* commits and its acknowledgement is lost, leaving the job to recovery.   *)
ApproveClaimFails(p) ==
    /\ p \in Approvers /\ pc[p] = "claim"
    /\ \/ ~ (FencesHold(p) /\ req[subj[p]] = "pending")
          /\ UNCHANGED <<req, job, faults>>
       \/ Fault("db") /\ UNCHANGED <<req, job>>
       \/ /\ FencesHold(p) /\ req[subj[p]] = "pending"
          /\ Fault("dblost") /\ ClaimApproval(p)
    /\ Finish(p)
    /\ UNCHANGED <<grant, status, acl, late, subj>>

-----------------------------------------------------------------------------
(* mutateAclGroups: the consumer's section.                                *)
Adding(p) == p \in Approvers /\ ~ memo[p].undo

(* Where an error inside the section leads: the approval's unwinding, the  *)
(* settlement of a failed unwinding, the revocation's rollback, the retry. *)
OnError(p) ==
    CASE Adding(p) -> "live"
      [] p \in Approvers /\ memo[p].undo -> "settle"
      [] p \in Revokers -> "rckey"
      [] p \in Workers -> "resched"

SectionFails(p) ==
    /\ LeaveConsumer(p, OnError(p))
    /\ Recall(p, [memo[p] EXCEPT !.ok = ~ memo[p].undo])

EnterConsumer(p) ==
    /\ p \notin Others /\ pc[p] = "ckey"
    /\ TakeKey(p, consumer)
    /\ Goto(p, IF Adding(p) THEN "check" ELSE "get")
    /\ UNCHANGED <<db, edge, subj, memo>>

ConsumerTimeout(p) ==
    /\ p \notin Others /\ pc[p] = "ckey"
    /\ LockTimeout(p, consumer)
    /\ SectionFails(p)
    /\ UNCHANGED <<db, edge, subj>>

(* requireActiveUser: a disabled account gains nothing, and an approval    *)
(* stopped here has no group to take back.                                 *)
CheckActive(p) ==
    /\ p \in Approvers /\ pc[p] = "check"
    /\ \/ /\ status = "active"
          /\ Goto(p, "get")
          /\ UNCHANGED <<lease, held, memo>>
       \/ /\ status = "disabled"
          /\ LeaveConsumer(p, "live")
          /\ Recall(p, [memo[p] EXCEPT !.added = FALSE])
    /\ UNCHANGED <<db, edge, subj, faults>>

Get(p) ==
    /\ p \notin Others /\ pc[p] = "get"
    /\ \/ /\ fresh' = [fresh EXCEPT ![p] = TRUE]
          /\ Goto(p, "guard")
          /\ UNCHANGED <<lease, held, memo, faults>>
       \/ Fault("refused") /\ SectionFails(p) /\ UNCHANGED fresh
    /\ UNCHANGED <<db, acl, late, subj>>

Api(p) == ApiOf[subj[p]]

(* The approval's guard: the claim may have gone to recovery, or another   *)
(* request may have won the grant, while this one was on its way here.     *)
GuardApproval(p) ==
    /\ Adding(p) /\ pc[p] = "guard"
    /\ LET others == ActiveOn(Api(p)) \ {subj[p]} IN
         \/ ~ Owns(p, "approve") /\ Finish(p)
         \/ /\ Owns(p, "approve") /\ others # {}
            /\ LeaveConsumer(p, "resched")
            /\ UNCHANGED <<memo, fresh>>
         \/ /\ Owns(p, "approve") /\ others = {}
            /\ Goto(p, "put")
            /\ UNCHANGED <<lease, held, memo, fresh>>
    /\ UNCHANGED <<db, acl, late, subj, faults>>

(* The guard of unwindApproval: no group of an active grant comes off.     *)
GuardUnwind(p) ==
    /\ p \in Approvers /\ memo[p].undo /\ pc[p] = "guard"
    /\ LET live == ActiveOn(Api(p)) IN
         \/ /\ live = {}
            /\ Goto(p, "put")
            /\ UNCHANGED <<lease, held>>
         \/ /\ live # {}
            /\ LeaveConsumer(p, IF subj[p] \in live THEN "drop" ELSE "resched")
    /\ UNCHANGED <<db, edge, subj, memo, faults>>

(* revocationObsolete, for a revocation and for its recovery.              *)
GuardRevocation(p) ==
    /\ \/ p \in Revokers
       \/ p \in Workers /\ memo[p].kind = "revoke"
    /\ pc[p] = "guard"
    /\ \/ ~ Owns(p, "revoke") /\ Finish(p)
       \/ /\ Owns(p, "revoke") /\ ActiveOn(Api(p)) # {}
          /\ LeaveConsumer(p, "drop")
          /\ UNCHANGED <<memo, fresh>>
       \/ /\ Owns(p, "revoke") /\ ActiveOn(Api(p)) = {}
          /\ Goto(p, "put")
          /\ UNCHANGED <<lease, held, memo, fresh>>
    /\ UNCHANGED <<db, acl, late, subj, faults>>

(* readLive of reconcileGroups. *)
GuardReconcile(p) ==
    /\ p \in Workers /\ memo[p].kind = "approve" /\ pc[p] = "guard"
    /\ Recall(p, [memo[p] EXCEPT !.live = ActiveOn(Api(p)),
                                 !.on = (status = "active")])
    /\ Goto(p, "put")
    /\ UNCHANGED <<db, edge, lease, held, subj, faults>>

PutGroup(p) ==
    /\ Adding(p) /\ pc[p] = "put"
    /\ Put(p, acl \cup {Api(p)},
           Goto(p, "grant") /\ UNCHANGED <<lease, held, memo>>,
           SectionFails(p))
    /\ UNCHANGED <<db, subj>>

TakeOffGroup(p) ==
    /\ pc[p] = "put"
    /\ \/ p \in Approvers /\ memo[p].undo
       \/ p \in Revokers
       \/ p \in Workers /\ memo[p].kind = "revoke"
    /\ Put(p, acl \ {Api(p)},
           /\ LeaveConsumer(p, CASE p \in Approvers -> "settle"
                                 [] p \in Revokers -> "drop"
                                 [] p \in Workers -> "complete")
           /\ UNCHANGED memo,
           SectionFails(p))
    /\ UNCHANGED <<db, subj>>

(* Slip: a recovery that only ever completes approvals. *)
PutReconciled_NeverTakesOff(p) ==
    /\ p \in Workers /\ memo[p].kind = "approve" /\ pc[p] = "put"
    /\ Put(p, IF memo[p].live # {} /\ memo[p].on THEN acl \cup {Api(p)} ELSE acl,
           LeaveConsumer(p, "complete") /\ UNCHANGED memo,
           SectionFails(p))
    /\ UNCHANGED <<db, subj>>

(* The recovery of an approval makes the groups match the live grant.      *)
PutReconciled(p) ==
    /\ p \in Workers /\ memo[p].kind = "approve" /\ pc[p] = "put"
    /\ Put(p, CASE memo[p].live = {} -> acl \ {Api(p)}
                [] memo[p].live # {} /\ memo[p].on -> acl \cup {Api(p)}
                [] memo[p].live # {} /\ ~ memo[p].on -> acl,
           LeaveConsumer(p, "complete") /\ UNCHANGED memo,
           SectionFails(p))
    /\ UNCHANGED <<db, subj>>

-----------------------------------------------------------------------------
(* approve(): the grant commits inside the consumer's section, with the    *)
(* deletion of the job; ux_grants_active admits one active grant per API.  *)
GrantAllowed(p) ==
    FencesHold(p) /\ ActiveOn(Api(p)) = {} /\ Owns(p, "approve")

CreateGrant(p) ==
    /\ grant' = [grant EXCEPT ![subj[p]] = [st |-> "active", by |-> NoProc]]
    /\ job' = [job EXCEPT !["approve"][subj[p]] = NoJob]

GrantCommit(p) ==
    /\ p \in Approvers /\ pc[p] = "grant"
    /\ GrantAllowed(p)
    /\ CreateGrant(p)
    /\ Finish(p)
    /\ UNCHANGED <<req, status, acl, late, subj, faults>>

GrantFails(p) ==
    /\ p \in Approvers /\ pc[p] = "grant"
    /\ \/ ~ GrantAllowed(p) /\ UNCHANGED <<grant, job, faults>>
       \/ Fault("db") /\ UNCHANGED <<grant, job>>
       \/ GrantAllowed(p) /\ Fault("dblost") /\ CreateGrant(p)
    /\ LeaveConsumer(p, "live")
    /\ UNCHANGED <<req, status, edge, subj, memo>>

(* unwindApproval: whose group it is now decides what is left to undo.  A  *)
(* read that fails counts as no grant; the guard above reads again.        *)
UnwindApproval(p) ==
    /\ p \in Approvers /\ pc[p] = "live"
    /\ LET live == ActiveOn(Api(p)) IN
         \/ /\ live # {} /\ UNCHANGED <<memo, faults>>
            /\ Goto(p, IF subj[p] \in live THEN "drop" ELSE "resched")
         \/ /\ \/ live = {} /\ UNCHANGED faults
               \/ Fault("db")
            /\ Goto(p, IF memo[p].added THEN "ckey" ELSE "settle")
            /\ Recall(p, [memo[p] EXCEPT !.undo = memo[p].added])
    /\ UNCHANGED <<db, edge, lease, held, subj>>

(* settleOwnRequest: back to pending, unless recovery took the job over.   *)
(* ux_access_requests_pending admits one pending request per API.          *)
SettleRequest(p) ==
    /\ p \in Approvers /\ pc[p] = "settle"
    /\ LET r == subj[p]
           moves == Owns(p, "approve") /\ req[r] = "approved"
           allowed == FencesHold(p) /\ (moves => PendingOn(Api(p)) = {})
           settled == IF moves THEN [req EXCEPT ![r] = "pending"] ELSE req
       IN  \/ /\ allowed /\ req' = settled /\ UNCHANGED faults
              /\ Goto(p, IF memo[p].ok THEN "drop" ELSE "resched")
           \/ /\ ~ allowed /\ UNCHANGED <<req, faults>>
              /\ Goto(p, "resched")
           \/ /\ Fault("db") /\ UNCHANGED req
              /\ Goto(p, "resched")
           \/ /\ allowed /\ Fault("dblost") /\ req' = settled
              /\ Goto(p, "resched")
    /\ UNCHANGED <<grant, job, status, edge, lease, held, subj, memo>>

(* settleOwnedJob and dropJob: delete the job or hand it to the worker,    *)
(* if it is still this claim's.  Best effort.                              *)
JobKind(p) ==
    CASE p \in Approvers -> "approve"
      [] p \in Revokers -> "revoke"
      [] p \in Workers -> memo[p].kind

SettleJob(p) ==
    /\ p \notin Others /\ pc[p] \in {"drop", "resched"}
    /\ LET kind == JobKind(p)
           row == IF pc[p] = "drop" THEN NoJob
                  ELSE [st |-> "pending", gen |-> p]
       IN  \/ /\ Owns(p, kind) /\ UNCHANGED faults
              /\ job' = [job EXCEPT ![kind][subj[p]] = row]
           \/ ~ Owns(p, kind) /\ UNCHANGED <<job, faults>>
           \/ Fault("db") /\ UNCHANGED job
    /\ Finish(p)
    /\ UNCHANGED <<req, grant, status, acl, late, subj>>

-----------------------------------------------------------------------------
(* revoke() and relinquish(): withdrawGrant.                               *)
RevokeStart(p, r) ==
    /\ p \in Revokers /\ pc[p] = "idle"
    /\ grant[r].st = "active"
    /\ subj' = [subj EXCEPT ![p] = r]
    /\ Goto(p, "proxy")
    /\ UNCHANGED <<db, edge, lease, held, memo, faults>>

(* The grant, its request and the job of the removal move in one           *)
(* transaction (moveRequestToRevoked).                                     *)
ClaimGrant(p, r) ==
    /\ grant' = [grant EXCEPT ![r] = [st |-> "revoked", by |-> p]]
    /\ req' = IF req[r] = "approved" THEN [req EXCEPT ![r] = "revoked"] ELSE req

(* Slip: the removal is not recorded with the claim that owes it. *)
ClaimRevocation_NoJob(p) == ClaimGrant(p, subj[p]) /\ UNCHANGED job

ClaimRevocation(p) ==
    /\ ClaimGrant(p, subj[p])
    /\ job' = [job EXCEPT !["revoke"][subj[p]] = [st |-> "sending", gen |-> p]]

RevokeClaim(p) ==
    /\ p \in Revokers /\ pc[p] = "claim"
    /\ FencesHold(p) /\ grant[subj[p]].st = "active"
    /\ ClaimRevocation(p)
    /\ Goto(p, "ckey")
    /\ UNCHANGED <<status, edge, lease, held, subj, memo, faults>>

RevokeClaimFails(p) ==
    /\ p \in Revokers /\ pc[p] = "claim"
    /\ LET allowed == FencesHold(p) /\ grant[subj[p]].st = "active" IN
         \/ ~ allowed /\ UNCHANGED <<req, grant, job, faults>>
         \/ Fault("db") /\ UNCHANGED <<req, grant, job>>
         \/ allowed /\ Fault("dblost") /\ ClaimRevocation(p)
    /\ Finish(p)
    /\ UNCHANGED <<status, acl, late, subj>>

(* unwindRevocation: under the consumer's key, is the group still on?      *)
RollbackEnter(p) ==
    /\ p \in Revokers /\ pc[p] = "rckey"
    /\ TakeKey(p, consumer)
    /\ Goto(p, "rget")
    /\ UNCHANGED <<db, edge, subj, memo>>

(* groupStillOn: an unreadable consumer counts as still carrying it.       *)
RollbackGet(p) ==
    /\ p \in Revokers /\ pc[p] = "rget"
    /\ \/ /\ Recall(p, [memo[p] EXCEPT !.on = (Api(p) \in acl)])
          /\ UNCHANGED faults
       \/ Fault("refused") /\ Recall(p, [memo[p] EXCEPT !.on = TRUE])
    /\ Goto(p, "rlife")
    /\ UNCHANGED <<db, edge, lease, held, subj>>

RollbackLifecycle(p) ==
    /\ p \in Revokers /\ pc[p] = "rlife"
    /\ TakeKey(p, lifecycle)
    /\ Goto(p, "restore")
    /\ UNCHANGED <<db, edge, subj, memo>>

(* A failed rollback is tried again on its own, without its audit row      *)
(* (restoreAlone), and then left to the worker.  One the fence refused is  *)
(* tried again after every lease was given up (resumeUnderFreshProxy).     *)
(* memo.ok and memo.undo record which of the two were used.                *)
RestoreAlone(p) ==
    /\ Release(p, {consumer, lifecycle})
    /\ Goto(p, IF memo[p].ok /\ ~ memo[p].undo THEN "rckey" ELSE "resched")
    /\ Recall(p, [memo[p] EXCEPT !.ok = FALSE])

ResumeUnderFreshProxy(p) ==
    /\ Release(p, held[p])
    /\ Goto(p, IF memo[p].undo THEN "resched" ELSE "rckey")
    /\ Recall(p, [memo[p] EXCEPT !.undo = TRUE])

(* restoreUnderKeys waits out an abandoned lease; a live holder outlasts it. *)
RollbackTimeout(p) ==
    /\ p \in Revokers
    /\ \/ pc[p] = "rckey" /\ LockTimeout(p, consumer)
       \/ pc[p] = "rlife" /\ LockTimeout(p, lifecycle)
    /\ RestoreAlone(p)
    /\ UNCHANGED <<db, edge, subj>>

(* Slip: any revocation of the grant is put back. *)
RestoreOwed_AnyClaim(p) ==
    /\ grant[subj[p]].st = "revoked"
    /\ status = "active"
    /\ memo[p].on

(* restoreRevoked puts back exactly the revocation p claimed: not a later  *)
(* one, not for a disabled account, and not without its group.             *)
RestoreOwed(p) ==
    /\ grant[subj[p]] = [st |-> "revoked", by |-> p]
    /\ status = "active"
    /\ memo[p].on

RestoreAllowed(p) ==
    FencesHold(p) /\ (RestoreOwed(p) => ActiveOn(Api(p)) = {})

(* Slip: the grant goes back without the request it came from. *)
RestoreRevoked_GrantOnly(p) ==
    IF RestoreOwed(p)
    THEN /\ grant' = [grant EXCEPT ![subj[p]] = [st |-> "active", by |-> NoProc]]
         /\ job' = [job EXCEPT !["revoke"][subj[p]] = NoJob]
         /\ UNCHANGED req
    ELSE UNCHANGED <<req, grant, job>>

RestoreRevoked(p) ==
    IF RestoreOwed(p)
    THEN /\ grant' = [grant EXCEPT ![subj[p]] = [st |-> "active", by |-> NoProc]]
         /\ job' = [job EXCEPT !["revoke"][subj[p]] = NoJob]
         /\ req' = IF req[subj[p]] = "revoked"
                   THEN [req EXCEPT ![subj[p]] = "approved"] ELSE req
    ELSE UNCHANGED <<req, grant, job>>

RestoreCommit(p) ==
    /\ p \in Revokers /\ pc[p] = "restore"
    /\ RestoreAllowed(p)
    /\ RestoreRevoked(p)
    /\ Release(p, {consumer, lifecycle})
    /\ Goto(p, "resched")
    /\ UNCHANGED <<status, edge, subj, memo, faults>>

(* A commit whose answer was lost is recognised by its audit row, unless   *)
(* that row cannot be read.                                                *)
RestoreFails(p) ==
    /\ p \in Revokers /\ pc[p] = "restore"
    /\ \/ /\ ~ RestoreAllowed(p) /\ UNCHANGED <<req, grant, job, faults>>
          /\ IF FencesHold(p) THEN RestoreAlone(p) ELSE ResumeUnderFreshProxy(p)
       \/ /\ Fault("db") /\ UNCHANGED <<req, grant, job>>
          /\ RestoreAlone(p)
       \/ /\ RestoreAllowed(p) /\ Fault("dblost") /\ RestoreRevoked(p)
          /\ \/ RestoreAlone(p)
             \/ /\ Release(p, {consumer, lifecycle}) /\ Goto(p, "resched")
                /\ UNCHANGED memo
    /\ UNCHANGED <<status, edge, subj>>

-----------------------------------------------------------------------------
(* The access gateway worker: claimDue, then recoverGatewayJob.            *)
WorkerClaim(w, kind, r) ==
    /\ w \in Workers /\ pc[w] = "idle"
    /\ job[kind][r].st = "pending"
    /\ job' = [job EXCEPT ![kind][r] = [st |-> "sending", gen |-> w]]
    /\ subj' = [subj EXCEPT ![w] = r]
    /\ Recall(w, [Blank EXCEPT !.kind = kind])
    /\ Goto(w, IF kind = "revoke" THEN "ckey" ELSE "proxy")
    /\ UNCHANGED <<req, grant, status, edge, lease, held, faults>>

(* settleApproval under the proxy lease: re-check the claim and read the   *)
(* request before the groups are reconciled.                               *)
RecoverApproval(w) ==
    /\ w \in Workers /\ pc[w] = "owned"
    /\ \/ ~ Owns(w, "approve") /\ Finish(w)
       \/ /\ Owns(w, "approve")
          /\ Recall(w, [memo[w] EXCEPT !.status = req[subj[w]]])
          /\ Goto(w, "ckey")
          /\ UNCHANGED <<lease, held, fresh>>
    /\ UNCHANGED <<db, acl, late, subj, faults>>

(* What the recovery of an approval makes of its request: kept when it has *)
(* its grant, cancelled when another request holds the grant or waits for  *)
(* one, and otherwise handed back to the reviewer.                         *)
RecoveredStatus(w) ==
    IF memo[w].status # "approved" \/ req[subj[w]] # "approved"
    THEN req[subj[w]]
    ELSE IF subj[w] \in memo[w].live THEN "approved"
    ELSE IF memo[w].live # {} \/ PendingOn(Api(w)) # {} THEN "cancelled"
    ELSE "pending"

CompleteJob(w) ==
    /\ job' = [job EXCEPT ![memo[w].kind][subj[w]] = NoJob]
    /\ req' = IF memo[w].kind = "approve"
               THEN [req EXCEPT ![subj[w]] = RecoveredStatus(w)] ELSE req

WorkerComplete(w) ==
    /\ w \in Workers /\ pc[w] = "complete"
    /\ \/ /\ FencesHold(w) /\ Owns(w, memo[w].kind)
          /\ CompleteJob(w)
       \/ /\ ~ Owns(w, memo[w].kind)
          /\ UNCHANGED <<req, job>>
    /\ Finish(w)
    /\ UNCHANGED <<grant, status, acl, late, subj, faults>>

WorkerCompleteFails(w) ==
    /\ w \in Workers /\ pc[w] = "complete"
    /\ Owns(w, memo[w].kind)
    /\ \/ ~ FencesHold(w) /\ UNCHANGED <<req, job, faults>>
       \/ Fault("db") /\ UNCHANGED <<req, job>>
       \/ FencesHold(w) /\ Fault("dblost") /\ CompleteJob(w)
    /\ Goto(w, "resched")
    /\ UNCHANGED <<grant, status, edge, lease, held, subj, memo>>

(* releaseStale: a claim nobody settled in time goes back to pending.  Its *)
(* owner is gone, or has stalled and will find itself superseded.          *)
Working(p, kind, r) ==
    /\ p # NoProc
    /\ pc[p] \notin {"idle", "done", "crashed"}
    /\ subj[p] = r
    /\ JobKind(p) = kind

ReleaseStale(kind, r) ==
    /\ job[kind][r].st = "sending"
    /\ \/ ~ Working(job[kind][r].gen, kind, r) /\ UNCHANGED faults
       \/ Working(job[kind][r].gen, kind, r) /\ Fault("stall")
    /\ job' = [job EXCEPT ![kind][r].st = "pending"]
    /\ UNCHANGED <<req, grant, status, edge, lease, held, pc, subj, memo>>

-----------------------------------------------------------------------------
(* A process stops: its lease rows stay until they lapse, its job stays    *)
(* "sending" until it is stale, and a PUT it sent may still land.          *)
Crash(p) ==
    /\ pc[p] \notin {"idle", "done", "crashed"}
    /\ Fault("crash")
    /\ pc' = [pc EXCEPT ![p] = IF p \in OneShot THEN "crashed" ELSE "idle"]
    /\ held' = [held EXCEPT ![p] = {}]
    /\ memo' = [memo EXCEPT ![p] = Blank]
    /\ fresh' = [fresh EXCEPT ![p] = FALSE]
    /\ UNCHANGED <<db, acl, late, lease, subj>>

(* One step of process p. *)
Step(p) ==
    \/ RequestCheck(p) \/ RequestLock(p) \/ RequestInsert(p)
    \/ \E r \in Requests : ApproveStart(p, r) \/ RevokeStart(p, r)
    \/ TakeProxy(p) \/ ProxyTimeout(p)
    \/ ApproveAdmit(p) \/ ApproveRefused(p)
    \/ ApproveClaim(p) \/ ApproveClaimFails(p)
    \/ EnterConsumer(p) \/ ConsumerTimeout(p) \/ CheckActive(p) \/ Get(p)
    \/ GuardApproval(p) \/ GuardUnwind(p) \/ GuardRevocation(p)
    \/ GuardReconcile(p)
    \/ PutGroup(p) \/ TakeOffGroup(p) \/ PutReconciled(p)
    \/ GrantCommit(p) \/ GrantFails(p)
    \/ UnwindApproval(p) \/ SettleRequest(p) \/ SettleJob(p)
    \/ RevokeClaim(p) \/ RevokeClaimFails(p)
    \/ RollbackEnter(p) \/ RollbackGet(p) \/ RollbackLifecycle(p)
    \/ RollbackTimeout(p) \/ RestoreCommit(p) \/ RestoreFails(p)
    \/ \E kind \in Kinds, r \in Requests : WorkerClaim(p, kind, r)
    \/ RecoverApproval(p) \/ WorkerComplete(p) \/ WorkerCompleteFails(p)

Resting(p) == pc[p] \in {"idle", "done", "crashed"}

(* Nothing is running and nothing is owed. *)
Quiescent ==
    /\ \A p \in Procs : Resting(p)
    /\ \A kind \in Kinds, r \in Requests : job[kind][r].st = "none"
    /\ UNCHANGED vars

Next ==
    \/ \E p \in Procs : Step(p) \/ Crash(p) \/ LateLands(p)
    \/ \E r \in Requests : Cancel(r) \/ Deny(r)
    \/ \E kind \in Kinds, r \in Requests : ReleaseStale(kind, r)
    \/ Quiescent

Spec == Init /\ [][Next]_vars

(* Every await settles (calls and lock waits have deadlines), the worker   *)
(* keeps polling, and an abandoned claim is eventually stale.  Nobody is   *)
(* obliged to request, approve or revoke.                                  *)
Fairness ==
    /\ \A p \in Procs \ Others : WF_vars(~ Resting(p) /\ Step(p))
    /\ \A w \in Workers :
         WF_vars(\E kind \in Kinds, r \in Requests : WorkerClaim(w, kind, r))
    /\ \A kind \in Kinds, r \in Requests :
         WF_vars(ReleaseStale(kind, r) /\ UNCHANGED faults)

FairSpec == Spec /\ Fairness

-----------------------------------------------------------------------------
(* No access the portal cannot see: a group on the Edge consumer belongs   *)
(* to an active grant, or a durable job row owes its removal - through     *)
(* every crash, lost answer, late PUT and takeover (issue #651).           *)
NoStrandedAccess ==
    \A a \in acl :
      \/ ActiveOn(a) # {}
      \/ \E kind \in Kinds, r \in Requests :
           ApiOf[r] = a /\ job[kind][r].st # "none"

(* No access the gateway denies: while the account is active, a grant the  *)
(* portal shows as active has its group on the consumer (issue #341).      *)
NoPhantomGrant ==
    \A r \in Requests :
      (grant[r].st = "active" /\ status = "active") => ApiOf[r] \in acl

(* The request's history agrees with its grant, whoever decided, undid or  *)
(* recovered it: a request that was handed back, declined or withdrawn has *)
(* no grant, and an approval without a grant is still owed by its job.     *)
HistoryMatchesGrant ==
    \A r \in Requests :
      /\ grant[r].st = "active" => req[r] = "approved"
      /\ grant[r].st = "revoked" <=> req[r] = "revoked"
      /\ (req[r] = "approved" /\ grant[r].st = "none")
           => job["approve"][r].st # "none"

(* A cancelled or denied request is never acted on again (a blind write    *)
(* used to let a cancellation race an approval and both succeed).          *)
DecisionsAreFinal ==
    [][\A r \in Requests :
         req[r] \in {"cancelled", "denied"} =>
           req'[r] = req[r] /\ grant'[r] = grant[r]]_vars

(* A revoked grant only ever comes back in the revocation that claimed it. *)
OnlyOwnRollback ==
    [][\A r \in Requests :
         (grant[r].st = "revoked" /\ grant'[r].st = "active") =>
           pc[grant[r].by] = "restore" /\ pc'[grant[r].by] # "restore"]_vars

(* Every job is settled in the end, whoever claimed it and stopped, and    *)
(* the gateway then carries exactly the groups of the active grants.       *)
Converges ==
    <>[](/\ \A kind \in Kinds, r \in Requests : job[kind][r].st = "none"
         /\ \A a \in Apis : a \in acl <=> ActiveOn(a) # {})
=============================================================================
