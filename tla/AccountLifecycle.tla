--------------------------- MODULE AccountLifecycle ---------------------------
(***************************************************************************)
(* Disabling and re-enabling the account of AccessGrants: the status flips *)
(* of server/src/users/service.ts and server/src/admin/god-service.ts, the *)
(* god-mode sweep revokeAllForUser, the gateway teardown and rebuild of    *)
(* server/src/credentials/service.ts and the retry loop of                 *)
(* server/src/credentials/teardown-worker.ts.                              *)
(*                                                                         *)
(* A disable commits with the teardown it owes; the teardown strips every  *)
(* group under the consumer's key, inline or by the worker.  A re-enable   *)
(* cancels the teardown in the transaction that flips the status and then  *)
(* rebuilds the groups from the active grants.  Approvals, revocations and *)
(* their recovery run throughout.                                          *)
(*                                                                         *)
(* Administrators and workers may act again and again; a generation of the *)
(* teardown row is named by the process that made it, which can have only  *)
(* one of its own in hand.                                                 *)
(***************************************************************************)
EXTENDS AccessGrants

CONSTANTS
    Disablers,        \* administrators that disable the account
    GodDisablers,     \* those that do so in god mode, sweeping its grants
    Enablers,         \* administrators that enable it, or repeat an enable
    TeardownWorkers   \* teardown workers

ASSUME LifecycleAssumption ==
    /\ Others = Disablers \cup Enablers \cup TeardownWorkers
    /\ GodDisablers \subseteq Disablers
    /\ Disablers \cap Enablers = {}
    /\ Disablers \cap TeardownWorkers = {}
    /\ Enablers \cap TeardownWorkers = {}
    /\ Others \cap (OneShot \cup Workers) = {}

VARIABLES
    tjob,       \* the account's gateway_teardown_jobs row
    rebuilt     \* a rebuild of the groups has completed since the last enable

lvars == <<vars, tjob, rebuilt>>

NoTeardown == [st |-> "none", gen |-> NoProc]

LifecycleTypeOK ==
    /\ TypeOK
    /\ tjob \in [st : {"none", "pending", "sending", "done"},
                 gen : Procs \cup {NoProc}]
    /\ rebuilt \in BOOLEAN
    /\ status = "active" => tjob.st = "none"

LifecycleInit == Init /\ tjob = NoTeardown /\ rebuilt = TRUE

(* The teardown claim p made is still the row's (id, generation, sending). *)
OwnsTeardown(p) == tjob = [st |-> "sending", gen |-> p]

(* A section ends without touching the tag: see Put. *)
End(p) == Release(p, held[p]) /\ Goto(p, "idle") /\ Recall(p, Blank)

-----------------------------------------------------------------------------
(* users.update and the god-mode disable: read the account, take its       *)
(* lifecycle lease, and flip the status if it is still the one read.       *)
FlipStart(p) ==
    /\ p \in Disablers \cup Enablers /\ pc[p] = "idle"
    /\ \/ p \in GodDisablers
       \/ p \in Disablers /\ status = "active"
       \/ p \in Enablers /\ status = "disabled"
    /\ Recall(p, [Blank EXCEPT !.status = status])
    /\ Goto(p, "lkey")
    /\ UNCHANGED <<db, edge, lease, held, subj, faults, tjob, rebuilt>>

(* An enable of an account that is active already only repeats the rebuild. *)
EnableAgain(e) ==
    /\ e \in Enablers /\ pc[e] = "idle"
    /\ status = "active"
    /\ Goto(e, "ckey")
    /\ UNCHANGED <<db, edge, lease, held, subj, memo, faults, tjob, rebuilt>>

TakeLifecycle(p) ==
    /\ p \in Others /\ pc[p] = "lkey"
    /\ TakeKey(p, lifecycle)
    /\ Goto(p, IF p \in TeardownWorkers THEN "cancel" ELSE "flip")
    /\ UNCHANGED <<db, edge, subj, memo, tjob, rebuilt>>

(* While somebody else holds the key the wait may reach its deadline, as   *)
(* often as that happens: it is no fault, and the caller may try again.    *)
LifecycleTimeout(p) ==
    /\ p \in Others /\ pc[p] = "lkey"
    /\ ~ Acquirable(lifecycle)
    /\ End(p)
    /\ UNCHANGED <<db, edge, subj, faults, tjob, rebuilt>>

FlipAllowed(p) == FencesHold(p) /\ status = memo[p].status

(* Slip: a re-enable leaves the queued teardown standing. *)
Flip_KeepsTeardown(p) ==
    /\ status' = IF p \in Disablers THEN "disabled" ELSE "active"
    /\ tjob' = IF p \in Disablers THEN [st |-> "pending", gen |-> p] ELSE tjob
    /\ rebuilt' = (p \in Disablers /\ rebuilt)

(* A disable commits with its teardown row, an enable with the deletion of *)
(* that row.                                                               *)
Flip(p) ==
    /\ status' = IF p \in Disablers THEN "disabled" ELSE "active"
    /\ tjob' = IF p \in Disablers THEN [st |-> "pending", gen |-> p] ELSE NoTeardown
    /\ rebuilt' = (p \in Disablers /\ rebuilt)

FlipCommit(p) ==
    /\ p \in Disablers \cup Enablers /\ pc[p] = "flip"
    /\ FlipAllowed(p)
    /\ Flip(p)
    /\ Release(p, {lifecycle})
    /\ Goto(p, CASE p \in GodDisablers -> "list"
                 [] p \in Disablers \ GodDisablers -> "tclaim"
                 [] p \in Enablers -> "ckey")
    /\ UNCHANGED <<req, grant, job, edge, subj, memo, faults>>

FlipFails(p) ==
    /\ p \in Disablers \cup Enablers /\ pc[p] = "flip"
    /\ \/ ~ FlipAllowed(p) /\ UNCHANGED <<status, tjob, rebuilt, faults>>
       \/ Fault("db") /\ UNCHANGED <<status, tjob, rebuilt>>
       \/ FlipAllowed(p) /\ Fault("dblost") /\ Flip(p)
    /\ End(p)
    /\ UNCHANGED <<req, grant, job, edge, subj>>

-----------------------------------------------------------------------------
(* revokeAllForUser: claim each listed grant, then take its group off.  No *)
(* job, no proxy lease, no guard; a failure goes on to the next grant.     *)
SweepList(d) ==
    /\ d \in GodDisablers /\ pc[d] = "list"
    /\ \/ /\ Recall(d, [memo[d] EXCEPT !.todo =
                          {r \in Requests : grant[r].st = "active"}])
          /\ Goto(d, "sweep") /\ UNCHANGED faults
       \/ Fault("db") /\ Goto(d, "tclaim") /\ UNCHANGED memo
    /\ UNCHANGED <<db, edge, lease, held, subj, tjob, rebuilt>>

SweepClaim(d, r) ==
    /\ d \in GodDisablers /\ pc[d] = "sweep"
    /\ r \in memo[d].todo
    /\ \/ /\ grant[r].st = "active" /\ ClaimGrant(d, r)
          /\ Goto(d, "ckey") /\ UNCHANGED faults
       \/ /\ grant[r].st # "active" /\ UNCHANGED <<req, grant, pc, faults>>
       \/ /\ Fault("db") /\ UNCHANGED <<req, grant, pc>>
       \/ /\ grant[r].st = "active" /\ ClaimGrant(d, r)
          /\ (Fault("db") \/ Fault("dblost")) /\ UNCHANGED pc
    /\ subj' = [subj EXCEPT ![d] = r]
    /\ Recall(d, [memo[d] EXCEPT !.todo = @ \ {r}])
    /\ UNCHANGED <<job, status, edge, lease, held, tjob, rebuilt>>

SweepDone(d) ==
    /\ d \in GodDisablers /\ pc[d] = "sweep"
    /\ memo[d].todo = {}
    /\ Goto(d, "tclaim")
    /\ UNCHANGED <<db, edge, lease, held, subj, memo, faults, tjob, rebuilt>>

-----------------------------------------------------------------------------
(* runGatewayTeardown: claim the queued generation, right after the        *)
(* disable or from the worker's poll.                                      *)
InlineClaim(d) ==
    /\ d \in Disablers /\ pc[d] = "tclaim"
    /\ \/ /\ tjob = [st |-> "pending", gen |-> d]
          /\ tjob' = [st |-> "sending", gen |-> d]
          /\ Goto(d, "towner")
          /\ Recall(d, [memo[d] EXCEPT !.kind = "teardown"])
          /\ UNCHANGED <<lease, held, faults>>
       \/ /\ tjob # [st |-> "pending", gen |-> d]
          /\ End(d) /\ UNCHANGED <<tjob, faults>>
       \/ Fault("db") /\ End(d) /\ UNCHANGED tjob
    /\ UNCHANGED <<db, edge, subj, rebuilt>>

TeardownClaimDue(w) ==
    /\ w \in TeardownWorkers /\ pc[w] = "idle"
    /\ tjob.st = "pending"
    /\ tjob' = [st |-> "sending", gen |-> w]
    /\ Goto(w, "tuser")
    /\ Recall(w, [Blank EXCEPT !.kind = "teardown"])
    /\ UNCHANGED <<db, edge, lease, held, subj, faults, rebuilt>>

(* runJob: an account that is active again has its job cancelled. *)
TeardownUser(w) ==
    /\ w \in TeardownWorkers /\ pc[w] = "tuser"
    /\ Goto(w, IF status = "disabled" THEN "towner" ELSE "lkey")
    /\ UNCHANGED <<db, edge, lease, held, subj, memo, faults, tjob, rebuilt>>

TeardownOwner(p) ==
    /\ p \in Others /\ pc[p] = "towner"
    /\ \/ Goto(p, IF OwnsTeardown(p) THEN "ckey" ELSE "tfail") /\ UNCHANGED faults
       \/ Goto(p, "tfail") /\ Fault("db")
    /\ UNCHANGED <<db, edge, lease, held, subj, memo, tjob, rebuilt>>

-----------------------------------------------------------------------------
(* The consumer's section of a sweep, a teardown (disableGatewayAccess) or *)
(* a rebuild (restoreGatewayAccess).                                       *)
Sweeping(p) == p \in GodDisablers /\ memo[p].kind # "teardown"
TearingDown(p) == p \in Disablers \cup TeardownWorkers /\ memo[p].kind = "teardown"

(* An error: the sweep goes on, the teardown goes back to the queue, the   *)
(* enable answers with the error and can be repeated.                      *)
AccountSectionFails(p) ==
    \/ Sweeping(p) /\ LeaveConsumer(p, "sweep") /\ UNCHANGED memo
    \/ TearingDown(p) /\ LeaveConsumer(p, "tfail") /\ UNCHANGED memo
    \/ p \in Enablers /\ End(p)

AccountEnter(p) ==
    /\ p \in Others /\ pc[p] = "ckey"
    /\ TakeKey(p, consumer)
    /\ Goto(p, IF Sweeping(p) THEN "get" ELSE "check")
    /\ UNCHANGED <<db, edge, subj, memo, tjob, rebuilt>>

AccountTimeout(p) ==
    /\ p \in Others /\ pc[p] = "ckey"
    /\ LockTimeout(p, consumer)
    /\ AccountSectionFails(p)
    /\ UNCHANGED <<db, edge, subj, tjob, rebuilt>>

(* Slip: the teardown trusts the check made when its job was claimed. *)
StatusFits_ClaimTimeOnly(p) == TearingDown(p) \/ status = "active"

(* assertStillDisabled for a teardown; a rebuild needs an active account. *)
StatusFits(p) == status = IF TearingDown(p) THEN "disabled" ELSE "active"

AccountCheck(p) ==
    /\ p \in Others /\ pc[p] = "check"
    /\ \/ /\ StatusFits(p)
          /\ Goto(p, IF TearingDown(p) THEN "get" ELSE "grants")
          /\ UNCHANGED <<lease, held, memo>>
       \/ ~ StatusFits(p) /\ AccountSectionFails(p)
    /\ UNCHANGED <<db, edge, subj, faults, tjob, rebuilt>>

RebuildGrants(e) ==
    /\ e \in Enablers /\ pc[e] = "grants"
    /\ Recall(e, [memo[e] EXCEPT !.live = {r \in Requests : grant[r].st = "active"}])
    /\ Goto(e, "get")
    /\ UNCHANGED <<db, edge, lease, held, subj, faults, tjob, rebuilt>>

AccountGet(p) ==
    /\ p \in Others /\ pc[p] = "get"
    /\ \/ /\ fresh' = [fresh EXCEPT ![p] = TRUE]
          /\ Goto(p, "put")
          /\ UNCHANGED <<lease, held, memo, faults>>
       \/ Fault("refused") /\ AccountSectionFails(p) /\ UNCHANGED fresh
    /\ UNCHANGED <<db, acl, late, subj, tjob, rebuilt>>

SweepPut(d) ==
    /\ Sweeping(d) /\ pc[d] = "put"
    /\ Put(d, acl \ {Api(d)},
           LeaveConsumer(d, "sweep") /\ UNCHANGED memo,
           AccountSectionFails(d))
    /\ UNCHANGED <<db, subj, tjob, rebuilt>>

TeardownPut(p) ==
    /\ TearingDown(p) /\ pc[p] = "put"
    /\ Put(p, {},
           Goto(p, "tcreds") /\ UNCHANGED <<lease, held, memo>>,
           AccountSectionFails(p))
    /\ UNCHANGED <<db, subj, tjob, rebuilt>>

(* The approval groups come from the active grants and nowhere else. *)
RebuiltGroups(e) == {ApiOf[r] : r \in memo[e].live}

RebuildPut(e) ==
    /\ e \in Enablers /\ pc[e] = "put"
    /\ \/ Put(e, RebuiltGroups(e),
              End(e) /\ rebuilt' = TRUE,
              AccountSectionFails(e) /\ UNCHANGED rebuilt)
       \/ /\ memo[e].live = {} /\ fresh[e] /\ acl = {}
          /\ End(e) /\ rebuilt' = TRUE
          /\ UNCHANGED <<edge, faults>>
    /\ UNCHANGED <<db, subj, tjob>>

-----------------------------------------------------------------------------
(* The credential deletions of the section come after its PUT, and may     *)
(* fail: a call, or the transaction of their rows, which is fenced.        *)
TeardownCredentials(p) ==
    /\ TearingDown(p) /\ pc[p] = "tcreds"
    /\ \/ FencesHold(p) /\ LeaveConsumer(p, "tdone") /\ UNCHANGED <<memo, faults>>
       \/ ~ FencesHold(p) /\ AccountSectionFails(p) /\ UNCHANGED faults
       \/ (Fault("refused") \/ Fault("db")) /\ AccountSectionFails(p)
    /\ UNCHANGED <<db, edge, subj, tjob, rebuilt>>

(* markDone, outside every section. *)
TeardownDone(p) ==
    /\ TearingDown(p) /\ pc[p] = "tdone"
    /\ \/ /\ OwnsTeardown(p) /\ UNCHANGED faults
          /\ tjob' = [tjob EXCEPT !.st = "done"]
          /\ End(p)
       \/ /\ \/ ~ OwnsTeardown(p) /\ UNCHANGED <<tjob, faults>>
             \/ Fault("db") /\ UNCHANGED tjob
             \/ /\ OwnsTeardown(p) /\ Fault("dblost")
                /\ tjob' = [tjob EXCEPT !.st = "done"]
          /\ Goto(p, "tfail") /\ UNCHANGED <<lease, held, memo>>
    /\ UNCHANGED <<db, edge, subj, rebuilt>>

(* A failed attempt goes back to the queue if the claim is still its own.  *)
(* The worker first asks again whether the account is still disabled.      *)
TeardownFails(p) ==
    /\ TearingDown(p) /\ pc[p] = "tfail"
    /\ \/ /\ p \in TeardownWorkers /\ status = "active"
          /\ Goto(p, "lkey")
          /\ UNCHANGED <<lease, held, memo, tjob, faults>>
       \/ /\ p \in TeardownWorkers => status = "disabled"
          /\ \/ /\ UNCHANGED faults
                /\ tjob' = IF OwnsTeardown(p)
                           THEN [tjob EXCEPT !.st = "pending"] ELSE tjob
             \/ Fault("db") /\ UNCHANGED tjob
          /\ End(p)
    /\ UNCHANGED <<db, edge, subj, rebuilt>>

(* Slip: the job is dropped on the word of an earlier read. *)
CancelJob_Unchecked(w) ==
    /\ w \in TeardownWorkers /\ pc[w] = "cancel"
    /\ tjob' = NoTeardown
    /\ End(w)
    /\ UNCHANGED <<db, edge, subj, faults, rebuilt>>

(* cancelJob: under the lifecycle lease, and never for an account that has *)
(* been disabled again.                                                    *)
CancelJob(w) ==
    /\ w \in TeardownWorkers /\ pc[w] = "cancel"
    /\ \/ /\ UNCHANGED faults
          /\ tjob' = IF FencesHold(w) /\ status = "active" /\ OwnsTeardown(w)
                     THEN NoTeardown ELSE tjob
       \/ Fault("db") /\ UNCHANGED tjob
    /\ End(w)
    /\ UNCHANGED <<db, edge, subj, rebuilt>>

(* releaseStale of the teardown worker. *)
TearingFor(p) == p # NoProc /\ pc[p] # "idle" /\ memo[p].kind = "teardown"

(* Slip: a claim of a disable that died is not recovered. *)
ReleaseStaleTeardown_WorkersOnly ==
    /\ tjob.st = "sending" /\ tjob.gen \in TeardownWorkers
    /\ \/ ~ TearingFor(tjob.gen) /\ UNCHANGED faults
       \/ TearingFor(tjob.gen) /\ Fault("stall")
    /\ tjob' = [tjob EXCEPT !.st = "pending"]
    /\ UNCHANGED <<db, edge, lease, held, pc, subj, memo, rebuilt>>

ReleaseStaleTeardown ==
    /\ tjob.st = "sending"
    /\ \/ ~ TearingFor(tjob.gen) /\ UNCHANGED faults
       \/ TearingFor(tjob.gen) /\ Fault("stall")
    /\ tjob' = [tjob EXCEPT !.st = "pending"]
    /\ UNCHANGED <<db, edge, lease, held, pc, subj, memo, rebuilt>>

-----------------------------------------------------------------------------
AccountStep(p) ==
    \/ FlipStart(p) \/ EnableAgain(p) \/ TakeLifecycle(p)
    \/ LifecycleTimeout(p) \/ FlipCommit(p) \/ FlipFails(p)
    \/ SweepList(p) \/ SweepDone(p) \/ \E r \in Requests : SweepClaim(p, r)
    \/ InlineClaim(p) \/ TeardownClaimDue(p) \/ TeardownUser(p)
    \/ TeardownOwner(p) \/ AccountEnter(p) \/ AccountTimeout(p)
    \/ AccountCheck(p) \/ RebuildGrants(p) \/ AccountGet(p)
    \/ SweepPut(p) \/ TeardownPut(p) \/ RebuildPut(p)
    \/ TeardownCredentials(p) \/ TeardownDone(p) \/ TeardownFails(p)
    \/ CancelJob(p)

AccessNext == Next /\ UNCHANGED <<tjob, rebuilt>>

LifecycleNext ==
    \/ AccessNext
    \/ \E p \in Others : AccountStep(p)
    \/ ReleaseStaleTeardown

LifecycleSpec == LifecycleInit /\ [][LifecycleNext]_lvars

(* As in AccessGrants: what was started settles, and the teardown worker   *)
(* keeps polling and releasing.  No administrator is obliged to act.       *)
LifecycleFairness ==
    /\ Fairness
    /\ \A p \in Others : WF_lvars(pc[p] # "idle" /\ AccountStep(p))
    /\ \A w \in TeardownWorkers : WF_lvars(TeardownClaimDue(w))
    /\ WF_lvars(ReleaseStaleTeardown /\ UNCHANGED faults)

LifecycleFairSpec == LifecycleSpec /\ LifecycleFairness

-----------------------------------------------------------------------------
JobOwed(a) ==
    \E kind \in Kinds, r \in Requests : ApiOf[r] = a /\ job[kind][r].st # "none"

TeardownOwed == tjob.st \in {"pending", "sending"}

(* A sweep that has claimed a grant is still on its way to the gateway. *)
SweepUnderWay(a) ==
    \E d \in GodDisablers :
      Sweeping(d) /\ pc[d] \in {"ckey", "get", "put"} /\ Api(d) = a

(* A group belongs to an active grant or something owes its removal: an    *)
(* access job, the teardown, a sweep under way, or the rebuild of an       *)
(* enable that has not succeeded yet.  While the account is disabled only  *)
(* a durable row will do: "there is no window in which the account is off  *)
(* and nothing remembers" (users/service.ts, transition).  A sweep that    *)
(* runs on after an enable breaks it, although "the group cannot outlive   *)
(* both" the teardown and the rebuild (access/service.ts, header).         *)
GroupsAccountedFor ==
    \A a \in acl :
      /\ \/ ActiveOn(a) # {} \/ JobOwed(a)
         \/ TeardownOwed \/ SweepUnderWay(a) \/ ~ rebuilt
      /\ status = "disabled" => TeardownOwed \/ JobOwed(a)

(* Once an enable has succeeded, every active grant has its group, however *)
(* the teardowns, approvals and revocations of before it end: a teardown   *)
(* asks inside the consumer's key whether the account is still disabled.   *)
(* Of accounts no god-mode sweep runs on; see SweepFindsNoRegrant.         *)
GrantsAreServed == rebuilt => NoPhantomGrant

(* The sweep takes off groups of revoked grants only: "the account is      *)
(* already disabled, and an approval's active-owner check inside the       *)
(* consumer key refuses to add a group back for it" (access/service.ts,    *)
(* revokeAllForUser).  An enable meanwhile makes both halves untrue.       *)
SweepFindsNoRegrant ==
    \A d \in GodDisablers :
      Sweeping(d) /\ pc[d] = "put" /\ fresh[d] => ActiveOn(Api(d)) = {}

(* An account that stays disabled, nobody disabling it over and over (each *)
(* disable supersedes the claim on the teardown), loses every group.       *)
DisabledIsStripped ==
    <>[](status = "disabled" /\ \A d \in Disablers : pc[d] = "idle")
      => <>[](acl = {})

(* An account that stays enabled, with its rebuild done, ends with exactly *)
(* the groups of its active grants.                                        *)
EnabledConverges ==
    <>[](status = "active" /\ rebuilt)
      => <>[](\A a \in Apis : a \in acl <=> ActiveOn(a) # {})
=============================================================================
