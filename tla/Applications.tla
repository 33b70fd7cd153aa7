---------------------------- MODULE Applications ----------------------------
(***************************************************************************)
(* One application and its identity on the gateway: provisioning           *)
(* (credentials/consumers.ts, ensureConsumer, with consumers.ensure of     *)
(* ferrum-admin/client.ts), a credential issued to it, its disabling and   *)
(* its deletion (applications/service.ts).                                 *)
(*                                                                         *)
(* The consumer is created at an id derived from the application's, so it  *)
(* can be found with or without its mapping row.  Nothing can find it once *)
(* the application's row is gone: a key on it would work for ever.  Two    *)
(* keys order the operations, the provisioning name's and, inside it, the  *)
(* consumer's.  A holder that stalls may lose either to somebody else;     *)
(* every transaction is fenced by what its process holds, no gateway call  *)
(* is.  Why the fence suffices for the store is KeyedSerializer's subject, *)
(* the positions of the entries are that of Credentials.  An approval      *)
(* provisions the same way; its PUT names the tag of the consumer it read  *)
(* (AccessGrants), so a recreated consumer refuses it.                     *)
(***************************************************************************)
EXTENDS Naturals, FiniteSets

CONSTANTS
    Ops,        \* the operations of a behaviour; a key is named by its issue
    NoOp,       \* nobody
    Faults,     \* the kinds of fault that happen
    Solo,       \* those of them that no other fault comes with
    MaxFaults   \* how many of the others happen in one behaviour

AllFaults == {"refuse", "lost", "late", "tx", "ack", "takeover", "crash"}

ASSUME ApplicationsAssumption ==
    /\ IsFiniteSet(Ops) /\ NoOp \notin Ops
    /\ Solo \subseteq Faults /\ Faults \subseteq AllFaults /\ MaxFaults \in Nat

VARIABLES
    app,        \* the application's row
    mapped,     \* its consumer's mapping row, which goes with it
    rows,       \* its live credential rows, which go with it
    consumer,   \* the gateway holds the consumer
    keys,       \* the working keys on it
    flying,     \* creations of the consumer that timed out and may still land
    started,    \* application.delete_start rows that name the consumer
    closed,     \* the application.delete row
    lease,      \* lease[k]: whose token key k's row carries
    held,       \* held[o]: the keys o believes it holds
    kind, pc,   \* what o is and the await it is at
    found,      \* found[o]: the removal o knows of a consumer
    size,       \* size[o]: the entries the issue o saw before its append
    noted,      \* keys a credential.append_rollback row names
    taken,      \* history: a removal took the consumer down
    faults

store == <<app, mapped, rows, started, closed>>
edge == <<consumer, keys, flying, taken>>
locks == <<lease, held>>
issuing == <<size, noted>>
vars == <<store, edge, locks, kind, pc, found, issuing, faults>>

Keys == {"name", "id"}
Resting == {"idle", "done", "crashed"}

-----------------------------------------------------------------------------
(* No consumer yet, a provisioned one, or one whose mapping was not written. *)
Init ==
    /\ app = "active" /\ rows = {} /\ keys = {} /\ flying = 0
    /\ mapped \in BOOLEAN /\ consumer \in BOOLEAN /\ (mapped => consumer)
    /\ started = {} /\ closed = "none" /\ taken = FALSE
    /\ lease = [k \in Keys |-> NoOp] /\ held = [o \in Ops |-> {}]
    /\ kind = [o \in Ops |-> "none"] /\ pc = [o \in Ops |-> "idle"]
    /\ found = [o \in Ops |-> FALSE] /\ size = [o \in Ops |-> 0] /\ noted = {} /\ faults = 0

Fault(f) ==
    /\ f \in Faults
    /\ IF f \in Solo THEN faults = 0 /\ faults' = MaxFaults
                     ELSE faults < MaxFaults /\ faults' = faults + 1

At(o, label) == pc[o] = label
Goto(o, label) == pc' = [pc EXCEPT ![o] = label]

(* A key is free once its holder released it or died, or when the holder has *)
(* stalled past the lease.                                                   *)
Available(k) == lease[k] = NoOp \/ pc[lease[k]] \in Resting

Take(o, k, next) ==
    /\ IF Available(k) THEN UNCHANGED faults ELSE Fault("takeover")
    /\ lease' = [lease EXCEPT ![k] = o]
    /\ held' = [held EXCEPT ![o] = @ \cup {k}]
    /\ Goto(o, next)
    /\ UNCHANGED <<store, edge, kind, found>>

Released(o, ks) ==
    /\ held' = [held EXCEPT ![o] = @ \ ks]
    /\ lease' = [k \in Keys |-> IF k \in ks /\ lease[k] = o THEN NoOp ELSE lease[k]]

Leave(o) == Released(o, Keys) /\ Goto(o, "done") /\ UNCHANGED <<kind, found>>

FencesHold(o) == \A k \in held[o] : lease[k] = o

(* A transaction of o commits and goes on, or is refused, or commits with its *)
(* acknowledgement lost; the caller handles the last two alike.               *)
Commit(o, Body, Done, Handler) ==
    \/ FencesHold(o) /\ Body /\ Done /\ UNCHANGED faults
    \/ ~ FencesHold(o) /\ UNCHANGED store /\ Handler /\ UNCHANGED faults
    \/ Fault("tx") /\ UNCHANGED store /\ Handler
    \/ FencesHold(o) /\ Body /\ Fault("ack") /\ Handler

-----------------------------------------------------------------------------
(* issue: the route has resolved the application; ensureConsumer takes the   *)
(* name key and reads the application again.                                 *)
StartIssue(o) ==
    /\ At(o, "idle") /\ app = "active"
    /\ kind' = [kind EXCEPT ![o] = "issue"] /\ Goto(o, "name")
    /\ UNCHANGED <<store, edge, locks, found, faults>>

TakeName(o) ==
    At(o, "name") /\ Take(o, "name", IF kind[o] = "issue" THEN "usable" ELSE "reload")

(* Slip: ensureConsumer trusts the application its caller had loaded. *)
Usable_TrustsCaller(o) ==
    /\ At(o, "usable")
    /\ Goto(o, "mapping") /\ UNCHANGED <<locks, kind, found>>
    /\ UNCHANGED <<store, edge, faults>>

Usable(o) ==
    /\ At(o, "usable")
    /\ IF app = "active" THEN Goto(o, "mapping") /\ UNCHANGED <<locks, kind, found>> ELSE Leave(o)
    /\ UNCHANGED <<store, edge, faults>>

(* With the mapping at hand the name key is released; the consumer's follows. *)
Provisioned(o) == Released(o, {"name"}) /\ Goto(o, "id") /\ UNCHANGED <<kind, found>>

Mapping(o) ==
    /\ At(o, "mapping")
    /\ IF mapped THEN Provisioned(o) ELSE Goto(o, "ensure") /\ UNCHANGED <<locks, kind, found>>
    /\ UNCHANGED <<store, edge, faults>>

(* consumers.ensure: the derived id is read first. *)
Ensure(o) ==
    /\ At(o, "ensure")
    /\ Goto(o, IF consumer THEN "map" ELSE "create")
    /\ UNCHANGED <<store, edge, locks, kind, found, faults>>

(* The POST creates the consumer without groups or keys, or is refused       *)
(* because it is there by now, and then it is adopted.                       *)
CreateConsumer(o) ==
    /\ At(o, "create")
    /\ \/ /\ consumer' = TRUE /\ Goto(o, "map") /\ UNCHANGED <<flying, locks, kind, found, faults>>
       \/ Fault("refuse") /\ Leave(o) /\ UNCHANGED <<consumer, flying>>
       \/ Fault("lost") /\ consumer' = TRUE /\ Leave(o) /\ UNCHANGED flying
       \/ Fault("late") /\ flying' = flying + 1 /\ Leave(o) /\ UNCHANGED consumer
    /\ UNCHANGED <<store, keys, taken>>

Lands ==
    /\ flying > 0 /\ flying' = flying - 1 /\ consumer' = TRUE
    /\ UNCHANGED <<store, keys, taken, locks, kind, pc, found, faults>>

(* The mapping row, one to an identity.  The SQL schemas tie it to the       *)
(* application with a foreign key, MongoDB does not: the fence has to do.    *)
MapConsumer(o) ==
    /\ At(o, "map")
    /\ IF mapped
       THEN Leave(o) /\ UNCHANGED <<store, faults>>
       ELSE Commit(o, mapped' = TRUE /\ UNCHANGED <<app, rows, started, closed>>,
                   Provisioned(o), Leave(o))
    /\ UNCHANGED edge

-----------------------------------------------------------------------------
TakeId(o) == At(o, "id") /\ Take(o, "id", IF kind[o] = "issue" THEN "check" ELSE "look")

(* issueForConsumer: the application again, inside the consumer's key. *)
Check(o) ==
    /\ At(o, "check")
    /\ IF app = "active" THEN Goto(o, "get") /\ UNCHANGED <<locks, kind, found>> ELSE Leave(o)
    /\ UNCHANGED <<store, edge, faults>>

Get(o) ==
    /\ At(o, "get")
    /\ IF consumer
       THEN /\ Goto(o, "append") /\ size' = [size EXCEPT ![o] = Cardinality(keys)]
            /\ UNCHANGED <<locks, kind, found>>
       ELSE Leave(o) /\ UNCHANGED size
    /\ UNCHANGED <<store, edge, noted, faults>>

(* The entry reaches the consumer if there is one. *)
AppendKey(o) ==
    /\ At(o, "append")
    /\ \/ consumer /\ keys' = keys \cup {o} /\ Goto(o, "mirror") /\ UNCHANGED faults
       \/ ~ consumer /\ Goto(o, "reclaim") /\ UNCHANGED <<keys, faults>>
       \/ Fault("refuse") /\ Goto(o, "reclaim") /\ UNCHANGED keys
       \/ consumer /\ Fault("lost") /\ keys' = keys \cup {o} /\ Goto(o, "reclaim")
    /\ UNCHANGED <<store, consumer, flying, taken, locks, kind, found>>

Mirror(o) ==
    LET toWithdraw == Goto(o, "withdraw") /\ UNCHANGED <<locks, kind, found>>
    IN /\ At(o, "mirror")
       /\ Commit(o, rows' = rows \cup {o} /\ UNCHANGED <<app, mapped, started, closed>>,
                 Leave(o), toWithdraw)
       /\ UNCHANGED edge

(* The entry is taken back when the array is as the append left it; one that *)
(* cannot be is named by a rollback row, except after a POST that failed and *)
(* with an array that has not grown.                                         *)
Withdraw(o) ==
    LET asAppended == o \in keys /\ Cardinality(keys) = size[o] + 1
        neverGrew == At(o, "reclaim") /\ Cardinality(keys) = size[o]
    IN /\ pc[o] \in {"reclaim", "withdraw"}
       /\ \/ asAppended /\ keys' = keys \ {o} /\ UNCHANGED <<noted, faults>>
          \/ /\ IF asAppended THEN Fault("refuse") ELSE UNCHANGED faults
             /\ noted' = IF ~ consumer \/ neverGrew THEN noted ELSE noted \cup {o}
             /\ UNCHANGED keys
       /\ Leave(o)
       /\ UNCHANGED <<store, consumer, flying, taken, size>>

-----------------------------------------------------------------------------
(* remove: all of it under the name key; the application is read before it   *)
(* and again inside.                                                         *)
StartRemove(o) ==
    /\ At(o, "idle") /\ app # "gone"
    /\ kind' = [kind EXCEPT ![o] = "remove"] /\ Goto(o, "name")
    /\ UNCHANGED <<store, edge, locks, found, faults>>

Reload(o) ==
    /\ At(o, "reload")
    /\ IF app # "gone" THEN Goto(o, "find") /\ UNCHANGED <<locks, kind, found>> ELSE Leave(o)
    /\ UNCHANGED <<store, edge, faults>>

(* The mapping names the consumer; without one the derived id is looked up,  *)
(* and only a confirmed absence counts as none.                              *)
Find(o) ==
    /\ At(o, "find")
    /\ \/ /\ found' = [found EXCEPT ![o] = mapped \/ consumer] /\ Goto(o, "start")
          /\ UNCHANGED <<locks, kind, faults>>
       \/ ~ mapped /\ Fault("refuse") /\ Leave(o)
    /\ UNCHANGED <<store, edge>>

(* The intent is on record before the gateway is touched. *)
RecordStart(o) ==
    /\ At(o, "start")
    /\ Commit(o, started' = (IF found[o] THEN started \cup {o} ELSE started)
                   /\ UNCHANGED <<app, mapped, rows, closed>>,
              Goto(o, IF found[o] THEN "id" ELSE "drop") /\ UNCHANGED <<locks, kind, found>>,
              Leave(o))
    /\ UNCHANGED edge

Look(o) ==
    /\ At(o, "look")
    /\ \/ Goto(o, IF consumer THEN "delete" ELSE "drop") /\ UNCHANGED <<locks, kind, found, faults>>
       \/ Fault("refuse") /\ Leave(o)
    /\ UNCHANGED <<store, edge>>

DeleteConsumer(o) ==
    /\ At(o, "delete")
    /\ \/ /\ consumer' = FALSE /\ keys' = {} /\ taken' = (taken \/ consumer)
          /\ \/ Goto(o, "drop") /\ UNCHANGED <<locks, kind, found, faults>>
             \/ Fault("lost") /\ Leave(o)
       \/ Fault("refuse") /\ Leave(o) /\ UNCHANGED <<consumer, keys, taken>>
    /\ UNCHANGED <<store, flying>>

(* Slip: the completion row names only what this attempt found. *)
Named_OwnAttempt(o) == found[o]

(* What the completion row names: this attempt's consumer, or else that of   *)
(* an earlier attempt (earliestPriorAttempt).                                *)
Named(o) == found[o] \/ started \ {o} # {}

(* The row goes with its mapping, credentials and grants, and is recorded in *)
(* the same transaction.                                                     *)
Drop(o) ==
    /\ At(o, "drop")
    /\ Commit(o, /\ app' = "gone" /\ mapped' = FALSE /\ rows' = {}
                 /\ closed' = IF Named(o) THEN "named" ELSE "unnamed"
                 /\ UNCHANGED started,
              Leave(o), Leave(o))
    /\ UNCHANGED edge

-----------------------------------------------------------------------------
(* update: disabling revokes nothing and takes no key. *)
Toggle ==
    /\ app # "gone"
    /\ app' = IF app = "active" THEN "disabled" ELSE "active"
    /\ UNCHANGED <<mapped, rows, started, closed, edge, locks, kind, pc, found, faults>>

(* Waiting for a key ends at its deadline. *)
Timeout(o) ==
    /\ pc[o] \in {"name", "id"} /\ Leave(o)
    /\ UNCHANGED <<store, edge, faults>>

Crash(o) ==
    /\ pc[o] \notin Resting /\ Fault("crash")
    /\ Goto(o, "crashed") /\ held' = [held EXCEPT ![o] = {}]
    /\ UNCHANGED <<store, edge, lease, kind, found>>

Appending(o) == Get(o) \/ Withdraw(o)

Step(o) ==
    \/ TakeName(o) \/ TakeId(o) \/ Timeout(o) \/ Crash(o)
    \/ StartIssue(o) \/ Usable(o) \/ Mapping(o) \/ Ensure(o) \/ CreateConsumer(o) \/ MapConsumer(o)
    \/ Check(o) \/ AppendKey(o) \/ Mirror(o)
    \/ StartRemove(o) \/ Reload(o) \/ Find(o) \/ RecordStart(o) \/ Look(o) \/ DeleteConsumer(o)
    \/ Drop(o)

Next ==
    \/ (Toggle \/ Lands \/ \E o \in Ops : Step(o)) /\ UNCHANGED issuing
    \/ \E o \in Ops : Appending(o)

Spec == Init /\ [][Next]_vars

-----------------------------------------------------------------------------
(* A working key has an application, or an issue that is still running and   *)
(* will withdraw it, or a rollback row that names it; and nothing refers to  *)
(* an application that is gone.  A deletion never leaves behind "a live      *)
(* consumer, with a working key on it, that nothing in the portal tracks"    *)
(* (remove).                                                                 *)
KeysHaveAnOwner ==
    app = "gone" => /\ ~ mapped /\ rows = {}
                    /\ \A k \in keys : pc[k] \notin Resting \/ k \in noted

(* Whatever deletions took off the gateway is on record, however many of     *)
(* them stopped half way: while the application is there by an attempt's     *)
(* start row, afterwards by the completion row itself.                       *)
RemovalIsOnRecord ==
    taken => IF app = "gone" THEN closed = "named" ELSE started # {}
=============================================================================
