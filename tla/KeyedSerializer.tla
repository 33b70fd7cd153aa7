--------------------------- MODULE KeyedSerializer ---------------------------
(***************************************************************************)
(* The per-key critical section of server/src/lib/keyed-serializer.ts and  *)
(* the transaction fence of server/src/lib/lease-fence.ts.                 *)
(*                                                                         *)
(* A section takes the keys of its plan one inside the other.  Each level  *)
(* first waits its turn in the in-process promise queue of its serializer  *)
(* and then takes the key's row in the shared lease table.  Rows lapse:    *)
(* a section that stalls past its TTL may run on while another serializer  *)
(* has taken the key over.  What keeps the guarded data right is that      *)
(* every transaction verifies, as its last step, that each lease the       *)
(* section holds still names the token of that acquisition.                *)
(*                                                                         *)
(* A section takes a key at most once (nesting one key in itself deadlocks *)
(* by contract), so the section itself stands for the fresh token.         *)
(* Clocks are abstracted: a row is expired or not, and any row may lapse.  *)
(***************************************************************************)
EXTENDS Naturals, Sequences

CONSTANTS
    Serializers,    \* createKeyedSerializer() results, in one or more processes
    Sections,       \* serializePerKey() call trees, each run at most once
    Keys,           \* lease keys
    SerializerOf,   \* the serializer a section was started from
    Plan,           \* the keys a section nests, outermost first
    Free            \* no row in the lease table

ASSUME ConstantsAssumption ==
    /\ SerializerOf \in [Sections -> Serializers]
    /\ Free \notin Sections

(* Nesting a key inside itself never resolves: no caller does it. *)
ASSUME PlanAssumption ==
    /\ Plan \in [Sections -> Seq(Keys)]
    /\ \A s \in Sections :
         /\ Len(Plan[s]) > 0
         /\ \A i, j \in 1..Len(Plan[s]) : Plan[s][i] = Plan[s][j] => i = j

VARIABLES
    queue,      \* queue[z][k]: the promise chain of key k in serializer z
    owner,      \* owner[k]: the token in the row of k, or Free
    expired,    \* expired[k]: the row's expires_at has passed
    pc,         \* pc[s]: where section s is
    depth,      \* depth[s]: how many keys of its plan s is inside of
    known,      \* known[s]: the keys whose data s has read under its leases
    seen,       \* seen[s][k]: what s read of the data of k
    db,         \* db[k]: the updates the stored data of k reflects
    applied     \* applied[k]: the sections whose commit on k was acknowledged

vars == <<queue, owner, expired, pc, depth, known, seen, db, applied>>

PCs == {"idle", "waiting", "open", "closing", "done", "crashed"}

TypeOK ==
    /\ queue \in [Serializers -> [Keys -> Seq(Sections)]]
    /\ owner \in [Keys -> Sections \cup {Free}]
    /\ expired \in [Keys -> BOOLEAN]
    /\ pc \in [Sections -> PCs]
    /\ depth \in [Sections -> Nat]
    /\ \A s \in Sections : depth[s] <= Len(Plan[s])
    /\ \A s \in Sections : pc[s] = "waiting" => depth[s] < Len(Plan[s])
    /\ \A s \in Sections : pc[s] \in {"idle", "done", "crashed"} => depth[s] = 0
    /\ known \in [Sections -> SUBSET Keys]
    /\ seen \in [Sections -> [Keys -> SUBSET Sections]]
    /\ db \in [Keys -> SUBSET Sections]
    /\ applied \in [Keys -> SUBSET Sections]

Init ==
    /\ queue = [z \in Serializers |-> [k \in Keys |-> <<>>]]
    /\ owner = [k \in Keys |-> Free]
    /\ expired = [k \in Keys |-> FALSE]
    /\ pc = [s \in Sections |-> "idle"]
    /\ depth = [s \in Sections |-> 0]
    /\ known = [s \in Sections |-> {}]
    /\ seen = [s \in Sections |-> [k \in Keys |-> {}]]
    /\ db = [k \in Keys |-> {}]
    /\ applied = [k \in Keys |-> {}]

-----------------------------------------------------------------------------
(* The leases the async context of s carries (heldLeaseFences). *)
Held(s) == {Plan[s][i] : i \in 1..depth[s]}

Running(s) == pc[s] \in {"open", "closing"} /\ depth[s] > 0

(* The key s asks for next, and the key it is innermost inside of. *)
NextKey(s) == Plan[s][depth[s] + 1]
Innermost(s) == Plan[s][depth[s]]

(* Slip: the database lease alone, without the in-process chain. *)
AtHead_NoQueue(s) == pc[s] = "waiting"

(* s has reached the front of the promise chain of the key it asks for. *)
AtHead(s) ==
    /\ pc[s] = "waiting"
    /\ queue[SerializerOf[s]][NextKey(s)] # <<>>
    /\ Head(queue[SerializerOf[s]][NextKey(s)]) = s

(* The row of k admits a new token: there is none, or it has lapsed. *)
Acquirable(k) == owner[k] = Free \/ expired[k]

Enqueued(s, k) ==
    [queue EXCEPT ![SerializerOf[s]][k] = Append(@, s)]

Dequeued(s, k) ==
    [queue EXCEPT ![SerializerOf[s]][k] = Tail(@)]

(* Slips of the fence a commit could be checked by. *)
FencesHold_Skipped(s) == TRUE
FencesHold_InnermostOnly(s) == owner[Innermost(s)] = s
FencesHold_MissingRowPasses(s) == \A k \in Held(s) : owner[k] \in {s, Free}

(* Every lease s holds still carries its token; expiry alone is not a loss. *)
FencesHold(s) == \A k \in Held(s) : owner[k] = s

-----------------------------------------------------------------------------
(* serializePerKey: chain behind whatever is queued for the key.  An idle  *)
(* section starts with its outermost key, a running one nests the next.    *)
Enqueue(s) ==
    /\ pc[s] \in {"idle", "open"}
    /\ depth[s] < Len(Plan[s])
    /\ queue' = Enqueued(s, NextKey(s))
    /\ pc' = [pc EXCEPT ![s] = "waiting"]
    /\ UNCHANGED <<owner, expired, depth, known, seen, db, applied>>

(* repo.acquire answered true: the row now names this acquisition. *)
Acquire(s) ==
    /\ AtHead(s)
    /\ Acquirable(NextKey(s))
    /\ owner' = [owner EXCEPT ![NextKey(s)] = s]
    /\ expired' = [expired EXCEPT ![NextKey(s)] = FALSE]
    /\ pc' = [pc EXCEPT ![s] = "open"]
    /\ depth' = [depth EXCEPT ![s] = @ + 1]
    /\ UNCHANGED <<queue, known, seen, db, applied>>

(* Slips: a refusal that forgets the outer keys, or breaks the chain. *)
WaitTimeout_ForgetsOuterKeys(s) ==
    /\ AtHead(s)
    /\ ~ Acquirable(NextKey(s))
    /\ queue' = Dequeued(s, NextKey(s))
    /\ pc' = [pc EXCEPT ![s] = "done"]
    /\ UNCHANGED <<owner, expired, depth, known, seen, db, applied>>

WaitTimeout_ChainStops(s) ==
    /\ AtHead(s)
    /\ ~ Acquirable(NextKey(s))
    /\ pc' = [pc EXCEPT ![s] = IF depth[s] = 0 THEN "done" ELSE "closing"]
    /\ UNCHANGED <<queue, owner, expired, depth, known, seen, db, applied>>

(* Slip: the deadline runs from the call, so that a section still behind   *)
(* others in the chain gives up too.                                       *)
WaitTimeout_FromTheCall(s) ==
    /\ pc[s] = "waiting"
    /\ ~ Acquirable(NextKey(s))
    /\ queue' = [queue EXCEPT ![SerializerOf[s]][NextKey(s)] = SelectSeq(@, LAMBDA t : t # s)]
    /\ pc' = [pc EXCEPT ![s] = IF depth[s] = 0 THEN "done" ELSE "closing"]
    /\ UNCHANGED <<owner, expired, depth, known, seen, db, applied>>

(* The lease was refused until the deadline: CONFLICT, the chain moves on  *)
(* and the caller unwinds through the keys it already holds.               *)
WaitTimeout(s) ==
    /\ AtHead(s)
    /\ ~ Acquirable(NextKey(s))
    /\ queue' = Dequeued(s, NextKey(s))
    /\ pc' = [pc EXCEPT ![s] = IF depth[s] = 0 THEN "done" ELSE "closing"]
    /\ UNCHANGED <<owner, expired, depth, known, seen, db, applied>>

(* repo.acquire threw.  Its statement may have committed all the same, and *)
(* then the row names a token nobody holds until it lapses.                *)
AcquireError(s) ==
    /\ AtHead(s)
    /\ \/ /\ Acquirable(NextKey(s))
          /\ owner' = [owner EXCEPT ![NextKey(s)] = s]
          /\ expired' = [expired EXCEPT ![NextKey(s)] = FALSE]
       \/ UNCHANGED <<owner, expired>>
    /\ queue' = Dequeued(s, NextKey(s))
    /\ pc' = [pc EXCEPT ![s] = IF depth[s] = 0 THEN "done" ELSE "closing"]
    /\ UNCHANGED <<depth, known, seen, db, applied>>

(* The renewal timer of a held lease: the row's token is matched, its      *)
(* expiry is not.                                                          *)
Renew(s, k) ==
    /\ k \in Held(s)
    /\ pc[s] \in {"waiting", "open", "closing"}
    /\ owner[k] = s
    /\ expired[k]
    /\ expired' = [expired EXCEPT ![k] = FALSE]
    /\ UNCHANGED <<queue, owner, pc, depth, known, seen, db, applied>>

(* Time passes the row's expires_at. *)
Expire(k) ==
    /\ owner[k] # Free
    /\ ~ expired[k]
    /\ expired' = [expired EXCEPT ![k] = TRUE]
    /\ UNCHANGED <<queue, owner, pc, depth, known, seen, db, applied>>

(* The section's fn reads the data a key it is inside of guards. *)
Read(s, k) ==
    /\ Running(s)
    /\ k \in Held(s)
    /\ k \notin known[s]
    /\ known' = [known EXCEPT ![s] = @ \cup {k}]
    /\ seen' = [seen EXCEPT ![s][k] = db[k]]
    /\ UNCHANGED <<queue, owner, expired, pc, depth, db, applied>>

(* store.transaction inside the section: the body writes what it computed  *)
(* from its read, and the fence verifies every held lease before the       *)
(* commit.  The verification locks the rows, so the two are one step.      *)
Commit(s, k) ==
    /\ Running(s)
    /\ k \in known[s]
    /\ s \notin applied[k]
    /\ FencesHold(s)
    /\ db' = [db EXCEPT ![k] = seen[s][k] \cup {s}]
    /\ seen' = [seen EXCEPT ![s][k] = seen[s][k] \cup {s}]
    /\ applied' = [applied EXCEPT ![k] = @ \cup {s}]
    /\ UNCHANGED <<queue, owner, expired, pc, depth, known>>

(* A fence refused the commit: the transaction rolls back and the section  *)
(* leaves with CONFLICT.                                                   *)
CommitRefused(s) ==
    /\ Running(s)
    /\ pc[s] = "open"
    /\ known[s] # {}
    /\ ~ FencesHold(s)
    /\ pc' = [pc EXCEPT ![s] = "closing"]
    /\ UNCHANGED <<queue, owner, expired, depth, known, seen, db, applied>>

(* The fn of the innermost key settles: its lease record goes dead, the    *)
(* row is deleted if it still carries the token (best effort: the delete   *)
(* may fail), and the promise chain moves on.                              *)
Exit(s) ==
    /\ Running(s)
    /\ LET k == Innermost(s) IN
         /\ \/ /\ owner[k] = s
               /\ owner' = [owner EXCEPT ![k] = Free]
               /\ expired' = [expired EXCEPT ![k] = FALSE]
            \/ UNCHANGED <<owner, expired>>
         /\ queue' = Dequeued(s, k)
         /\ known' = [known EXCEPT ![s] = @ \ {k}]
    /\ depth' = [depth EXCEPT ![s] = @ - 1]
    /\ pc' = [pc EXCEPT ![s] = IF depth[s] = 1 THEN "done" ELSE "closing"]
    /\ UNCHANGED <<seen, db, applied>>

(* The process of serializer z dies: its promise chains and its sections   *)
(* are gone, its lease rows stay until they lapse.                         *)
Crash(z) ==
    LET lost == {s \in Sections : /\ SerializerOf[s] = z
                                  /\ pc[s] \in {"waiting", "open", "closing"}}
    IN  /\ lost # {}
        /\ queue' = [queue EXCEPT ![z] = [k \in Keys |-> <<>>]]
        /\ pc' = [s \in Sections |-> IF s \in lost THEN "crashed" ELSE pc[s]]
        /\ depth' = [s \in Sections |-> IF s \in lost THEN 0 ELSE depth[s]]
        /\ known' = [s \in Sections |-> IF s \in lost THEN {} ELSE known[s]]
        /\ UNCHANGED <<owner, expired, seen, db, applied>>

(* Every section has ended. *)
Terminated ==
    /\ \A s \in Sections : pc[s] \in {"done", "crashed"}
    /\ UNCHANGED vars

Next ==
    \/ \E s \in Sections :
         \/ Enqueue(s) \/ Acquire(s) \/ WaitTimeout(s) \/ AcquireError(s)
         \/ CommitRefused(s) \/ Exit(s)
         \/ \E k \in Keys : Renew(s, k) \/ Read(s, k) \/ Commit(s, k)
    \/ \E k \in Keys : Expire(k)
    \/ \E z \in Serializers : Crash(z)
    \/ Terminated

Spec == Init /\ [][Next]_vars

(* takeLease always returns or throws, because its wait has a deadline;    *)
(* and a section's fn, whose own awaits are all bounded, always settles.   *)
Fairness ==
    \A s \in Sections :
      /\ WF_vars(Acquire(s) \/ WaitTimeout(s) \/ AcquireError(s))
      /\ WF_vars(Exit(s))

FairSpec == Spec /\ Fairness

-----------------------------------------------------------------------------
(* No acknowledged update is lost: what is stored reflects exactly the     *)
(* transactions that were told they committed, however often leases lapsed *)
(* and changed hands under a running section (issue #384).                 *)
NoLostUpdate == db = applied

(* Nothing a section committed rests on stale data: at the moment any of   *)
(* its transactions commits, everything it has read under the leases it is *)
(* inside of - the outer keys as much as the written one - is current.     *)
NoStaleDecision ==
    [][\A s \in Sections :
         (\E k \in Keys : s \in applied'[k] \ applied[k])
            => \A j \in known[s] : seen[s][j] = db[j]]_vars

(* Sections of one serializer never overlap on a key, not even when the    *)
(* first one's lease lapsed or its row could not be deleted.               *)
NoOverlapInSerializer ==
    \A s, t \in Sections :
      (SerializerOf[s] = SerializerOf[t] /\ Held(s) \cap Held(t) # {}) => s = t

(* A queued section is always answered, with the key or with CONFLICT,     *)
(* whatever sections ahead of it crash, time out or lose their lease.      *)
EveryWaitEnds ==
    \A s \in Sections : pc[s] = "waiting" ~> pc[s] # "waiting"

(* Who is inside key k among the sections of serializer z. *)
Inside == [z \in Serializers |->
             [k \in Keys |-> {s \in Sections : SerializerOf[s] = z /\ k \in Held(s)}]]

(* The sections of a process are let in, or turned away, one at a time and *)
(* in the order in which they asked, whatever leases lapse, are refused or *)
(* cannot be released, and however the sections ahead of them end          *)
(* (serializePerKey: previous.then(guarded, guarded)).                     *)
TurnTaking == INSTANCE Turns WITH line <- queue, inside <- Inside
ImplementsTurns == TurnTaking!Spec

-----------------------------------------------------------------------------
(* The inductive strengthening of NoLostUpdate: a section reads only what  *)
(* it is inside of, and what a current token holder has read is current.   *)
KnownIsHeld == \A s \in Sections : known[s] \subseteq Held(s)

HolderIsCurrent ==
    \A s \in Sections : \A k \in Keys :
      (owner[k] = s /\ k \in known[s]) => seen[s][k] = db[k]

SafetyInv == TypeOK /\ KnownIsHeld /\ HolderIsCurrent /\ NoLostUpdate

(* The inductive strengthening of NoOverlapInSerializer: whoever is inside *)
(* a key is at the front of its serializer's chain for that key.           *)
HolderIsHead ==
    \A s \in Sections : \A k \in Held(s) :
      /\ queue[SerializerOf[s]][k] # <<>>
      /\ Head(queue[SerializerOf[s]][k]) = s
=============================================================================
