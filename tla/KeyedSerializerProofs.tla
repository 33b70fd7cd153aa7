------------------------ MODULE KeyedSerializerProofs ------------------------
(***************************************************************************)
(* Theorems about KeyedSerializer, for any number of serializers, sections *)
(* and keys and any nesting plan.                                          *)
(***************************************************************************)
EXTENDS KeyedSerializer, TLAPS

(* The keys a section is inside of are keys of its plan, and moving one    *)
(* level in or out adds or removes exactly one key.                        *)
LEMMA HeldKeys ==
  ASSUME TypeOK, NEW s \in Sections
  PROVE  /\ Held(s) \subseteq Keys
         /\ depth[s] < Len(Plan[s]) => NextKey(s) \in Keys \ Held(s)
         /\ depth[s] > 0 => Innermost(s) \in Held(s)
  <1>1. Plan[s] \in Seq(Keys) /\ depth[s] \in Nat /\ depth[s] <= Len(Plan[s])
    BY PlanAssumption DEF TypeOK
  <1>2. \A i \in 1..Len(Plan[s]) : Plan[s][i] \in Keys
    BY <1>1
  <1>3. \A i, j \in 1..Len(Plan[s]) : Plan[s][i] = Plan[s][j] => i = j
    BY PlanAssumption
  <1>4. Len(Plan[s]) \in Nat
    BY <1>1
  <1> QED
    BY <1>1, <1>2, <1>3, <1>4 DEF Held, NextKey, Innermost

(* What chaining a section and moving a chain on do to the promise chains. *)
LEMMA ChainOps ==
  ASSUME TypeOK, NEW s \in Sections, NEW k \in Keys
  PROVE  /\ Enqueued(s, k) \in [Serializers -> [Keys -> Seq(Sections)]]
         /\ queue[SerializerOf[s]][k] # <<>> =>
              Dequeued(s, k) \in [Serializers -> [Keys -> Seq(Sections)]]
         /\ \A z \in Serializers, j \in Keys :
              ~ (z = SerializerOf[s] /\ j = k) =>
                /\ Enqueued(s, k)[z][j] = queue[z][j]
                /\ Dequeued(s, k)[z][j] = queue[z][j]
         /\ queue[SerializerOf[s]][k] # <<>> =>
              /\ Enqueued(s, k)[SerializerOf[s]][k] # <<>>
              /\ Head(Enqueued(s, k)[SerializerOf[s]][k])
                   = Head(queue[SerializerOf[s]][k])
  <1> DEFINE z == SerializerOf[s]
             q == queue[z][k]
  <1>1. z \in Serializers
    BY ConstantsAssumption
  <1>2. queue \in [Serializers -> [Keys -> Seq(Sections)]] /\ q \in Seq(Sections)
    BY <1>1 DEF TypeOK
  <1>3. /\ Append(q, s) \in Seq(Sections)
        /\ q # <<>> => /\ Tail(q) \in Seq(Sections)
                       /\ Append(q, s) # <<>>
                       /\ Head(Append(q, s)) = Head(q)
    <2> HIDE DEF q
    <2> QED
      BY <1>2
  <1>4. /\ Enqueued(s, k) = [queue EXCEPT ![z] = [queue[z] EXCEPT ![k] = Append(q, s)]]
        /\ Dequeued(s, k) = [queue EXCEPT ![z] = [queue[z] EXCEPT ![k] = Tail(q)]]
    BY <1>1, <1>2 DEF Enqueued, Dequeued
  <1> HIDE DEF z, q
  <1>5. queue[z] \in [Keys -> Seq(Sections)]
    BY <1>1, <1>2
  <1>6. /\ Enqueued(s, k) \in [Serializers -> [Keys -> Seq(Sections)]]
        /\ q # <<>> => Dequeued(s, k) \in [Serializers -> [Keys -> Seq(Sections)]]
    BY <1>1, <1>2, <1>3, <1>4, <1>5
  <1>7. \A y \in Serializers, j \in Keys :
          ~ (y = z /\ j = k) => /\ Enqueued(s, k)[y][j] = queue[y][j]
                                /\ Dequeued(s, k)[y][j] = queue[y][j]
    BY <1>1, <1>2, <1>4, <1>5
  <1>8. Enqueued(s, k)[z][k] = Append(q, s)
    BY <1>1, <1>2, <1>4, <1>5
  <1> QED
    BY <1>3, <1>6, <1>7, <1>8 DEF z, q

-----------------------------------------------------------------------------
(* Type correctness: every action of the serializer keeps the state        *)
(* well-formed; in particular a section that ended is inside no key.       *)
LEMMA TypeInit == Init => TypeOK
  <1> SUFFICES ASSUME Init PROVE TypeOK
    OBVIOUS
  <1>1. \A s \in Sections : Len(Plan[s]) \in Nat
    BY PlanAssumption
  <1> QED
    BY <1>1 DEF Init, TypeOK, PCs

LEMMA TypeStep == TypeOK /\ HolderIsHead /\ [Next]_vars => TypeOK'
  <1> SUFFICES ASSUME TypeOK, HolderIsHead, [Next]_vars PROVE TypeOK'
    OBVIOUS
  <1> USE DEF PCs
  <1>0. \A s \in Sections : Len(Plan[s]) \in Nat /\ SerializerOf[s] \in Serializers
    BY PlanAssumption, ConstantsAssumption
  <1>1. ASSUME NEW s \in Sections, Enqueue(s) PROVE TypeOK'
    <2>1. NextKey(s) \in Keys
      BY <1>1, HeldKeys DEF Enqueue
    <2>2. queue' \in [Serializers -> [Keys -> Seq(Sections)]]
      BY <1>1, <2>1, ChainOps DEF Enqueue
    <2> QED
      BY <1>1, <2>2 DEF Enqueue, TypeOK
  <1>2. ASSUME NEW s \in Sections, Acquire(s) PROVE TypeOK'
    BY <1>0, <1>2, HeldKeys DEF Acquire, AtHead, TypeOK
  <1>3. ASSUME NEW s \in Sections, WaitTimeout(s) PROVE TypeOK'
    <2>1. NextKey(s) \in Keys
      BY <1>3, HeldKeys DEF WaitTimeout, AtHead, TypeOK
    <2>2. queue' \in [Serializers -> [Keys -> Seq(Sections)]]
      BY <1>3, <2>1, ChainOps DEF WaitTimeout, AtHead
    <2> QED
      BY <1>0, <1>3, <2>2 DEF WaitTimeout, AtHead, TypeOK
  <1>4. ASSUME NEW s \in Sections, AcquireError(s) PROVE TypeOK'
    <2>1. NextKey(s) \in Keys
      BY <1>4, HeldKeys DEF AcquireError, AtHead, TypeOK
    <2>2. queue' \in [Serializers -> [Keys -> Seq(Sections)]]
      BY <1>4, <2>1, ChainOps DEF AcquireError, AtHead
    <2> QED
      BY <1>0, <1>4, <2>1, <2>2 DEF AcquireError, AtHead, TypeOK
  <1>5. ASSUME NEW s \in Sections, CommitRefused(s) PROVE TypeOK'
    BY <1>5 DEF CommitRefused, Running, TypeOK
  <1>6. ASSUME NEW s \in Sections, Exit(s) PROVE TypeOK'
    <2>1. Innermost(s) \in Held(s) /\ Innermost(s) \in Keys
      BY <1>6, HeldKeys DEF Exit, Running
    <2>2. queue' \in [Serializers -> [Keys -> Seq(Sections)]]
      BY <1>6, <2>1, ChainOps DEF Exit, HolderIsHead
    <2>3. /\ owner' \in [Keys -> Sections \cup {Free}]
          /\ expired' \in [Keys -> BOOLEAN]
          /\ known' \in [Sections -> SUBSET Keys]
      BY <1>6, <2>1 DEF Exit, TypeOK
    <2>4. /\ pc' \in [Sections -> PCs]
          /\ depth' \in [Sections -> Nat]
          /\ \A t \in Sections :
               /\ depth'[t] <= Len(Plan[t])
               /\ pc'[t] = "waiting" => depth'[t] < Len(Plan[t])
               /\ pc'[t] \in {"idle", "done", "crashed"} => depth'[t] = 0
      BY <1>0, <1>6 DEF Exit, Running, TypeOK
    <2> QED
      BY <1>6, <2>2, <2>3, <2>4 DEF Exit, TypeOK
  <1>7. ASSUME NEW s \in Sections, NEW k \in Keys, Renew(s, k) PROVE TypeOK'
    BY <1>7 DEF Renew, TypeOK
  <1>8. ASSUME NEW s \in Sections, NEW k \in Keys, Read(s, k) PROVE TypeOK'
    BY <1>8 DEF Read, TypeOK
  <1>9. ASSUME NEW s \in Sections, NEW k \in Keys, Commit(s, k) PROVE TypeOK'
    BY <1>9 DEF Commit, TypeOK
  <1>10. ASSUME NEW k \in Keys, Expire(k) PROVE TypeOK'
    BY <1>10 DEF Expire, TypeOK
  <1>11. ASSUME NEW z \in Serializers, Crash(z) PROVE TypeOK'
    BY <1>0, <1>11 DEF Crash, TypeOK
  <1>12. CASE UNCHANGED vars
    BY <1>12 DEF vars, TypeOK
  <1> QED
    BY <1>1, <1>2, <1>3, <1>4, <1>5, <1>6, <1>7, <1>8, <1>9, <1>10, <1>11,
       <1>12 DEF Next, Terminated
-----------------------------------------------------------------------------
(* Entering and leaving keys: how each action moves the set of keys a      *)
(* section is inside of.                                                   *)
LEMMA HeldUnchanged ==
  ASSUME NEW s \in Sections, depth'[s] = depth[s]
  PROVE  Held(s)' = Held(s)
  BY DEF Held

LEMMA HeldAcquire ==
  ASSUME TypeOK, NEW s \in Sections, Acquire(s)
  PROVE  /\ Held(s)' = Held(s) \cup {NextKey(s)}
         /\ \A t \in Sections \ {s} : Held(t)' = Held(t)
  <1>1. depth[s] \in Nat /\ depth'[s] = depth[s] + 1
    BY DEF Acquire, TypeOK
  <1>2. \A t \in Sections \ {s} : depth'[t] = depth[t]
    BY DEF Acquire, TypeOK
  <1>3. 1..(depth[s] + 1) = (1..depth[s]) \cup {depth[s] + 1}
    BY <1>1
  <1> QED
    BY <1>1, <1>2, <1>3 DEF Held, NextKey

LEMMA HeldExit ==
  ASSUME TypeOK, NEW s \in Sections, Exit(s)
  PROVE  /\ Held(s)' = Held(s) \ {Innermost(s)}
         /\ \A t \in Sections \ {s} : Held(t)' = Held(t)
  <1>1. depth[s] \in Nat /\ depth[s] > 0 /\ depth'[s] = depth[s] - 1
    BY DEF Exit, Running, TypeOK
  <1>2. \A t \in Sections \ {s} : depth'[t] = depth[t]
    BY DEF Exit, TypeOK
  <1>3. /\ Len(Plan[s]) \in Nat /\ depth[s] <= Len(Plan[s])
        /\ \A i, j \in 1..Len(Plan[s]) : Plan[s][i] = Plan[s][j] => i = j
    BY PlanAssumption DEF TypeOK
  <1>4. \A i \in 1..(depth[s] - 1) : Plan[s][i] # Plan[s][depth[s]]
    BY <1>1, <1>3
  <1>5. 1..depth[s] = (1..(depth[s] - 1)) \cup {depth[s]}
    BY <1>1
  <1> QED
    BY <1>1, <1>2, <1>4, <1>5 DEF Held, Innermost

(* Whoever is inside a key stays at the front of its chain until it leaves *)
(* the key, so the chain admits nobody else of the same serializer.        *)
LEMMA HeadStep == TypeOK /\ HolderIsHead /\ [Next]_vars => HolderIsHead'
  <1> SUFFICES ASSUME TypeOK, HolderIsHead, [Next]_vars PROVE HolderIsHead'
    OBVIOUS
  <1> DEFINE Front(q, t, k) == /\ q[SerializerOf[t]][k] # <<>>
                               /\ Head(q[SerializerOf[t]][k]) = t
  <1>0. \A t \in Sections : /\ SerializerOf[t] \in Serializers
                            /\ Held(t) \subseteq Keys
                            /\ \A k \in Held(t) : Front(queue, t, k)
    BY ConstantsAssumption, HeldKeys DEF HolderIsHead
  <1>1. ASSUME NEW s \in Sections, Enqueue(s) PROVE HolderIsHead'
    <2>1. NextKey(s) \in Keys
      BY <1>1, HeldKeys DEF Enqueue
    <2>2. \A t \in Sections : Held(t)' = Held(t)
      BY <1>1, HeldUnchanged DEF Enqueue
    <2>3. ASSUME NEW t \in Sections, NEW k \in Held(t) PROVE Front(queue', t, k)
      <3>1. k \in Keys /\ SerializerOf[t] \in Serializers /\ Front(queue, t, k)
        BY <1>0, <2>3
      <3>2. queue' = Enqueued(s, NextKey(s))
        BY <1>1 DEF Enqueue
      <3>3. CASE SerializerOf[t] = SerializerOf[s] /\ k = NextKey(s)
        BY <2>1, <3>1, <3>2, <3>3, ChainOps
      <3>4. CASE ~ (SerializerOf[t] = SerializerOf[s] /\ k = NextKey(s))
        <4>1. queue'[SerializerOf[t]][k] = queue[SerializerOf[t]][k]
          BY <2>1, <3>1, <3>2, <3>4, ChainOps
        <4> QED
          BY <3>1, <4>1
      <3> QED
        BY <3>3, <3>4
    <2> QED
      BY <2>2, <2>3 DEF HolderIsHead
  <1>2. ASSUME NEW s \in Sections, Acquire(s) PROVE HolderIsHead'
    <2>1. queue' = queue /\ Front(queue, s, NextKey(s))
      BY <1>2 DEF Acquire, AtHead
    <2>2. ASSUME NEW t \in Sections, NEW k \in Held(t)' PROVE Front(queue, t, k)
      BY <1>0, <1>2, <2>1, <2>2, HeldAcquire
    <2> QED
      BY <2>1, <2>2 DEF HolderIsHead
  <1>3. ASSUME NEW s \in Sections, WaitTimeout(s) \/ AcquireError(s)
        PROVE  HolderIsHead'
    <2>1. NextKey(s) \in Keys \ Held(s) /\ Front(queue, s, NextKey(s))
      BY <1>3, HeldKeys DEF WaitTimeout, AcquireError, AtHead, TypeOK
    <2>2. \A t \in Sections : Held(t)' = Held(t)
      BY <1>3, HeldUnchanged DEF WaitTimeout, AcquireError
    <2>3. ASSUME NEW t \in Sections, NEW k \in Held(t) PROVE Front(queue', t, k)
      <3>1. ~ (SerializerOf[t] = SerializerOf[s] /\ k = NextKey(s))
        BY <1>0, <2>1, <2>3
      <3>2. k \in Keys /\ SerializerOf[t] \in Serializers /\ Front(queue, t, k)
        BY <1>0, <2>3
      <3>3. queue' = Dequeued(s, NextKey(s))
        BY <1>3 DEF WaitTimeout, AcquireError
      <3>4. queue'[SerializerOf[t]][k] = queue[SerializerOf[t]][k]
        BY <2>1, <3>1, <3>2, <3>3, ChainOps
      <3> QED
        BY <3>2, <3>4
    <2> QED
      BY <2>2, <2>3 DEF HolderIsHead
  <1>4. ASSUME NEW s \in Sections, Exit(s) PROVE HolderIsHead'
    <2>1. Innermost(s) \in Held(s)
      BY <1>4, HeldKeys DEF Exit, Running
    <2>2. ASSUME NEW t \in Sections, NEW k \in Held(t)' PROVE Front(queue', t, k)
      <3>1. k \in Held(t) /\ ~ (t = s /\ k = Innermost(s))
        BY <1>4, <2>2, HeldExit
      <3>2. ~ (SerializerOf[t] = SerializerOf[s] /\ k = Innermost(s))
        BY <1>0, <2>1, <3>1
      <3>3. k \in Keys /\ SerializerOf[t] \in Serializers /\ Front(queue, t, k)
        BY <1>0, <3>1
      <3>4. queue' = Dequeued(s, Innermost(s)) /\ Innermost(s) \in Keys
        BY <1>0, <1>4, <2>1 DEF Exit
      <3>5. queue'[SerializerOf[t]][k] = queue[SerializerOf[t]][k]
        BY <3>2, <3>3, <3>4, ChainOps
      <3> QED
        BY <3>3, <3>5
    <2> QED
      BY <2>2 DEF HolderIsHead
  <1>5. ASSUME NEW z \in Serializers, Crash(z) PROVE HolderIsHead'
    <2>1. ASSUME NEW t \in Sections, NEW k \in Held(t)' PROVE Front(queue', t, k)
      <3>0. depth'[t] # 0
        BY <2>1 DEF Held
      <3>1. SerializerOf[t] # z /\ Held(t)' = Held(t)
        BY <1>5, <3>0, HeldUnchanged DEF Crash, TypeOK, PCs
      <3> QED
        BY <1>0, <1>5, <2>1, <3>1 DEF Crash, TypeOK
    <2> QED
      BY <2>1 DEF HolderIsHead
  <1>6. CASE UNCHANGED <<queue, depth>>
    BY <1>6 DEF HolderIsHead, Held
  <1> QED
    BY <1>1, <1>2, <1>3, <1>4, <1>5, <1>6
       DEF Next, CommitRefused, Renew, Read, Commit, Expire, Terminated, vars

LEMMA HeadInit == Init => HolderIsHead
  BY DEF Init, HolderIsHead, Held

(* The state of every serializer, section and lease row stays well-formed. *)
THEOREM TypeCorrect == Spec => []TypeOK
  <1>1. Init => TypeOK /\ HolderIsHead
    BY TypeInit, HeadInit
  <1>2. TypeOK /\ HolderIsHead /\ [Next]_vars => TypeOK' /\ HolderIsHead'
    BY TypeStep, HeadStep
  <1> QED
    BY <1>1, <1>2, PTL DEF Spec

(* Sections of one serializer never overlap on a key, even when a lease    *)
(* lapsed under the first of them: the promise chain of serializePerKey    *)
(* alone orders them.                                                      *)
THEOREM InProcessExclusion == Spec => []NoOverlapInSerializer
  <1>1. Init => TypeOK /\ HolderIsHead
    BY TypeInit, HeadInit
  <1>2. TypeOK /\ HolderIsHead /\ [Next]_vars => TypeOK' /\ HolderIsHead'
    BY TypeStep, HeadStep
  <1>3. HolderIsHead => NoOverlapInSerializer
    BY DEF HolderIsHead, NoOverlapInSerializer
  <1> QED
    BY <1>1, <1>2, <1>3, PTL DEF Spec

-----------------------------------------------------------------------------
(* SafetyInv is inductive, given that the next state is well-formed.       *)
LEMMA SafetyStep == SafetyInv /\ TypeOK' /\ [Next]_vars => SafetyInv'
  <1> SUFFICES ASSUME SafetyInv, TypeOK', [Next]_vars PROVE SafetyInv'
    OBVIOUS
  <1>0. TypeOK /\ KnownIsHeld /\ HolderIsCurrent /\ NoLostUpdate
    BY DEF SafetyInv
  <1>1. ASSUME NEW s \in Sections, Acquire(s) PROVE SafetyInv'
    <2>1. NextKey(s) \in Keys /\ NextKey(s) \notin known[s]
      BY <1>0, <1>1, HeldKeys DEF Acquire, AtHead, TypeOK, KnownIsHeld
    <2>2. KnownIsHeld'
      BY <1>0, <1>1, HeldAcquire DEF Acquire, KnownIsHeld
    <2>3. HolderIsCurrent'
      BY <1>0, <1>1, <2>1 DEF Acquire, HolderIsCurrent, TypeOK
    <2> QED
      BY <1>0, <1>1, <2>2, <2>3 DEF Acquire, SafetyInv, NoLostUpdate
  <1>2. ASSUME NEW s \in Sections, AcquireError(s) PROVE SafetyInv'
    <2>1. NextKey(s) \in Keys /\ NextKey(s) \notin known[s]
      BY <1>0, <1>2, HeldKeys DEF AcquireError, AtHead, TypeOK, KnownIsHeld
    <2>2. KnownIsHeld'
      BY <1>0, <1>2, HeldUnchanged DEF AcquireError, KnownIsHeld
    <2>3. HolderIsCurrent'
      BY <1>0, <1>2, <2>1 DEF AcquireError, HolderIsCurrent, TypeOK
    <2> QED
      BY <1>0, <1>2, <2>2, <2>3 DEF AcquireError, SafetyInv, NoLostUpdate
  <1>3. ASSUME NEW s \in Sections, NEW k \in Keys, Read(s, k) PROVE SafetyInv'
    <2>1. KnownIsHeld'
      BY <1>0, <1>3, HeldUnchanged DEF Read, KnownIsHeld, TypeOK
    <2>2. HolderIsCurrent'
      BY <1>0, <1>3 DEF Read, HolderIsCurrent, TypeOK
    <2> QED
      BY <1>0, <1>3, <2>1, <2>2 DEF Read, SafetyInv, NoLostUpdate
  <1>4. ASSUME NEW s \in Sections, NEW k \in Keys, Commit(s, k) PROVE SafetyInv'
    <2>1. owner[k] = s /\ seen[s][k] = db[k]
      BY <1>0, <1>4 DEF Commit, FencesHold, KnownIsHeld, HolderIsCurrent
    <2>2. KnownIsHeld'
      BY <1>0, <1>4, HeldUnchanged DEF Commit, KnownIsHeld
    <2>3. HolderIsCurrent'
      BY <1>0, <1>4, <2>1 DEF Commit, HolderIsCurrent, TypeOK
    <2>4. NoLostUpdate'
      BY <1>0, <1>4, <2>1 DEF Commit, NoLostUpdate, TypeOK
    <2> QED
      BY <2>2, <2>3, <2>4 DEF SafetyInv
  <1>5. ASSUME NEW s \in Sections, Exit(s) PROVE SafetyInv'
    <2>1. known' = [known EXCEPT ![s] = known[s] \ {Innermost(s)}]
      BY <1>5 DEF Exit
    <2>2. KnownIsHeld'
      BY <1>0, <1>5, <2>1, HeldExit DEF KnownIsHeld, TypeOK
    <2>3. \A k \in Keys : owner'[k] = owner[k] \/ owner'[k] = Free
      BY <1>0, <1>5 DEF Exit, TypeOK
    <2>4. HolderIsCurrent'
      BY <1>0, <1>5, <2>1, <2>3, ConstantsAssumption
         DEF Exit, HolderIsCurrent, TypeOK
    <2> QED
      BY <1>0, <1>5, <2>2, <2>4 DEF Exit, SafetyInv, NoLostUpdate
  <1>6. ASSUME NEW z \in Serializers, Crash(z) PROVE SafetyInv'
    <2>1. \A t \in Sections :
            \/ known'[t] = {}
            \/ known'[t] = known[t] /\ depth'[t] = depth[t]
      BY <1>6 DEF Crash, TypeOK
    <2>2. KnownIsHeld'
      BY <1>0, <2>1, HeldUnchanged DEF KnownIsHeld
    <2>3. HolderIsCurrent'
      BY <1>0, <1>6, <2>1 DEF Crash, HolderIsCurrent
    <2> QED
      BY <1>0, <1>6, <2>2, <2>3 DEF Crash, SafetyInv, NoLostUpdate
  <1>7. CASE UNCHANGED <<owner, depth, known, seen, db, applied>>
    BY <1>0, <1>7
       DEF SafetyInv, KnownIsHeld, Held, HolderIsCurrent, NoLostUpdate
  <1> QED
    BY <1>1, <1>2, <1>3, <1>4, <1>5, <1>6, <1>7
       DEF Next, Enqueue, WaitTimeout, CommitRefused, Renew, Expire, Terminated,
           vars

LEMMA SafetyInit == Init => SafetyInv
  BY TypeInit DEF Init, SafetyInv, KnownIsHeld, Held, HolderIsCurrent, NoLostUpdate

LEMMA SafetyInvariant == Spec => [](SafetyInv /\ HolderIsHead)
  <1>1. Init => SafetyInv /\ HolderIsHead
    BY SafetyInit, HeadInit
  <1>2. SafetyInv /\ HolderIsHead /\ [Next]_vars => SafetyInv' /\ HolderIsHead'
    BY SafetyStep, TypeStep, HeadStep DEF SafetyInv
  <1> QED
    BY <1>1, <1>2, PTL DEF Spec

(* No acknowledged update is ever lost: the fence of lease-fence.ts is     *)
(* enough, for any number of instances and any pattern of lapsed leases,   *)
(* crashes and failed releases.                                            *)
THEOREM UpdatesAreNeverLost == Spec => []NoLostUpdate
  <1>1. SafetyInv => NoLostUpdate
    BY DEF SafetyInv
  <1> QED
    BY <1>1, SafetyInvariant, PTL

(* Every transaction that commits decided on current data, under its outer *)
(* keys as well as under the key whose data it writes.                     *)
THEOREM DecisionsAreCurrent == Spec => NoStaleDecision
  <1> DEFINE Fresh == \A s \in Sections :
                        (\E k \in Keys : s \in applied'[k] \ applied[k])
                          => \A j \in known[s] : seen[s][j] = db[j]
  <1>1. SafetyInv /\ [Next]_vars => [Fresh]_vars
    <2> SUFFICES ASSUME SafetyInv, Next,
                        NEW s \in Sections, NEW k \in Keys,
                        s \in applied'[k] \ applied[k],
                        NEW j \in known[s]
                 PROVE  seen[s][j] = db[j]
      BY DEF vars
    <2>1. PICK t \in Sections, i \in Keys : Commit(t, i)
      BY DEF Next, Enqueue, Acquire, WaitTimeout, AcquireError, CommitRefused,
             Exit, Renew, Read, Expire, Crash, Terminated, vars
    <2>2. t = s
      BY <2>1 DEF Commit, SafetyInv, TypeOK
    <2>3. j \in Held(s) /\ j \in Keys
      BY DEF SafetyInv, TypeOK, KnownIsHeld
    <2> QED
      BY <2>1, <2>2, <2>3 DEF Commit, FencesHold, SafetyInv, HolderIsCurrent
  <1> QED
    BY <1>1, SafetyInvariant, PTL DEF Spec, NoStaleDecision

-----------------------------------------------------------------------------
(* Functions of a serializer and a key are equal when their values are. *)
LEMMA SameLines ==
  ASSUME NEW V, NEW f \in [Serializers -> [Keys -> V]], NEW g \in [Serializers -> [Keys -> V]],
         \A y \in Serializers, j \in Keys : f[y][j] = g[y][j]
  PROVE  f = g
  <1>1. \A y \in Serializers : f[y] = g[y]
    <2> TAKE y \in Serializers
    <2>1. f[y] \in [Keys -> V] /\ g[y] \in [Keys -> V]
      OBVIOUS
    <2> QED
      BY <2>1
  <1> QED
    BY <1>1

(* When nobody moves in or out elsewhere, Inside changes at one place. *)
LEMMA InsideMoves ==
  ASSUME NEW z \in Serializers, NEW k \in Keys, NEW who \in SUBSET Sections,
         \A t \in Sections, y \in Serializers, j \in Keys :
           ~ (y = z /\ j = k) /\ SerializerOf[t] = y => (j \in Held(t)' <=> j \in Held(t)),
         \A t \in Sections : (SerializerOf[t] = z /\ k \in Held(t)') <=> t \in who
  PROVE  Inside' = [Inside EXCEPT ![z][k] = who]
  <1> DEFINE After == [Inside EXCEPT ![z][k] = who]
  <1>1. /\ Inside \in [Serializers -> [Keys -> SUBSET Sections]]
        /\ Inside' \in [Serializers -> [Keys -> SUBSET Sections]]
        /\ After \in [Serializers -> [Keys -> SUBSET Sections]]
    BY DEF Inside
  <1>2. ASSUME NEW y \in Serializers, NEW j \in Keys PROVE Inside'[y][j] = After[y][j]
    <2>1. Inside'[y][j] = {s \in Sections : SerializerOf[s] = y /\ j \in Held(s)'}
      BY DEF Inside
    <2>2. CASE y = z /\ j = k
      <3>1. After[y][j] = who
        BY <1>1, <2>2
      <3>2. {s \in Sections : SerializerOf[s] = y /\ j \in Held(s)'} = who
        BY <2>2
      <3> QED
        BY <2>1, <3>1, <3>2
    <2>3. CASE ~ (y = z /\ j = k)
      <3>1. After[y][j] = Inside[y][j]
        BY <1>1, <2>3
      <3>2. Inside[y][j] = {s \in Sections : SerializerOf[s] = y /\ j \in Held(s)}
        BY DEF Inside
      <3>3. {s \in Sections : SerializerOf[s] = y /\ j \in Held(s)'}
              = {s \in Sections : SerializerOf[s] = y /\ j \in Held(s)}
        BY <1>2, <2>3
      <3> QED
        BY <2>1, <3>1, <3>2, <3>3
    <2> QED
      BY <2>2, <2>3
  <1> HIDE DEF After
  <1>3. Inside' = After
    BY <1>1, <1>2, SameLines
  <1> QED
    BY <1>3 DEF After

LEMMA InsideStays ==
  ASSUME \A t \in Sections : Held(t)' = Held(t)
  PROVE  Inside' = Inside
  BY DEF Inside

(* Whoever is inside is the first of the line. *)
LEMMA InsideIsFirst ==
  ASSUME HolderIsHead, NEW z \in Serializers, NEW k \in Keys, NEW t \in Inside[z][k]
  PROVE  t \in Sections /\ k \in Held(t) /\ Head(queue[z][k]) = t
  BY DEF Inside, HolderIsHead

LEMMA TurnStep ==
  ASSUME TypeOK, HolderIsHead, [Next]_vars
  PROVE  [TurnTaking!Next]_<<queue, Inside>>
  <1>1. ASSUME NEW s \in Sections, Enqueue(s) PROVE TurnTaking!Next
    <2>1. SerializerOf[s] \in Serializers /\ NextKey(s) \in Keys
      BY <1>1, ConstantsAssumption, HeldKeys DEF Enqueue
    <2>2. Inside' = Inside
      BY <1>1, HeldUnchanged, InsideStays DEF Enqueue
    <2>3. TurnTaking!Ask(SerializerOf[s], NextKey(s), s)
      BY <1>1, <2>2 DEF Enqueue, Enqueued, TurnTaking!Ask
    <2> QED
      BY <2>1, <2>3 DEF TurnTaking!Next
  <1>2. ASSUME NEW s \in Sections, Acquire(s) PROVE TurnTaking!Next
    <2> DEFINE z == SerializerOf[s]
               k == NextKey(s)
    <2>1. z \in Serializers /\ k \in Keys \ Held(s) /\ queue[z][k] # <<>> /\ Head(queue[z][k]) = s
      BY <1>2, ConstantsAssumption, HeldKeys DEF Acquire, AtHead, TypeOK
    <2> HIDE DEF z, k
    <2>2. Inside[z][k] = {}
      BY <2>1, InsideIsFirst
    <2>3. Held(s)' = Held(s) \cup {k} /\ \A t \in Sections \ {s} : Held(t)' = Held(t)
      BY <1>2, HeldAcquire DEF k
    <2>4. \A t \in Sections : ~ (SerializerOf[t] = z /\ k \in Held(t))
      BY <2>1, <2>2 DEF Inside
    <2>5. Inside' = [Inside EXCEPT ![z][k] = {s}]
      <3>1. \A t \in Sections : (SerializerOf[t] = z /\ k \in Held(t)') <=> t \in {s}
        BY <2>3, <2>4 DEF z
      <3>2. \A t \in Sections, y \in Serializers, j \in Keys :
              ~ (y = z /\ j = k) /\ SerializerOf[t] = y => (j \in Held(t)' <=> j \in Held(t))
        BY <2>3 DEF z
      <3>3. {s} \in SUBSET Sections
        OBVIOUS
      <3> QED
        BY <2>1, <3>1, <3>2, <3>3, InsideMoves
    <2>6. TurnTaking!Enter(z, k, s)
      BY <1>2, <2>1, <2>2, <2>5 DEF Acquire, TurnTaking!Enter, TurnTaking!First
    <2> QED
      BY <2>1, <2>6 DEF TurnTaking!Next
  <1>3. ASSUME NEW s \in Sections, WaitTimeout(s) \/ AcquireError(s) PROVE TurnTaking!Next
    <2> DEFINE z == SerializerOf[s]
               k == NextKey(s)
    <2>1. z \in Serializers /\ k \in Keys \ Held(s) /\ queue[z][k] # <<>> /\ Head(queue[z][k]) = s
      BY <1>3, ConstantsAssumption, HeldKeys DEF WaitTimeout, AcquireError, AtHead, TypeOK
    <2>2. queue' = [queue EXCEPT ![z][k] = Tail(@)]
      BY <1>3 DEF WaitTimeout, AcquireError, Dequeued
    <2>3. \A t \in Sections : Held(t)' = Held(t)
      BY <1>3, HeldUnchanged DEF WaitTimeout, AcquireError
    <2> HIDE DEF z, k
    <2>4. Inside[z][k] = {}
      BY <2>1, InsideIsFirst
    <2>5. Inside' = [Inside EXCEPT ![z][k] = {}]
      <3>1. \A t \in Sections : (SerializerOf[t] = z /\ k \in Held(t)') <=> t \in {}
        BY <2>1, <2>3, <2>4 DEF Inside
      <3>2. \A t \in Sections, y \in Serializers, j \in Keys :
              ~ (y = z /\ j = k) /\ SerializerOf[t] = y => (j \in Held(t)' <=> j \in Held(t))
        BY <2>3
      <3> QED
        BY <2>1, <3>1, <3>2, InsideMoves
    <2>6. TurnTaking!Leave(z, k, s)
      BY <2>1, <2>2, <2>4, <2>5 DEF TurnTaking!Leave, TurnTaking!First
    <2> QED
      BY <2>1, <2>6 DEF TurnTaking!Next
  <1>4. ASSUME NEW s \in Sections, Exit(s) PROVE TurnTaking!Next
    <2> DEFINE z == SerializerOf[s]
               k == Innermost(s)
    <2>1. z \in Serializers /\ k \in Held(s) /\ k \in Keys
      BY <1>4, ConstantsAssumption, HeldKeys DEF Exit, Running
    <2>2. queue[z][k] # <<>> /\ Head(queue[z][k]) = s
      BY <2>1 DEF HolderIsHead
    <2>3. queue' = [queue EXCEPT ![z][k] = Tail(@)]
      BY <1>4 DEF Exit, Dequeued
    <2>4. Held(s)' = Held(s) \ {k} /\ \A t \in Sections \ {s} : Held(t)' = Held(t)
      BY <1>4, HeldExit
    <2> HIDE DEF z, k
    <2>5. Inside[z][k] \subseteq {s}
      BY <2>1, <2>2, InsideIsFirst
    <2>6. \A t \in Sections \ {s} : ~ (SerializerOf[t] = z /\ k \in Held(t))
      BY <2>1, <2>5 DEF Inside
    <2>7. Inside' = [Inside EXCEPT ![z][k] = {}]
      <3>1. \A t \in Sections : (SerializerOf[t] = z /\ k \in Held(t)') <=> t \in {}
        BY <2>4, <2>6
      <3>2. \A t \in Sections, y \in Serializers, j \in Keys :
              ~ (y = z /\ j = k) /\ SerializerOf[t] = y => (j \in Held(t)' <=> j \in Held(t))
        BY <2>4 DEF z
      <3> QED
        BY <2>1, <3>1, <3>2, InsideMoves
    <2>8. TurnTaking!Leave(z, k, s)
      BY <2>2, <2>3, <2>5, <2>7 DEF TurnTaking!Leave, TurnTaking!First
    <2> QED
      BY <2>1, <2>8 DEF TurnTaking!Next
  <1>5. ASSUME NEW z \in Serializers, Crash(z) PROVE TurnTaking!Next
    <2> DEFINE After == [Inside EXCEPT ![z] = [k \in Keys |-> {}]]
    <2>1. /\ Inside \in [Serializers -> [Keys -> SUBSET Sections]]
          /\ Inside' \in [Serializers -> [Keys -> SUBSET Sections]]
          /\ After \in [Serializers -> [Keys -> SUBSET Sections]]
      BY DEF Inside
    <2>2. \A t \in Sections : IF SerializerOf[t] = z THEN Held(t)' = {} ELSE Held(t)' = Held(t)
      <3> TAKE t \in Sections
      <3>1. CASE SerializerOf[t] = z
        <4>1. depth'[t] = 0
          BY <1>5, <3>1 DEF Crash, TypeOK, PCs
        <4> QED
          BY <3>1, <4>1 DEF Held
      <3>2. CASE SerializerOf[t] # z
        BY <1>5, <3>2, HeldUnchanged DEF Crash
      <3> QED
        BY <3>1, <3>2
    <2>3. ASSUME NEW y \in Serializers, NEW j \in Keys PROVE Inside'[y][j] = After[y][j]
      <3>1. Inside'[y][j] = {s \in Sections : SerializerOf[s] = y /\ j \in Held(s)'}
        BY DEF Inside
      <3>2. Inside[y][j] = {s \in Sections : SerializerOf[s] = y /\ j \in Held(s)}
        BY DEF Inside
      <3>3. After[y][j] = IF y = z THEN {} ELSE Inside[y][j]
        BY <2>1
      <3>4. CASE y = z
        BY <2>2, <3>1, <3>3, <3>4
      <3>5. CASE y # z
        BY <2>2, <3>1, <3>2, <3>3, <3>5
      <3> QED
        BY <3>4, <3>5
    <2> HIDE DEF After
    <2>4. Inside' = After
      BY <2>1, <2>3, SameLines
    <2>5. TurnTaking!Vanish(z)
      BY <1>5, <2>4 DEF Crash, After, TurnTaking!Vanish
    <2> QED
      BY <2>5 DEF TurnTaking!Next
  <1>6. CASE UNCHANGED <<queue, depth>>
    <2>1. Inside' = Inside
      BY <1>6, HeldUnchanged, InsideStays
    <2> QED
      BY <1>6, <2>1
  <1> QED
    BY <1>1, <1>2, <1>3, <1>4, <1>5, <1>6
       DEF Next, CommitRefused, Renew, Read, Commit, Expire, Terminated, vars

(* The sections of one process take turns at a key: they are let in, and   *)
(* turned away, one at a time and in the order in which they asked, with   *)
(* any number of processes, lapsed leases, failed acquisitions and crashes *)
(* (serializePerKey).                                                      *)
THEOREM Refinement == Spec => ImplementsTurns
  <1>1. Init => TypeOK /\ HolderIsHead /\ TurnTaking!Init
    <2>1. Init => Inside = [z \in Serializers |-> [k \in Keys |-> {}]]
      BY DEF Init, Inside, Held
    <2> QED
      BY <2>1, TypeInit, HeadInit DEF Init, TurnTaking!Init
  <1>2. TypeOK /\ HolderIsHead /\ [Next]_vars => TypeOK' /\ HolderIsHead'
    BY TypeStep, HeadStep
  <1>3. TypeOK /\ HolderIsHead /\ [Next]_vars => [TurnTaking!Next]_<<queue, Inside>>
    BY TurnStep
  <1> QED
    BY <1>1, <1>2, <1>3, PTL DEF Spec, ImplementsTurns, TurnTaking!Spec
=============================================================================
