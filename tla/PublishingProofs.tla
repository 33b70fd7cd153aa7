-------------------------- MODULE PublishingProofs --------------------------
(***************************************************************************)
(* Theorems about Publishing, for any operations and any faults, any       *)
(* number of them.  An operation of a portal holds the key of the API or   *)
(* the key of a proxy over its calls, or, building a proxy of its own,     *)
(* neither.  The invariant says of each operation what it carries at its   *)
(* place and what its keys keep true for it; Steps reduces the proof that  *)
(* an action preserves it to what the action does to the gateway, to the   *)
(* rows and to the keys.                                                   *)
(***************************************************************************)
EXTENDS Publishing, TLAPS

-----------------------------------------------------------------------------
(* The inductive invariant.  First the types.                              *)
Refs == Ids \cup {None}
Plugins == Configs \cup {None}
States == {"deployed", "repair_required"}
Proxies == [at : {"none", "staged", "public"}, level : Levels, spec : Refs,
            cfgs : SUBSET Configs, on : SUBSET Configs]
Owned == [auth : Plugins, acl : Plugins]
RowRecords == [there : BOOLEAN, proxy : Refs, state : States, auth : Flavours, acl : BOOLEAN,
               level : Levels, spec : Refs, owned : Owned]
ConvRecords == [p : Ids, base : Proxies, cshape : Flavours \X BOOLEAN \X Levels, spec : Refs,
                cspec : Refs, authority : BOOLEAN, acked : BOOLEAN, removed : BOOLEAN,
                attempt : {"none", "unseen", "seen"}, obs : Proxies]
Cleanups == [p : Refs, acked : BOOLEAN]

Ended == {"done", "failed", "crashed", "logged"}
Making == {"create", "attach", "associate", "stamp", "cutover", "stamped", "adopt"}
Unmaking == {"salvage", "purge", "close"}
Updating == {"enter", "plug", "join", "detach", "drop", "respec", "save", "unwind", "note"}
Rebuilding == {"strike", "send", "ack", "attempt", "build", "look", "reattach", "rejoin", "recut",
               "finish", "partial"}
Converting == Rebuilding \cup {"authority", "judge", "report"}
Removing == {"custody", "delete", "erase", "fail"}
Labels == {"idle", "wait", "lease", "withdraw", "validate", "orphan", "flag", "plan", "recover", "relapse"}
          \cup Ended \cup Making \cup Unmaking \cup Updating \cup Converting \cup Removing

OpRecords ==
  [kind : AllKinds \cup {"none"}, pc : Labels, seen : Refs, api : RowRecords, level : Levels,
   goal : {"none", "forward", "back", "recover"},
   act : {"none", "remove", "cutover", "correct", "fix"},
   left : SUBSET Configs, known : SUBSET Configs, new : Plugins, old : Plugins,
   undo : Seq({"attached", "removed", "spec"}), bad : BOOLEAN, made : BOOLEAN,
   cut : {"no", "started", "acked"}, stranded : Refs]

Types ==
  /\ gw \in [Ids -> Proxies] /\ row \in RowRecords
  /\ conv \in ConvRecords \cup {NoConv} /\ cleanup \in Cleanups
  /\ apiKey \in Ops \cup {None} /\ proxyKey \in [Ids -> Ops \cup {None}]
  /\ op \in [Ops -> OpRecords]
  /\ reported \subseteq Ids /\ settling \subseteq Ids /\ vanished \subseteq Ids
  /\ faults \in 0 .. MaxFaults

(* What an operation carries, by its kind and place.                       *)
Updates == {"swap", "gate", "revise"}
ByApi == {"convert", "restore", "remove", "flag"}
Home(r) ==
  /\ r.kind = "none" <=> r.pc = "idle"
  /\ r.kind = "publish" => r.pc \in (Making \ {"stamp", "stamped"}) \cup {"withdraw", "note"}
  /\ r.kind \in Updates => r.pc \in Updating \cup {"lease"}
  /\ r.kind = "convert" => r.pc \in {"wait", "lease", "plan"} \cup Converting
  /\ r.kind = "restore" => r.pc \in {"wait", "lease", "validate", "orphan", "recover", "relapse"}
                                      \cup Making \cup Unmaking \cup Rebuilding
  /\ r.kind = "remove" => r.pc \in {"wait", "lease"} \cup Removing
  /\ r.kind = "flag" => r.pc \in {"wait", "lease", "flag"}
Goal(r) ==
  /\ r.kind = "convert" => IF r.pc \in Converting THEN r.goal \in {"forward", "back"} ELSE r.goal = "none"
  /\ r.kind = "restore" => IF r.pc \in Rebuilding \cup {"relapse"} THEN r.goal = "recover" ELSE r.goal = "none"
Carries(o, r) ==
  /\ r.pc = "idle" => r = Idle
  /\ r.kind = "publish" => r.api.there /\ r.api.proxy = o
  /\ r.kind \in {"swap", "gate", "convert", "flag"} => r.seen # None
  /\ r.undo # <<>> \/ r.bad \/ r.pc \in {"plug", "join", "detach", "drop", "respec", "note", "delete"}
       => r.seen # None \/ r.kind = "publish"
  /\ r.pc \in {"plug", "join"} => r.new \in Configs
  /\ r.kind \in Updates => \A i \in DOMAIN r.undo : r.undo[i] = "removed" => r.old \in Configs
  /\ r.kind = "swap" /\ r.pc \in {"plug", "join", "detach", "drop", "respec", "save"} => r.new \in Ids \X Flavours
  /\ r.pc \in {"create", "attach"} => r.left # {} /\ r.left \subseteq {o} \X (Flavours \cup {"acl"})
  /\ r.pc \in {"wait", "lease", "validate", "orphan", "create"} => r.known = {}
  /\ r.pc = "close" => r.stranded \in {None, o}
Fits(o, r) == r.pc \notin Ended => Home(r) /\ Goal(r) /\ Carries(o, r)

(* The rows agree with each other.                                         *)
Kept ==
  /\ conv # NoConv => row.there /\ row.proxy = conv.p
  /\ cleanup.p # None => row.there
  /\ row.there /\ row.proxy = None => row.state = "repair_required"

(* The proxy an operation may still build is its own business.             *)
Built(r) ==
  r.kind \in {"publish", "restore"} /\ r.pc \in (Making \ {"create"}) \cup Unmaking \cup {"withdraw", "note"}
Own(o, r) ==
  r.pc \notin Ended =>
    /\ row.proxy # o /\ conv.p # o /\ \A q \in Ops : op[q].seen # o
    /\ ~ Built(r) => gw[o].at = "none"
    /\ r.pc \in {"attach", "associate"} => gw[o].at = "none" \/ r.known \subseteq gw[o].cfgs

(* What the holder of the API's key can count on.                          *)
Sole(r) == r.kind \in ByApi /\ r.pc \notin {"wait"} \cup Ended
Assured(o, r) ==
  Sole(r) =>
    /\ apiKey = o
    /\ r.kind \in {"restore", "remove"} => row.there
    /\ r.kind = "restore" => cleanup.p \in {None, o}
    /\ r.pc = "validate" => row.proxy # None /\ proxyKey[row.proxy] = o
    /\ r.pc = "orphan" /\ row.proxy # None /\ row.proxy = r.api.proxy => gw[row.proxy].at = "none"
    /\ r.pc = "plan" => proxyKey[r.seen] = o
    /\ r.pc \in Converting \cup {"recover"} => conv # NoConv /\ proxyKey[conv.p] = o
    /\ r.pc \in {"delete", "erase"} => cleanup.p = None
    /\ r.pc = "delete" => row.proxy = r.seen
    /\ r.pc = "erase" /\ row.proxy # None => gw[row.proxy].at = "none"
    /\ r.pc = "close" /\ r.stranded = None => gw[o].at = "none"

(* An update has the key of its proxy, and plugs in what it made.          *)
Tuned(o, r) ==
  r.kind \in Updates /\ r.pc \in Updating /\ r.seen # None =>
    /\ proxyKey[r.seen] = o
    /\ r.pc = "join" => gw[r.seen].at = "none" \/ r.new \in gw[r.seen].cfgs

Gates == \A p \in Ids : gw[p].on \subseteq gw[p].cfgs

Base ==
  /\ Types /\ Kept /\ Gates
  /\ \A o \in Ops : Fits(o, op[o]) /\ Own(o, op[o]) /\ Assured(o, op[o]) /\ Tuned(o, op[o])
Sound == Base /\ ProxiesAreAccountedFor

-----------------------------------------------------------------------------
(* The proofs.  First the records.                                         *)

\* The fields of an operation's record.
LEMMA Fields ==
  ASSUME NEW r \in OpRecords
  PROVE  /\ r.kind \in AllKinds \cup {"none"} /\ r.pc \in Labels /\ r.seen \in Refs
         /\ r.api \in RowRecords /\ r.level \in Levels
         /\ r.goal \in {"none", "forward", "back", "recover"}
         /\ r.act \in {"none", "remove", "cutover", "correct", "fix"}
         /\ r.left \in SUBSET Configs /\ r.known \in SUBSET Configs /\ r.new \in Plugins
         /\ r.old \in Plugins /\ r.undo \in Seq({"attached", "removed", "spec"})
         /\ r.bad \in BOOLEAN /\ r.made \in BOOLEAN /\ r.stranded \in Refs
  BY DEF OpRecords

(* An operation that only moves.                                           *)
LEMMA Moves ==
  ASSUME NEW r \in OpRecords, NEW l \in Labels
  PROVE  LET n == [r EXCEPT !.pc = l]
         IN  /\ n \in OpRecords /\ n.pc = l
             /\ n.kind = r.kind /\ n.seen = r.seen /\ n.api = r.api /\ n.goal = r.goal
             /\ n.left = r.left /\ n.known = r.known /\ n.new = r.new /\ n.old = r.old
             /\ n.undo = r.undo /\ n.bad = r.bad /\ n.stranded = r.stranded
  <1>1. [r EXCEPT !.pc = l] \in OpRecords
    BY Zenon DEF OpRecords
  <1> QED
    BY <1>1 DEF OpRecords

OpStep(o) ==
  /\ op' \in [Ops -> OpRecords]
  /\ \A q \in Ops \ {o} : op'[q] = op[q]
  /\ Fits(o, op'[o])

\* A step that sets the operation to a record that fits.
LEMMA SetOp ==
  ASSUME NEW o \in Ops, op \in [Ops -> OpRecords], NEW r \in OpRecords, Fits(o, r), Set(o, r)
  PROVE  OpStep(o) /\ op'[o] = r
  BY DEF Set, OpStep

Throwing == Making \cup {"plug", "join", "detach", "drop", "respec", "save", "authority",
             "delete", "erase"} \cup Rebuilding
Catching == {"withdraw", "unwind", "salvage", "relapse", "judge", "report", "fail"}

\* A step that throws sends the operation to the handler of its place, and the record fits there.
LEMMA ErrorOp ==
  ASSUME NEW o \in Ops, op \in [Ops -> OpRecords], Fits(o, op[o]), op[o].pc \in Throwing, Error(o)
  PROVE  /\ OpStep(o)
         /\ op'[o] = [op[o] EXCEPT !.pc = HandlerOf(op[o])]
         /\ HandlerOf(op[o]) \in Catching
  <1> DEFINE r == op[o]
             l == HandlerOf(r)
  <1>1. r \in OpRecords /\ Fits(o, r) /\ r.pc \in Throwing
    OBVIOUS
  <1> HIDE DEF r
  <1>2. l \in Catching
    BY DEF HandlerOf, Catching
  <1>3. r.pc \notin Ended /\ l \in Labels
    BY <1>1, <1>2 DEF Throwing, Ended, Rebuilding, Making, Catching, Labels, Unmaking, Updating, Converting, Removing
  <1>4. Home(r) /\ Goal(r) /\ Carries(o, r)
    BY <1>1, <1>3 DEF Fits
  <1>5. Home([r EXCEPT !.pc = l]) /\ Goal([r EXCEPT !.pc = l])
    <2> DEFINE n == [r EXCEPT !.pc = l]
    <2>1. n.pc = l /\ n.kind = r.kind /\ n.goal = r.goal /\ r.kind \in AllKinds \cup {"none"}
      BY <1>1, <1>3, Moves, Fields
    <2> HIDE DEF n
    <2>2. Home(n) /\ Goal(n)
      BY <2>1, <1>1, <1>4 DEF Home, Goal, HandlerOf, Throwing, Rebuilding, Making, Unmaking, Updating, Converting,
             Removing, Updates, AllKinds
    <2> QED
      BY <2>2 DEF n
  <1>6. Carries(o, [r EXCEPT !.pc = l])
    <2> DEFINE n == [r EXCEPT !.pc = l]
    <2>1. /\ n.pc = l /\ n.kind = r.kind /\ n.goal = r.goal /\ n.seen = r.seen /\ n.api = r.api
          /\ n.undo = r.undo /\ n.bad = r.bad /\ n.old = r.old
      BY <1>1, <1>3, Moves
    <2> HIDE DEF n
    <2>2. Carries(o, n)
      BY <2>1, <1>1, <1>2, <1>4 DEF Carries, Catching, Throwing, Making, Rebuilding
    <2> QED
      BY <2>2 DEF n
  <1>7. Set(o, [r EXCEPT !.pc = l])
    BY DEF Error, Goto, r
  <1>8. [r EXCEPT !.pc = l] \in OpRecords
    BY <1>1, <1>3, Moves
  <1> QED
    <2>1. Fits(o, [r EXCEPT !.pc = l])
      BY <1>5, <1>6 DEF Fits
    <2>2. OpStep(o) /\ op'[o] = [r EXCEPT !.pc = l]
      BY <2>1, <1>7, <1>8, SetOp
    <2> QED
      BY <2>2, <1>2 DEF r

(* What a step of o leaves alone.                                          *)
Footprint(o) ==
  /\ \A p \in Ids \ {o} :
       \/ gw'[p] = gw[p] \/ gw'[p].at = "none"
       \/ proxyKey[p] = o /\ p = conv.p /\ apiKey = o
       \/ proxyKey[p] = o /\ p = op[o].seen /\ gw[p].at # "none"
  /\ row'.proxy \in {row.proxy, None} \/ (row'.proxy = o /\ op'[o].pc \in Ended)
  /\ conv'.p \in {conv.p, None, row.proxy}
  /\ op'[o].seen \in {op[o].seen, row.proxy, conv.p, None} \/ (op'[o].seen = o /\ op'[o].pc \in Ended)
  /\ \A p \in Ids : proxyKey[p] \notin {None, o} => proxyKey'[p] = proxyKey[p]
  /\ apiKey \notin {None, o} =>
       /\ apiKey' = apiKey /\ (conv' = NoConv <=> conv = NoConv) /\ conv'.p = conv.p
       /\ row.there => row'.there /\ row'.proxy = row.proxy /\ cleanup'.p = cleanup.p

\* A step of o that leaves alone what Footprint says costs no other operation what it counts on.
LEMMA Others ==
  ASSUME Base, NEW o \in Ops, op[o].pc \notin Ended, OpStep(o), Footprint(o), NEW q \in Ops, q # o
  PROVE  Fits(q, op'[q]) /\ Own(q, op[q])' /\ Assured(q, op[q])' /\ Tuned(q, op[q])'
  <1> DEFINE r == op[q]
  <1>1. /\ op'[q] = r /\ r \in OpRecords /\ q \in Ids /\ q # None /\ o \in Ids /\ o # None
        /\ Fits(q, r) /\ Own(q, r) /\ Own(o, op[o]) /\ Assured(q, r) /\ Tuned(q, r)
    BY PublishingAssumption DEF Base, Types, OpStep, Ids
  <1>2. Own(q, op[q])'
    <2>1. SUFFICES ASSUME r.pc \notin Ended
                   PROVE  /\ row'.proxy # q /\ conv'.p # q /\ \A u \in Ops : op'[u].seen # q
                          /\ ~ Built(r) => gw'[q].at = "none"
                          /\ r.pc \in {"attach", "associate"} => gw'[q].at = "none" \/ r.known \subseteq gw'[q].cfgs
      BY <1>1 DEF Own
    <2>2. /\ row.proxy # q /\ conv.p # q /\ \A u \in Ops : op[u].seen # q
          /\ ~ Built(r) => gw[q].at = "none"
          /\ r.pc \in {"attach", "associate"} => gw[q].at = "none" \/ r.known \subseteq gw[q].cfgs
      BY <1>1, <2>1 DEF Own
    <2> HIDE DEF r
    <2>3. gw'[q] = gw[q] \/ gw'[q].at = "none"
      BY <1>1, <2>2 DEF Footprint
    <2>4. row'.proxy # q /\ conv'.p # q
      BY <1>1, <2>2 DEF Footprint
    <2>5. \A u \in Ops : op'[u].seen # q
      BY <1>1, <2>2 DEF Footprint, OpStep
    <2> QED
      BY <2>2, <2>3, <2>4, <2>5
  <1>3. Tuned(q, op[q])'
    <2>1. SUFFICES ASSUME r.kind \in Updates, r.pc \in Updating, r.seen # None
                   PROVE  /\ proxyKey'[r.seen] = q
                          /\ r.pc = "join" => gw'[r.seen].at = "none" \/ r.new \in gw'[r.seen].cfgs
      BY <1>1 DEF Tuned
    <2>2. /\ proxyKey[r.seen] = q
          /\ r.pc = "join" => gw[r.seen].at = "none" \/ r.new \in gw[r.seen].cfgs
      BY <1>1, <2>1 DEF Tuned
    <2>3. r.seen \in Ids /\ r.seen # o
      BY <1>1, <2>1, Fields DEF Own, Refs
    <2> HIDE DEF r
    <2> QED
      BY <1>1, <2>2, <2>3 DEF Footprint
  <1>4. Assured(q, op[q])'
    <2>1. SUFFICES ASSUME Sole(r)
                   PROVE  /\ apiKey' = q
                          /\ r.kind \in {"restore", "remove"} => row'.there
                          /\ r.kind = "restore" => cleanup'.p \in {None, q}
                          /\ r.pc = "validate" => row'.proxy # None /\ proxyKey'[row'.proxy] = q
                          /\ r.pc = "orphan" /\ row'.proxy # None /\ row'.proxy = r.api.proxy
                               => gw'[row'.proxy].at = "none"
                          /\ r.pc = "plan" => proxyKey'[r.seen] = q
                          /\ r.pc \in Converting \cup {"recover"} => conv' # NoConv /\ proxyKey'[conv'.p] = q
                          /\ r.pc \in {"delete", "erase"} => cleanup'.p = None
                          /\ r.pc = "delete" => row'.proxy = r.seen
                          /\ r.pc = "erase" /\ row'.proxy # None => gw'[row'.proxy].at = "none"
                          /\ r.pc = "close" /\ r.stranded = None => gw'[q].at = "none"
      BY <1>1 DEF Assured
    <2>2. /\ apiKey = q
          /\ r.kind \in {"restore", "remove"} => row.there
          /\ r.kind = "restore" => cleanup.p \in {None, q}
          /\ r.pc = "validate" => row.proxy # None /\ proxyKey[row.proxy] = q
          /\ r.pc = "orphan" /\ row.proxy # None /\ row.proxy = r.api.proxy => gw[row.proxy].at = "none"
          /\ r.pc = "plan" => proxyKey[r.seen] = q
          /\ r.pc \in Converting \cup {"recover"} => conv # NoConv /\ proxyKey[conv.p] = q
          /\ r.pc \in {"delete", "erase"} => cleanup.p = None
          /\ r.pc = "delete" => row.proxy = r.seen
          /\ r.pc = "erase" /\ row.proxy # None => gw[row.proxy].at = "none"
          /\ r.pc = "close" /\ r.stranded = None => gw[q].at = "none"
      BY <1>1, <2>1 DEF Assured
    <2>3. /\ apiKey' = q /\ (conv' = NoConv <=> conv = NoConv) /\ conv'.p = conv.p
          /\ row.there => row'.there /\ row'.proxy = row.proxy /\ cleanup'.p = cleanup.p
      BY <1>1, <2>2 DEF Footprint
    <2>4. row.proxy \in Refs /\ row.proxy # o /\ (conv # NoConv => conv.p \in Ids)
      BY <1>1 DEF Base, Types, RowRecords, ConvRecords, Own
    <2>5. \A p \in Ids \ {o} : gw[p].at = "none" => gw'[p].at = "none"
      BY <1>1, <2>2 DEF Footprint
    <2>6. \A p \in Ids : proxyKey[p] = q => proxyKey'[p] = q
      BY <1>1 DEF Footprint
    <2>7. r.pc \in {"validate", "orphan", "delete", "erase", "close"} => r.kind \in {"restore", "remove"}
      BY <1>1, <2>1 DEF Fits, Home, Sole, ByApi, Converting, Rebuilding, Removing, Making, Unmaking
    <2>8. r.pc = "plan" => r.seen \in Ids
      <3>1. r.pc = "plan" => r.kind = "convert"
        BY <1>1, <2>1 DEF Fits, Home, Sole, ByApi, Converting, Rebuilding, Removing, Making, Unmaking
      <3> QED
        BY <1>1, <2>1, <3>1, Fields DEF Fits, Carries, Sole, Refs
    <2> HIDE DEF r
    <2> QED
      BY <1>1, <2>2, <2>3, <2>4, <2>5, <2>6, <2>7, <2>8 DEF Refs
  <1> QED
    BY <1>1, <1>2, <1>3, <1>4

(***************************************************************************)
(* What a step of o has to do.                                             *)
(***************************************************************************)
Lead(p) == (row.there /\ row.proxy = p) \/ p \in {conv.p, cleanup.p} \cup reported

Gateway(o) ==
  /\ gw' \in [Ids -> Proxies] /\ Gates'
  /\ settling' \subseteq Ids /\ vanished' \subseteq Ids /\ faults' \in 0 .. MaxFaults
  /\ \A p \in Ids \ {o} :
       \/ gw'[p] = gw[p] \/ gw'[p].at = "none"
       \/ proxyKey[p] = o /\ p = conv.p /\ apiKey = o
       \/ proxyKey[p] = o /\ p = op[o].seen /\ gw[p].at # "none"
Store(o) ==
  /\ row' \in RowRecords /\ conv' \in ConvRecords \cup {NoConv} /\ cleanup' \in Cleanups
  /\ reported' \subseteq Ids /\ Kept'
  /\ row'.proxy \in {row.proxy, None} \/ (row'.proxy = o /\ op'[o].pc \in Ended)
  /\ conv'.p \in {conv.p, None, row.proxy}
  /\ apiKey # o => /\ (conv' = NoConv <=> conv = NoConv) /\ conv'.p = conv.p
                   /\ row.there => row'.there /\ row'.proxy = row.proxy /\ cleanup'.p = cleanup.p
  /\ \A p \in Ids \ {o} : gw'[p].at # "none" /\ Lead(p) => Lead(p)'
Keys(o) ==
  /\ apiKey' \in Ops \cup {None} /\ proxyKey' \in [Ids -> Ops \cup {None}]
  /\ apiKey \notin {None, o} => apiKey' = apiKey
  /\ \A p \in Ids : proxyKey[p] \notin {None, o} => proxyKey'[p] = proxyKey[p]

\* What is left to show of an action: what it does to the gateway, the rows and the keys, and that
\* the operation itself has what it counts on afterwards.
LEMMA Steps ==
  ASSUME Sound, NEW o \in Ops, op[o].pc \notin Ended, OpStep(o), Gateway(o), Store(o), Keys(o),
         op'[o].seen \in {op[o].seen, row.proxy, conv.p, None} \/ (op'[o].seen = o /\ op'[o].pc \in Ended),
         Own(o, op[o])', Assured(o, op[o])', Tuned(o, op[o])',
         gw'[o].at # "none" => Lead(o)' \/ op'[o].pc \notin {"idle", "done", "failed"}
  PROVE  Sound'
  <1>1. Footprint(o)
    BY DEF Footprint, Gateway, Store, Keys
  <1>2. \A q \in Ops \ {o} : Fits(q, op'[q]) /\ Own(q, op[q])' /\ Assured(q, op[q])' /\ Tuned(q, op[q])'
    BY <1>1, Others DEF Sound
  <1>3. ASSUME NEW p \in Ids, gw'[p].at # "none"
        PROVE  Lead(p)' \/ (p \in Ops /\ op'[p].pc \notin {"idle", "done", "failed"})
    <2>1. CASE p = o
      BY <1>3, <2>1
    <2>2. CASE p # o
      <3>1. gw[p].at # "none" \/ Lead(p)
        BY <1>3, <2>2 DEF Gateway, Lead
      <3>2. p \in Ops => op'[p] = op[p]
        BY <2>2 DEF OpStep
      <3>3. Lead(p) \/ (p \in Ops /\ op[p].pc \notin {"idle", "done", "failed"})
        BY <3>1 DEF Sound, ProxiesAreAccountedFor, Lead
      <3> QED
        BY <1>3, <2>2, <3>2, <3>3 DEF Store
    <2> QED
      BY <2>1, <2>2
  <1>4. ProxiesAreAccountedFor'
    BY <1>3 DEF ProxiesAreAccountedFor, Lead
  <1>5. Types' /\ Gates' /\ Kept'
    BY DEF Types, OpStep, Gateway, Store, Keys
  <1> QED
    BY <1>2, <1>4, <1>5 DEF Sound, Base, OpStep

(* A step that neither ends the operation nor touches the row's reference.  *)
Going(o, n) ==
  /\ n \in OpRecords /\ n.pc \notin Ended /\ Fits(o, n)
  /\ n.seen \in {op[o].seen, row.proxy, conv.p}
  /\ ~ Built(n) => gw'[o].at = "none"
  /\ n.pc \in {"attach", "associate"} => gw'[o].at = "none" \/ n.known \subseteq gw'[o].cfgs

\* A step that goes on, of an operation that builds nothing or goes on building.
LEMMA Remains ==
  ASSUME Sound, NEW o \in Ops, op[o].pc \notin Ended, NEW n, Set(o, n), Going(o, n),
         Gateway(o), Store(o), Keys(o), Assured(o, n)', Tuned(o, n)'
  PROVE  Sound'
  <1>1. OpStep(o) /\ op'[o] = n
    BY SetOp DEF Sound, Base, Types, Going
  <1>2. Own(o, op[o])'
    <2>1. row'.proxy # o /\ conv'.p # o
      BY <1>1, PublishingAssumption DEF Sound, Base, Own, Store, Going
    <2>2. \A q \in Ops : op'[q].seen # o
      BY <1>1 DEF Sound, Base, Own, OpStep, Going
    <2> QED
      BY <1>1, <2>1, <2>2 DEF Own, Going
  <1>3. gw'[o].at # "none" => op'[o].pc \notin {"idle", "done", "failed"}
    BY <1>1 DEF Going, Built, Making, Unmaking
  <1>4. Assured(o, op[o])' /\ Tuned(o, op[o])'
    BY <1>1 DEF Assured, Tuned
  <1> QED
    BY <1>1, <1>2, <1>3, <1>4, Steps DEF Going

\* A step that does not touch the keys, the rows or the gateway owes nothing about them.
LEMMA Unbroken ==
  ASSUME Sound, NEW o \in Ops
  PROVE  /\ UNCHANGED keys => Keys(o)
         /\ UNCHANGED store => Store(o)
         /\ UNCHANGED edge /\ faults' \in 0 .. MaxFaults => Gateway(o)
  <1>1. UNCHANGED keys => Keys(o)
    BY DEF Sound, Base, Types, Keys, keys
  <1>2. UNCHANGED store => Store(o)
    BY DEF Sound, Base, Types, Store, store, Kept, Lead
  <1>3. UNCHANGED edge /\ faults' \in 0 .. MaxFaults => Gateway(o)
    BY DEF Sound, Base, Types, Gateway, edge, Gates
  <1> QED
    BY <1>1, <1>2, <1>3

\* A fault keeps to the bound.
LEMMA Faulty ==
  ASSUME Sound
  PROVE  /\ UNCHANGED faults => faults' \in 0 .. MaxFaults
         /\ \A k : Fault(k) => faults' \in 0 .. MaxFaults
  BY PublishingAssumption DEF Sound, Base, Types, Fault

\* The invariant, of one operation.
LEMMA Knows ==
  ASSUME Sound, NEW o \in Ops
  PROVE  /\ op[o] \in OpRecords /\ o \in Ids /\ o # None
         /\ Fits(o, op[o]) /\ Own(o, op[o]) /\ Assured(o, op[o]) /\ Tuned(o, op[o])
  BY PublishingAssumption DEF Sound, Base, Types, Ids

(* The operation ends.                                                      *)
LEMMA Released ==
  ASSUME Sound, NEW o \in Ops, Release(o)
  PROVE  Keys(o)
  BY DEF Sound, Base, Types, Release, Keys

\* The record of an operation that has not begun.
LEMMA IdleRecord == Idle \in OpRecords
  <1>1. NoRow \in RowRecords
    BY DEF NoRow, RowRecords, States, Flavours, Levels, Refs, Owned, Plugins
  <1>2. "idle" \in Labels
    BY DEF Labels
  <1> QED
    BY <1>1, <1>2 DEF Idle, OpRecords, Refs, Levels, Plugins

\* The record of an operation that is over.
LEMMA Finals ==
  ASSUME NEW k \in AllKinds \cup {"none"}, NEW l \in Labels
  PROVE  LET n == [Idle EXCEPT !.kind = k, !.pc = l]
         IN  n \in OpRecords /\ n.pc = l /\ n.kind = k /\ n.seen = None
  <1>1. [Idle EXCEPT !.kind = k, !.pc = l] \in OpRecords
    BY IdleRecord, Zenon DEF OpRecords
  <1> QED
    BY <1>1 DEF Idle

\* A step that ends the operation.
LEMMA Stops ==
  ASSUME Sound, NEW o \in Ops, op[o].pc \notin Ended, NEW n \in OpRecords, n.pc \in Ended, Set(o, n),
         n.seen \in {op[o].seen, None, o}, Gateway(o), Store(o), Keys(o),
         gw'[o].at # "none" => Lead(o)' \/ n.pc \in {"crashed", "logged"}
  PROVE  Sound'
  <1>1. Fits(o, n)
    BY DEF Fits
  <1>2. OpStep(o) /\ op'[o] = n
    BY <1>1, SetOp DEF Sound, Base, Types
  <1>3. Own(o, op[o])' /\ Assured(o, op[o])' /\ Tuned(o, op[o])'
    BY <1>2 DEF Own, Assured, Tuned, Sole, Ended, Updating
  <1> QED
    BY <1>1, <1>2, <1>3, Steps DEF Ended

\* The same when it returns or throws.
LEMMA Leaves ==
  ASSUME Sound, NEW o \in Ops, op[o].pc \notin Ended, NEW how \in {"done", "failed"}, Leave(o, how),
         Gateway(o), Store(o), gw'[o].at # "none" => Lead(o)'
  PROVE  Sound'
  <1>1. PICK n : n = [Idle EXCEPT !.kind = op[o].kind, !.pc = how]
    OBVIOUS
  <1>2. op[o].kind \in AllKinds \cup {"none"} /\ how \in Labels /\ how \in Ended /\ None \in Refs
    BY Knows, Fields DEF Labels, Ended, Refs
  <1>3. n \in OpRecords /\ n.pc = how /\ n.seen = None
    BY <1>1, <1>2, Finals
  <1>4. Set(o, n) /\ Keys(o)
    BY <1>1, Released DEF Leave
  <1> QED
    BY <1>2, <1>3, <1>4, Stops

(* The operation only moves.                                                *)
LEMMA Calm ==
  ASSUME NEW o, NEW n, UNCHANGED <<gw, row, conv, cleanup, apiKey, proxyKey>>
  PROVE  /\ Assured(o, n) => Assured(o, n)'
         /\ Tuned(o, n) => Tuned(o, n)'
  BY DEF Assured, Tuned

\* A step that changes nothing but the operation.
LEMMA MovesOn ==
  ASSUME Sound, NEW o \in Ops, op[o].pc \notin Ended, NEW n, Set(o, n),
         n \in OpRecords, n.pc \notin Ended, Fits(o, n),
         n.seen \in {op[o].seen, row.proxy, conv.p}, ~ Built(n) => gw[o].at = "none",
         n.pc \in {"attach", "associate"} => gw[o].at = "none" \/ n.known \subseteq gw[o].cfgs,
         Assured(o, n), Tuned(o, n), UNCHANGED <<edge, store, keys>>, faults' \in 0 .. MaxFaults
  PROVE  Sound'
  <1>1. UNCHANGED <<gw, row, conv, cleanup, apiKey, proxyKey>>
    BY DEF edge, store, keys
  <1>2. Going(o, n)
    BY <1>1 DEF Going
  <1>3. Gateway(o) /\ Store(o) /\ Keys(o)
    BY Unbroken
  <1>4. Assured(o, n)' /\ Tuned(o, n)'
    BY <1>1, Calm
  <1> QED
    BY <1>2, <1>3, <1>4, Remains

(* The operation goes to the compensation of its error.                     *)
LEMMA Throws ==
  ASSUME Sound, NEW o \in Ops, op[o].pc \in Throwing, Error(o), Gateway(o), Store(o),
         UNCHANGED <<row, cleanup, keys>>, conv'.p = conv.p, conv' = NoConv <=> conv = NoConv,
         op[o].pc \in Making \/ gw'[o].at = gw[o].at
  PROVE  Sound'
  <1>1. PICK n : n = [op[o] EXCEPT !.pc = HandlerOf(op[o])]
    OBVIOUS
  <1> DEFINE r == op[o]
  <1>2. /\ r \in OpRecords /\ r.pc \in Throwing
        /\ Fits(o, r) /\ Own(o, r) /\ Assured(o, r) /\ Tuned(o, r)
    BY Knows
  <1>3. OpStep(o) /\ op'[o] = n /\ HandlerOf(r) \in Catching
    BY <1>1, <1>2, ErrorOp DEF Sound, Base, Types
  <1>4. r.pc \notin Ended /\ HandlerOf(r) \in Labels /\ HandlerOf(r) \notin Ended
    BY <1>2, <1>3 DEF Throwing, Ended, Rebuilding, Making, Catching, Labels, Unmaking, Updating, Converting, Removing
  <1>5. /\ n \in OpRecords /\ n.pc = HandlerOf(r) /\ n.kind = r.kind /\ n.goal = r.goal /\ n.seen = r.seen
    BY <1>1, <1>2, <1>4, Moves
  <1>6. Fits(o, n) /\ Home(n) /\ Goal(n) /\ Home(r) /\ Goal(r)
    BY <1>2, <1>3, <1>4, <1>5 DEF OpStep, Fits
  <1>7. Set(o, n)
    BY <1>1 DEF Error, Goto
  <1> HIDE DEF r
  <1>8. ~ Built(n) => r.pc \notin Making /\ ~ Built(r)
    <2>1. r.kind \in {"publish", "restore"} /\ r.pc \in Making => HandlerOf(r) \in {"withdraw", "salvage"}
      BY <1>6 DEF Goal, HandlerOf, Making, Rebuilding
    <2>2. r.pc \in Making => r.kind \in {"publish", "restore"}
      BY <1>2, <1>6, Fields DEF Home, Making, Rebuilding, Converting, Removing, Updating, AllKinds, Updates
    <2> QED
      BY <1>2, <1>5, <2>1, <2>2 DEF Built, Unmaking, Throwing, Rebuilding, Making
  <1>9. Going(o, n)
    <2>1. n.pc \notin {"attach", "associate"}
      BY <1>3, <1>5 DEF Catching
    <2>2. ~ Built(n) => gw'[o].at = "none"
      BY <1>2, <1>4, <1>8 DEF Own, r
    <2> QED
      BY <1>4, <1>5, <1>6, <2>1, <2>2 DEF Going, r
  <1>10. Assured(o, n)'
    <2>1. Sole(n) => Sole(r)
      BY <1>2, <1>4, <1>5 DEF Sole, Throwing, Making, Rebuilding
    <2>2. n.pc \in Converting \cup {"recover"} => r.pc \in Converting
      BY <1>2, <1>3, <1>5, <1>6 DEF Goal, Home, HandlerOf, Converting, Rebuilding, Catching, Throwing,
             Making, Removing, Updating, Unmaking
    <2>3. n.pc \notin {"validate", "orphan", "plan", "delete", "erase", "close"}
      BY <1>3, <1>5 DEF Catching
    <2>4. UNCHANGED <<row, cleanup, apiKey, proxyKey>>
      BY DEF keys
    <2> QED
      BY <1>2, <1>5, <2>1, <2>2, <2>3, <2>4 DEF Assured
  <1>11. Tuned(o, n)'
    <2>1. n.kind \in Updates /\ n.pc \in Updating => r.pc \in Updating /\ n.pc # "join"
      BY <1>2, <1>3, <1>5, <1>6 DEF Home, Catching, Updating, Updates, Throwing, Making, Rebuilding
    <2>2. UNCHANGED proxyKey
      BY DEF keys
    <2> QED
      BY <1>2, <1>5, <2>1, <2>2 DEF Tuned
  <1>12. Keys(o)
    BY Unbroken
  <1> QED
    BY <1>4, <1>7, <1>9, <1>10, <1>11, <1>12, Remains DEF r

-----------------------------------------------------------------------------
(* Writes to the gateway and to the journals.                              *)

\* The fields of a proxy, and what an assignment to one leaves of the others.
LEMMA ProxyFields ==
  ASSUME NEW g \in Proxies
  PROVE  /\ g.at \in {"none", "staged", "public"} /\ g.level \in Levels /\ g.spec \in Refs
         /\ g.cfgs \in SUBSET Configs /\ g.on \in SUBSET Configs
         /\ \A c : /\ [g EXCEPT !.cfgs = c].cfgs = c /\ [g EXCEPT !.cfgs = c].on = g.on
                   /\ [g EXCEPT !.on = c].cfgs = g.cfgs /\ [g EXCEPT !.on = c].on = c
                   /\ [g EXCEPT !.at = c].cfgs = g.cfgs /\ [g EXCEPT !.at = c].on = g.on
                   /\ [g EXCEPT !.spec = c].cfgs = g.cfgs /\ [g EXCEPT !.spec = c].on = g.on
                   /\ [g EXCEPT !.cfgs = c].at = g.at /\ [g EXCEPT !.on = c].at = g.at
                   /\ [g EXCEPT !.spec = c].at = g.at
         /\ \A c, d : /\ [g EXCEPT !.cfgs = c, !.on = d].cfgs = c /\ [g EXCEPT !.cfgs = c, !.on = d].on = d
                      /\ [g EXCEPT !.cfgs = c, !.on = d].at = g.at
                      /\ [g EXCEPT !.spec = c, !.at = d].cfgs = g.cfgs
                      /\ [g EXCEPT !.spec = c, !.at = d].on = g.on
  BY DEF Proxies

\* The proxy that is not there.
LEMMA NoProxyRecord == NoProxy \in Proxies /\ NoProxy.at = "none" /\ NoProxy.cfgs = {} /\ NoProxy.on = {}
  BY DEF NoProxy, Proxies, Levels, Refs

\* A call on the gateway of an operation that holds the proxy's key, or on its own proxy.
LEMMA Writes ==
  ASSUME Sound, NEW o \in Ops, NEW p \in Ids, NEW g \in Proxies, g.on \subseteq g.cfgs,
         gw' = gw \/ gw' = [gw EXCEPT ![p] = g],
         settling' \subseteq Ids, vanished' \subseteq Ids, faults' \in 0 .. MaxFaults,
         \/ p = o \/ g.at = "none"
         \/ proxyKey[p] = o /\ p = conv.p /\ apiKey = o
         \/ proxyKey[p] = o /\ p = op[o].seen /\ gw[p].at # "none"
  PROVE  Gateway(o)
  <1>1. gw \in [Ids -> Proxies] /\ Gates
    BY DEF Sound, Base, Types
  <1>2. gw' \in [Ids -> Proxies] /\ Gates'
    BY <1>1 DEF Gates
  <1> QED
    BY <1>1, <1>2 DEF Gateway

Rewrites == conv' \in ConvRecords /\ conv'.p = conv.p /\ UNCHANGED <<row, cleanup, reported>>

\* A transaction that changes the conversion journal and not its proxy.
LEMMA Rewritten ==
  ASSUME Sound, NEW o \in Ops, conv # NoConv, conv' = conv \/ Rewrites, UNCHANGED <<row, cleanup, reported>>
  PROVE  Store(o) /\ conv' # NoConv /\ conv'.p = conv.p
  <1>1. conv \in ConvRecords
    BY DEF Sound, Base, Types
  <1>2. conv' \in ConvRecords /\ conv'.p = conv.p
    BY <1>1 DEF Rewrites
  <1>3. conv' # NoConv
    <2>1. conv'.p \in Ids /\ NoConv.p = None
      BY <1>2 DEF ConvRecords, NoConv
    <2> QED
      BY <2>1, PublishingAssumption DEF Ids
  <1>4. Kept'
    BY <1>2 DEF Kept, Sound, Base
  <1> QED
    BY <1>2, <1>3, <1>4 DEF Store, Sound, Base, Types, Lead

(* A step of a rebuild under the journal.                                   *)
LEMMA Rebuilds ==
  ASSUME Sound, NEW o \in Ops, op[o].pc \in Rebuilding \cup {"authority"}, NEW n \in OpRecords, Set(o, n),
         n.pc \in Rebuilding \cup {"judge", "report"}, n.pc \in {"judge", "report"} => op[o].kind = "convert",
         n.kind = op[o].kind, n.goal = op[o].goal, n.seen = op[o].seen,
         n.undo = op[o].undo, n.bad = op[o].bad,
         Gateway(o), gw'[o].at = gw[o].at, conv' = conv \/ Rewrites, UNCHANGED <<row, cleanup, reported, keys>>
  PROVE  Sound'
  <1> DEFINE r == op[o]
  <1>1. /\ r \in OpRecords /\ r.pc \in Rebuilding \cup {"authority"}
        /\ Fits(o, r) /\ Own(o, r) /\ Assured(o, r) /\ Tuned(o, r)
    BY Knows
  <1>2. r.pc \notin Ended /\ n.pc \notin Ended
    BY <1>1 DEF Ended, Rebuilding
  <1>3. Home(r) /\ Goal(r) /\ Carries(o, r)
    BY <1>1, <1>2 DEF Fits
  <1>4. r.kind \in {"convert", "restore"}
    BY <1>1, <1>3, Fields DEF Home, Making, Rebuilding, Converting, Removing, Updating, AllKinds, Updates
  <1> HIDE DEF r
  <1>5. Fits(o, n)
    <2>1. Home(n) /\ Goal(n)
      BY <1>1, <1>3, <1>4 DEF Home, Goal, Converting, Rebuilding, r, Updates, Making, Unmaking
    <2>2. Carries(o, n)
      BY <1>3, <1>4 DEF Carries, r, Rebuilding, Updates
    <2> QED
      BY <2>1, <2>2 DEF Fits
  <1>6. Going(o, n)
    <2>1. ~ Built(r)
      BY <1>1 DEF Built, Rebuilding, Making, Unmaking
    <2>2. gw'[o].at = "none"
      BY <1>1, <1>2, <2>1 DEF Own
    <2>3. n.pc \notin {"attach", "associate"}
      BY DEF Rebuilding
    <2> QED
      BY <1>2, <1>5, <2>2, <2>3 DEF Going
  <1>7. /\ apiKey = o /\ conv # NoConv /\ proxyKey[conv.p] = o /\ (r.kind = "restore" => row.there)
        /\ (r.kind = "restore" => cleanup.p \in {None, o})
    BY <1>1, <1>2, <1>4 DEF Assured, Sole, ByApi, Converting, Rebuilding
  <1>8. Store(o) /\ conv' # NoConv /\ conv'.p = conv.p /\ Keys(o)
    BY <1>7, Rewritten, Unbroken
  <1>9. Assured(o, n)'
    <2>1. n.pc \notin {"validate", "orphan", "plan", "delete", "erase", "close"}
      BY DEF Rebuilding
    <2>2. n.kind \notin {"remove"} /\ n.kind = r.kind
      BY <1>4 DEF r
    <2> QED
      BY <1>7, <1>8, <2>1, <2>2 DEF Assured, keys
  <1>10. Tuned(o, n)'
    BY <1>4 DEF Tuned, Updates, r
  <1> QED
    BY <1>2, <1>6, <1>8, <1>9, <1>10, Remains DEF r

\* Assignments to the fields of the journal are journals.
LEMMA ConvUpdates ==
  ASSUME NEW c \in ConvRecords
  PROVE  /\ \A b \in BOOLEAN : [c EXCEPT !.authority = b] \in ConvRecords /\ [c EXCEPT !.acked = b] \in ConvRecords
         /\ \A b, d \in BOOLEAN : [c EXCEPT !.acked = b, !.removed = d] \in ConvRecords
         /\ \A a \in {"none", "unseen", "seen"} :
              /\ [c EXCEPT !.attempt = a] \in ConvRecords
              /\ \A g \in Proxies : [c EXCEPT !.attempt = a, !.obs = g] \in ConvRecords
         /\ \A s \in Refs : [c EXCEPT !.cspec = s] \in ConvRecords
  BY Zenon DEF ConvRecords

\* They leave the proxy the journal is about.
LEMMA ConvKeeps ==
  ASSUME NEW c \in ConvRecords
  PROVE  \A x, y : /\ [c EXCEPT !.authority = x].p = c.p /\ [c EXCEPT !.acked = x].p = c.p
                   /\ [c EXCEPT !.acked = x, !.removed = y].p = c.p
                   /\ [c EXCEPT !.attempt = x].p = c.p /\ [c EXCEPT !.attempt = x, !.obs = y].p = c.p
                   /\ [c EXCEPT !.cspec = x].p = c.p
  BY DEF ConvRecords

(* What a rebuild finds.                                                    *)
LEMMA InRebuild ==
  ASSUME Sound, NEW o \in Ops, op[o].pc \in Converting
  PROVE  /\ conv \in ConvRecords /\ conv.p \in Ids /\ conv.p # o /\ conv # NoConv
         /\ proxyKey[conv.p] = o /\ apiKey = o
         /\ gw[conv.p] \in Proxies /\ gw[conv.p].on \subseteq gw[conv.p].cfgs
         /\ row \in RowRecords /\ row.there /\ row.proxy = conv.p
         /\ op[o].pc \notin Ended /\ op[o].kind \in {"convert", "restore"}
         /\ op[o].pc \notin Making
  <1>1. /\ op[o] \in OpRecords /\ Fits(o, op[o]) /\ Own(o, op[o]) /\ Assured(o, op[o])
    BY Knows
  <1>2. op[o].pc \notin Ended /\ op[o].pc # "wait" /\ op[o].pc \notin Making
    BY DEF Converting, Rebuilding, Ended, Making
  <1>3. op[o].kind \in {"convert", "restore"}
    BY <1>1, <1>2, Fields DEF Fits, Home, Making, Rebuilding, Converting, Removing, Updating, AllKinds, Updates
  <1>4. conv # NoConv /\ proxyKey[conv.p] = o /\ apiKey = o
    BY <1>1, <1>2, <1>3 DEF Assured, Sole, ByApi
  <1>5. conv \in ConvRecords /\ conv.p \in Ids
    BY <1>4 DEF Sound, Base, Types, ConvRecords
  <1> QED
    BY <1>1, <1>2, <1>3, <1>4, <1>5 DEF Own, Sound, Base, Types, Gates, Kept

\* A rebuild that decides what to do next.
LEMMA MovesActing ==
  ASSUME NEW r \in OpRecords, NEW l \in Labels, NEW a \in {"none", "remove", "cutover", "correct", "fix"}
  PROVE  LET n == [r EXCEPT !.pc = l, !.act = a]
         IN  /\ n \in OpRecords /\ n.pc = l /\ n.kind = r.kind /\ n.goal = r.goal /\ n.seen = r.seen
             /\ n.undo = r.undo /\ n.bad = r.bad
  <1>1. [r EXCEPT !.pc = l, !.act = a] \in OpRecords
    BY Zenon DEF OpRecords
  <1> QED
    BY <1>1 DEF OpRecords

\* A step that throws and does nothing else.
LEMMA ThrowsAtOnce ==
  ASSUME Sound, NEW o \in Ops, op[o].pc \in Throwing, Error(o), UNCHANGED <<edge, store, keys>>,
         faults' \in 0 .. MaxFaults
  PROVE  Sound'
  <1>1. Gateway(o) /\ gw' = gw /\ Store(o) /\ UNCHANGED <<row, conv, cleanup>>
    BY Unbroken DEF edge, store
  <1> QED
    BY <1>1, Throws

Alike(n, r) == n.kind = r.kind /\ n.goal = r.goal /\ n.seen = r.seen /\ n.undo = r.undo /\ n.bad = r.bad

(* A transaction on the journal, and a write to the proxy it is about.      *)
LEMMA Journals ==
  ASSUME Sound, NEW o \in Ops, op[o].pc \in Rebuilding \cup {"authority"}, NEW c \in ConvRecords, c.p = conv.p,
         NEW n \in OpRecords, n.pc \in Rebuilding, Alike(n, op[o]),
         \/ conv' = c /\ (Set(o, n) \/ Error(o)) /\ UNCHANGED <<row, cleanup, reported, keys>>
         \/ Error(o) /\ UNCHANGED <<store, keys>>,
         UNCHANGED edge, faults' \in 0 .. MaxFaults
  PROVE  Sound'
  <1>1. op[o].pc \in Converting /\ op[o].pc \in Throwing /\ op[o] \in OpRecords
    BY Knows DEF Converting, Throwing
  <1>2. conv \in ConvRecords /\ conv # NoConv
    BY <1>1, InRebuild
  <1>3. Gateway(o) /\ gw' = gw
    BY Unbroken DEF edge
  <1>4. CASE Error(o) /\ UNCHANGED <<store, keys>>
    BY <1>1, <1>4, ThrowsAtOnce
  <1>5. CASE conv' = c /\ Set(o, n) /\ UNCHANGED <<row, cleanup, reported, keys>>
    <2>1. Rewrites /\ n.pc \in Rebuilding \cup {"judge", "report"} /\ n.pc \notin {"judge", "report"}
      BY <1>5 DEF Rewrites, Rebuilding
    <2> QED
      BY <1>3, <1>5, <2>1, Rebuilds DEF Alike
  <1>6. CASE conv' = c /\ Error(o) /\ UNCHANGED <<row, cleanup, reported, keys>>
    <2>1. Store(o) /\ conv' # NoConv /\ conv'.p = conv.p
      BY <1>2, <1>6, Rewritten DEF Rewrites
    <2> QED
      BY <1>1, <1>2, <1>3, <1>6, <2>1, Throws
  <1> QED
    BY <1>4, <1>5, <1>6

\* A call on the proxy of the journal, whether or not its answer arrives.
LEMMA Calls ==
  ASSUME Sound, NEW o \in Ops, op[o].pc \in Rebuilding, NEW g \in Proxies, g.on \subseteq g.cfgs,
         NEW n \in OpRecords, n.pc \in Rebuilding, Alike(n, op[o]),
         gw' = gw \/ gw' = [gw EXCEPT ![conv.p] = g],
         Error(o) \/ Set(o, n),
         settling' \subseteq Ids, faults' \in 0 .. MaxFaults, UNCHANGED <<store, keys, vanished>>
  PROVE  Sound'
  <1>1. op[o].pc \in Converting /\ op[o].pc \in Throwing /\ op[o] \in OpRecords
    BY Knows DEF Converting, Throwing
  <1>2. conv \in ConvRecords /\ conv.p \in Ids /\ conv.p # o /\ proxyKey[conv.p] = o /\ apiKey = o
    BY <1>1, InRebuild
  <1>3. Gateway(o) /\ gw'[o] = gw[o]
    <2>1. gw \in [Ids -> Proxies] /\ vanished' \subseteq Ids
      BY DEF Sound, Base, Types
    <2>2. Gateway(o)
      BY <1>2, <2>1, Writes
    <2>3. gw'[o] = gw[o]
      BY <1>2, <2>1, Knows
    <2> QED
      BY <2>2, <2>3
  <1>4. CASE Error(o)
    BY <1>1, <1>3, <1>4, Throws, Unbroken DEF store
  <1>5. CASE Set(o, n)
    <2>1. n.pc \in Rebuilding \cup {"judge", "report"} /\ n.pc \notin {"judge", "report"}
      BY DEF Rebuilding
    <2>2. conv' = conv /\ UNCHANGED <<row, cleanup, reported, keys>>
      BY DEF store
    <2> QED
      BY <1>3, <1>5, <2>1, <2>2, Rebuilds DEF Alike
  <1> QED
    BY <1>4, <1>5

\* The action Authority keeps the invariant.
LEMMA AuthoritySound ==
  ASSUME Sound, NEW o \in Ops, Authority(o)
  PROVE  Sound'
  <1>1. op[o].pc = "authority" /\ op[o].pc \in Converting /\ op[o] \in OpRecords
    BY Knows DEF Authority, At, Converting
  <1>2. PICK c : c = [conv EXCEPT !.authority = TRUE]
    OBVIOUS
  <1>3. PICK n : n = [op[o] EXCEPT !.pc = "strike", !.act = "remove"]
    OBVIOUS
  <1>4. conv \in ConvRecords /\ c \in ConvRecords /\ c.p = conv.p
    BY <1>1, <1>2, InRebuild, ConvUpdates, ConvKeeps
  <1>5. n \in OpRecords /\ n.pc \in Rebuilding /\ Alike(n, op[o])
    <2>1. "strike" \in Labels /\ "strike" \in Rebuilding
      BY DEF Labels, Converting, Rebuilding
    <2> QED
      BY <1>1, <1>3, <2>1, MovesActing DEF Alike
  <1> QED
    BY <1>1, <1>2, <1>3, <1>4, <1>5, Journals, Faulty DEF Authority, Commit

\* The action Strike keeps the invariant.
LEMMA StrikeSound ==
  ASSUME Sound, NEW o \in Ops, Strike(o)
  PROVE  Sound'
  <1>1. op[o].pc = "strike" /\ op[o].pc \in Converting /\ op[o] \in OpRecords
    BY Knows DEF Strike, At, Converting, Rebuilding
  <1>2. PICK c : c = [conv EXCEPT !.acked = FALSE]
    OBVIOUS
  <1>3. PICK n : n = [op[o] EXCEPT !.pc = "send"]
    OBVIOUS
  <1>4. c \in ConvRecords /\ c.p = conv.p
    BY <1>1, <1>2, InRebuild, ConvUpdates, ConvKeeps
  <1>5. n \in OpRecords /\ n.pc \in Rebuilding /\ Alike(n, op[o])
    BY <1>1, <1>3, Moves DEF Labels, Converting, Rebuilding, Alike
  <1> QED
    BY <1>1, <1>2, <1>3, <1>4, <1>5, Journals, Faulty DEF Strike, Commit, Goto, Rebuilding

\* The action Ack keeps the invariant.
LEMMA AckSound ==
  ASSUME Sound, NEW o \in Ops, Ack(o)
  PROVE  Sound'
  <1>1. op[o].pc = "ack" /\ op[o].pc \in Converting /\ op[o] \in OpRecords
    BY Knows DEF Ack, At, Converting, Rebuilding
  <1> DEFINE l == CASE op[o].act = "remove" -> "attempt" [] op[o].act = "fix" -> "finish" [] OTHER -> "look"
  <1>d. PICK d \in BOOLEAN : d = (conv.removed \/ op[o].act = "remove")
    OBVIOUS
  <1>2. PICK c : c = [conv EXCEPT !.acked = TRUE, !.removed = d]
    OBVIOUS
  <1>3. PICK n : n = [op[o] EXCEPT !.pc = l]
    OBVIOUS
  <1>4. c \in ConvRecords /\ c.p = conv.p
    <2>1. conv \in ConvRecords
      BY <1>1, InRebuild
    <2>2. c \in ConvRecords
      <3>1. \A x, y \in BOOLEAN : [conv EXCEPT !.acked = x, !.removed = y] \in ConvRecords
        BY <2>1, ConvUpdates
      <3>2. TRUE \in BOOLEAN /\ d \in BOOLEAN
        OBVIOUS
      <3> QED
        BY <1>2, <3>1, <3>2, Zenon
    <2>3. c.p = conv.p
      BY <1>2, <2>1, ConvKeeps
    <2> QED
      BY <2>2, <2>3
  <1>5. n \in OpRecords /\ n.pc \in Rebuilding /\ Alike(n, op[o])
    <2>1. l \in Rebuilding /\ l \in Labels
      BY DEF Rebuilding, Labels, Converting
    <2> QED
      BY <1>1, <1>3, <2>1, Moves DEF Alike
  <1>6. conv \in ConvRecords
    BY <1>1, InRebuild
  <1>7. /\ faults' \in 0 .. MaxFaults
        /\ \/ conv' = c /\ Set(o, n) /\ UNCHANGED <<row, cleanup, reported, keys>>
           \/ Error(o) /\ UNCHANGED <<store, keys>>
    BY <1>2, <1>3, <1>6, <1>d, Faulty DEF Ack, Commit, Goto
  <1>8. UNCHANGED edge
    BY DEF Ack
  <1> HIDE DEF l
  <1> QED
    BY <1>1, <1>4, <1>5, <1>7, <1>8, Journals DEF Rebuilding

\* The action Attempt keeps the invariant.
LEMMA AttemptSound ==
  ASSUME Sound, NEW o \in Ops, Attempt(o)
  PROVE  Sound'
  <1>1. op[o].pc = "attempt" /\ op[o].pc \in Converting /\ op[o] \in OpRecords
    BY Knows DEF Attempt, At, Converting, Rebuilding
  <1>2. conv \in ConvRecords /\ conv.base.cfgs \in SUBSET Configs
    <2>1. conv \in ConvRecords
      BY <1>1, InRebuild
    <2>2. conv.base \in Proxies
      BY <2>1 DEF ConvRecords
    <2> QED
      BY <2>1, <2>2, ProxyFields
  <1>3. PICK c : c = [conv EXCEPT !.attempt = "unseen"]
    OBVIOUS
  <1>4. PICK n : n = [op[o] EXCEPT !.pc = "build", !.left = conv.base.cfgs]
    OBVIOUS
  <1>5. c \in ConvRecords /\ c.p = conv.p
    BY <1>2, <1>3, ConvUpdates, ConvKeeps
  <1>6. n \in OpRecords /\ n.pc \in Rebuilding /\ Alike(n, op[o])
    <2>1. "build" \in Labels /\ "build" \in Rebuilding
      BY DEF Labels, Converting, Rebuilding
    <2>2. n \in OpRecords
      BY <1>1, <1>2, <1>4, <2>1, Zenon DEF OpRecords
    <2>3. n.pc = "build" /\ Alike(n, op[o])
      BY <1>1, <1>4 DEF OpRecords, Alike
    <2> QED
      BY <2>1, <2>2, <2>3
  <1> QED
    BY <1>1, <1>3, <1>4, <1>5, <1>6, Journals, Faulty DEF Attempt, Commit, Rebuilding

\* The action Look keeps the invariant.
LEMMA LookSound ==
  ASSUME Sound, NEW o \in Ops, Look(o)
  PROVE  Sound'
  <1>1. op[o].pc = "look" /\ op[o].pc \in Converting /\ op[o] \in OpRecords
    BY Knows DEF Look, At, Converting, Rebuilding
  <1>2. conv \in ConvRecords /\ gw[conv.p] \in Proxies
    BY <1>1, InRebuild
  <1>3. PICK c : c = [conv EXCEPT !.attempt = "seen", !.obs = gw[conv.p]]
    OBVIOUS
  <1>4. c \in ConvRecords /\ c.p = conv.p
    <2>1. c \in ConvRecords
      BY <1>2, <1>3, ConvUpdates, Zenon
    <2> QED
      BY <1>2, <1>3, <2>1, ConvKeeps
  <1>5. /\ UNCHANGED edge /\ faults' \in 0 .. MaxFaults
        /\ \/ conv' = c /\ Set(o, NextOf(o, gw[conv.p])) /\ UNCHANGED <<row, cleanup, reported, keys>>
           \/ Error(o) /\ UNCHANGED <<store, keys>>
    BY <1>3, Faulty DEF Look, Commit
  <1>6. PICK n : n = NextOf(o, gw[conv.p])
    OBVIOUS
  <1>7. \/ n = [op[o] EXCEPT !.pc = HandlerOf(op[o])]
        \/ \E l \in {"reattach", "rejoin", "finish", "recut"} : n = [op[o] EXCEPT !.pc = l]
        \/ \E a \in {"correct", "cutover"} : n = [op[o] EXCEPT !.pc = "strike", !.act = a]
    BY <1>6 DEF NextOf
  <1>8. CASE n = [op[o] EXCEPT !.pc = HandlerOf(op[o])]
    <2>1. PICK m : m = [op[o] EXCEPT !.pc = "look"]
      OBVIOUS
    <2>2. m \in OpRecords /\ m.pc \in Rebuilding /\ Alike(m, op[o])
      BY <1>1, <2>1, Moves DEF Labels, Converting, Rebuilding, Alike
    <2>3. Set(o, n) => Error(o)
      BY <1>8 DEF Error, Goto
    <2> QED
      BY <1>1, <1>4, <1>5, <1>6, <2>2, <2>3, Journals DEF Rebuilding
  <1>9. CASE \/ \E l \in {"reattach", "rejoin", "finish", "recut"} : n = [op[o] EXCEPT !.pc = l]
             \/ \E a \in {"correct", "cutover"} : n = [op[o] EXCEPT !.pc = "strike", !.act = a]
    <2>1. {"reattach", "rejoin", "finish", "recut", "strike"} \subseteq Labels \cap Rebuilding
      BY DEF Labels, Converting, Rebuilding
    <2>2. CASE \E l \in {"reattach", "rejoin", "finish", "recut"} : n = [op[o] EXCEPT !.pc = l]
      <3>1. n \in OpRecords /\ n.pc \in Rebuilding /\ Alike(n, op[o])
        BY <1>1, <2>1, <2>2, Moves DEF Alike
      <3> QED
        BY <1>1, <1>4, <1>5, <1>6, <3>1, Journals DEF Rebuilding
    <2>3. CASE \E a \in {"correct", "cutover"} : n = [op[o] EXCEPT !.pc = "strike", !.act = a]
      <3>1. n \in OpRecords /\ n.pc \in Rebuilding /\ Alike(n, op[o])
        <4>1. PICK a \in {"correct", "cutover"} : n = [op[o] EXCEPT !.pc = "strike", !.act = a]
          BY <2>3
        <4>2. a \in {"none", "remove", "cutover", "correct", "fix"}
          OBVIOUS
        <4>3. n \in OpRecords
          BY <1>1, <2>1, <4>1, <4>2, Zenon DEF OpRecords
        <4>4. n.pc = "strike" /\ Alike(n, op[o])
          BY <1>1, <4>1 DEF OpRecords, Alike
        <4> QED
          BY <2>1, <4>3, <4>4
      <3> QED
        BY <1>1, <1>4, <1>5, <1>6, <3>1, Journals DEF Rebuilding
    <2> QED
      BY <1>9, <2>2, <2>3
  <1> QED
    BY <1>7, <1>8, <1>9

\* The action Build keeps the invariant.
LEMMA BuildSound ==
  ASSUME Sound, NEW o \in Ops, Build(o)
  PROVE  Sound'
  <1>1. op[o].pc = "build" /\ op[o].pc \in Converting /\ op[o] \in OpRecords /\ op[o].pc \in Rebuilding
    BY Knows DEF Build, At, Converting, Rebuilding
  <1>2. conv \in ConvRecords /\ conv.spec \in Refs /\ op[o].level \in Levels
    BY <1>1, InRebuild, Fields DEF ConvRecords
  <1>3. PICK g : g = [NoProxy EXCEPT !.at = "staged", !.level = op[o].level,
                                     !.spec = IF op[o].level = "routes" THEN conv.spec ELSE None]
    OBVIOUS
  <1>4. g \in Proxies /\ g.on \subseteq g.cfgs
    BY <1>2, <1>3 DEF NoProxy, Proxies, Refs, Levels
  <1>5. PICK n : n = [op[o] EXCEPT !.pc = "look"]
    OBVIOUS
  <1>6. n \in OpRecords /\ n.pc \in Rebuilding /\ Alike(n, op[o])
    BY <1>1, <1>5, Moves DEF Labels, Converting, Rebuilding, Alike
  <1>7. /\ gw' = gw \/ gw' = [gw EXCEPT ![conv.p] = g]
        /\ Error(o) \/ Set(o, n)
        /\ settling' = settling /\ faults' \in 0 .. MaxFaults /\ UNCHANGED <<store, keys, vanished>>
    BY <1>3, <1>5, Faulty DEF Build, Create, Goto
  <1>8. settling \subseteq Ids
    BY DEF Sound, Base, Types
  <1> QED
    BY <1>1, <1>4, <1>6, <1>7, <1>8, Calls

\* What a call on the gateway may have done: applied, refused, or applied with the answer lost.
LEMMA CallCases ==
  ASSUME Sound, NEW o, NEW p, NEW g, NEW n, Call(o, p, g, Set(o, n))
  PROVE  /\ gw' = gw \/ gw' = [gw EXCEPT ![p] = g]
         /\ Error(o) \/ (Set(o, n) /\ gw[p].at # "none" /\ gw' = [gw EXCEPT ![p] = g])
         /\ gw' # gw => gw[p].at # "none"
         /\ faults' \in 0 .. MaxFaults /\ settling' = settling /\ vanished' = vanished
         /\ settling' \subseteq Ids /\ vanished' \subseteq Ids
  <1>1. settling \subseteq Ids /\ vanished \subseteq Ids
    BY DEF Sound, Base, Types
  <1> QED
    BY <1>1, Faulty DEF Call

\* The action Reattach keeps the invariant.
LEMMA ReattachSound ==
  ASSUME Sound, NEW o \in Ops, Reattach(o)
  PROVE  Sound'
  <1>1. op[o].pc = "reattach" /\ op[o].pc \in Converting /\ op[o] \in OpRecords /\ op[o].pc \in Rebuilding
    BY Knows DEF Reattach, At, Converting, Rebuilding
  <1>2. PICK c \in op[o].left : Call(o, conv.p, [gw[conv.p] EXCEPT !.cfgs = gw[conv.p].cfgs \cup {c}],
                                     Set(o, [op[o] EXCEPT !.pc = "look", !.left = op[o].left \ {c}]))
    <2>1. op[o].left \in SUBSET Configs /\ gw[conv.p] \in Proxies
      BY <1>1, Fields, InRebuild
    <2>2. \A c : /\ [gw[conv.p] EXCEPT !.cfgs = @ \cup {c}] = [gw[conv.p] EXCEPT !.cfgs = gw[conv.p].cfgs \cup {c}]
                 /\ [op[o] EXCEPT !.pc = "look", !.left = @ \ {c}]
                      = [op[o] EXCEPT !.pc = "look", !.left = op[o].left \ {c}]
      OBVIOUS
    <2> QED
      BY <2>2 DEF Reattach
  <1>3. PICK g : g = [gw[conv.p] EXCEPT !.cfgs = gw[conv.p].cfgs \cup {c}]
    OBVIOUS
  <1>4. PICK n : n = [op[o] EXCEPT !.pc = "look", !.left = op[o].left \ {c}]
    OBVIOUS
  <1>5. g \in Proxies /\ g.on \subseteq g.cfgs
    <2>1. gw[conv.p] \in Proxies /\ gw[conv.p].on \subseteq gw[conv.p].cfgs /\ op[o].left \in SUBSET Configs
      BY <1>1, InRebuild, Fields
    <2>2. gw[conv.p].cfgs \cup {c} \in SUBSET Configs
      BY <2>1, ProxyFields
    <2>3. g \in Proxies
      BY <1>3, <2>1, <2>2, Zenon DEF Proxies
    <2> QED
      BY <1>3, <2>1, <2>3, ProxyFields
  <1>6. n \in OpRecords /\ n.pc \in Rebuilding /\ Alike(n, op[o])
    <2>1. op[o].left \ {c} \in SUBSET Configs /\ "look" \in Labels /\ "look" \in Rebuilding
      BY <1>1, Fields DEF Labels, Converting, Rebuilding
    <2>2. n \in OpRecords
      BY <1>1, <1>4, <2>1, Zenon DEF OpRecords
    <2>3. n.pc = "look" /\ Alike(n, op[o])
      BY <1>1, <1>4 DEF OpRecords, Alike
    <2> QED
      BY <2>1, <2>2, <2>3
  <1>7. Call(o, conv.p, g, Set(o, n)) /\ UNCHANGED <<store, keys>>
    BY <1>2, <1>3, <1>4 DEF Reattach
  <1> QED
    BY <1>1, <1>5, <1>6, <1>7, CallCases, Calls

\* The action Rejoin keeps the invariant.
LEMMA RejoinSound ==
  ASSUME Sound, NEW o \in Ops, Rejoin(o)
  PROVE  Sound'
  <1>1. op[o].pc = "rejoin" /\ op[o].pc \in Converting /\ op[o] \in OpRecords /\ op[o].pc \in Rebuilding
    BY Knows DEF Rejoin, At, Converting, Rebuilding
  <1>2. PICK g : g = [gw[conv.p] EXCEPT !.on = gw[conv.p].cfgs]
    OBVIOUS
  <1>3. PICK n : n = [op[o] EXCEPT !.pc = "look"]
    OBVIOUS
  <1>4. g \in Proxies /\ g.on \subseteq g.cfgs
    <2>1. gw[conv.p] \in Proxies /\ gw[conv.p].cfgs \in SUBSET Configs
      BY <1>1, InRebuild, ProxyFields
    <2>2. g \in Proxies
      BY <1>2, <2>1, Zenon DEF Proxies
    <2> QED
      BY <1>2, <2>1, <2>2, ProxyFields
  <1>5. n \in OpRecords /\ n.pc \in Rebuilding /\ Alike(n, op[o])
    BY <1>1, <1>3, Moves DEF Labels, Converting, Rebuilding, Alike
  <1>6. Call(o, conv.p, g, Set(o, n)) /\ UNCHANGED <<store, keys>>
    BY <1>2, <1>3 DEF Rejoin, Goto
  <1> QED
    BY <1>1, <1>4, <1>5, <1>6, CallCases, Calls

\* The action Recut keeps the invariant.
LEMMA RecutSound ==
  ASSUME Sound, NEW o \in Ops, Recut(o)
  PROVE  Sound'
  <1>1. op[o].pc = "recut" /\ op[o].pc \in Converting /\ op[o] \in OpRecords /\ op[o].pc \in Rebuilding
    BY Knows DEF Recut, At, Converting, Rebuilding
  <1>2. PICK g : g = [gw[conv.p] EXCEPT !.at = "public"]
    OBVIOUS
  <1>3. PICK n : n = [op[o] EXCEPT !.pc = "look"]
    OBVIOUS
  <1>4. g \in Proxies /\ g.on \subseteq g.cfgs
    <2>1. gw[conv.p] \in Proxies /\ gw[conv.p].on \subseteq gw[conv.p].cfgs
      BY <1>1, InRebuild
    <2>2. g \in Proxies
      BY <1>2, <2>1, Zenon DEF Proxies
    <2> QED
      BY <1>2, <2>1, <2>2, ProxyFields
  <1>5. n \in OpRecords /\ n.pc \in Rebuilding /\ Alike(n, op[o])
    BY <1>1, <1>3, Moves DEF Labels, Converting, Rebuilding, Alike
  <1>6. Call(o, conv.p, g, Set(o, n)) /\ UNCHANGED <<store, keys>>
    BY <1>2, <1>3 DEF Recut, Goto
  <1> QED
    BY <1>1, <1>4, <1>5, <1>6, CallCases, Calls

\* The action Send keeps the invariant.
LEMMA SendSound ==
  ASSUME Sound, NEW o \in Ops, Send(o)
  PROVE  Sound'
  <1>1. op[o].pc = "send" /\ op[o].pc \in Converting /\ op[o] \in OpRecords /\ op[o].pc \in Rebuilding
    BY Knows DEF Send, At, Converting, Rebuilding
  <1>2. /\ conv \in ConvRecords /\ conv.p \in Ids /\ gw[conv.p] \in Proxies
        /\ gw[conv.p].on \subseteq gw[conv.p].cfgs /\ row \in RowRecords
    BY <1>1, InRebuild
  <1>3. PICK g : g = Written(o, gw[conv.p])
    OBVIOUS
  <1>4. g \in Proxies /\ g.on \subseteq g.cfgs
    <2>1. PICK d : d = IF op[o].goal = "recover" THEN row.spec ELSE conv.spec
      OBVIOUS
    <2>2. d \in Refs
      BY <1>2, <2>1 DEF ConvRecords, RowRecords
    <2>3. g \in {NoProxy, [gw[conv.p] EXCEPT !.spec = d, !.at = "public"], [gw[conv.p] EXCEPT !.spec = d]}
      BY <1>3, <2>1 DEF Written
    <2>4. CASE g = NoProxy
      BY <2>4, NoProxyRecord
    <2>5. CASE g = [gw[conv.p] EXCEPT !.spec = d, !.at = "public"]
      <3>1. g \in Proxies
        BY <1>2, <2>2, <2>5, Zenon DEF Proxies
      <3> QED
        BY <1>2, <2>5, <3>1, ProxyFields
    <2>6. CASE g = [gw[conv.p] EXCEPT !.spec = d]
      <3>1. g \in Proxies
        BY <1>2, <2>2, <2>6, Zenon DEF Proxies
      <3> QED
        BY <1>2, <2>6, <3>1, ProxyFields
    <2> QED
      BY <2>3, <2>4, <2>5, <2>6
  <1>5. PICK n : n = [op[o] EXCEPT !.pc = "ack"]
    OBVIOUS
  <1>6. n \in OpRecords /\ n.pc \in Rebuilding /\ Alike(n, op[o])
    BY <1>1, <1>5, Moves DEF Labels, Converting, Rebuilding, Alike
  <1>7. CASE /\ gw' = gw \/ gw' = [gw EXCEPT ![conv.p] = g]
             /\ Error(o) \/ Set(o, n)
             /\ conv' = conv /\ settling' \in {settling, settling \cup {conv.p}} /\ faults' \in 0 .. MaxFaults
             /\ UNCHANGED <<row, cleanup, reported, keys, vanished>>
    <2>1. settling' \subseteq Ids /\ UNCHANGED <<store, keys, vanished>>
      BY <1>2, <1>7 DEF Sound, Base, Types, store
    <2> QED
      BY <1>1, <1>4, <1>6, <1>7, <2>1, Calls
  <1>8. CASE /\ conv' = [conv EXCEPT !.acked = TRUE] /\ Error(o) /\ faults' \in 0 .. MaxFaults
             /\ UNCHANGED <<gw, settling, vanished, row, cleanup, reported, keys>>
    <2>1. PICK c : c = [conv EXCEPT !.acked = TRUE]
      OBVIOUS
    <2>2. c \in ConvRecords /\ c.p = conv.p
      BY <1>2, <2>1, ConvUpdates, ConvKeeps
    <2> QED
      BY <1>1, <1>6, <1>8, <2>1, <2>2, Journals DEF edge
  <1> QED
    BY <1>3, <1>5, <1>7, <1>8, Faulty DEF Send, Goto

\* The action Partial keeps the invariant.
LEMMA PartialSound ==
  ASSUME Sound, NEW o \in Ops, Partial(o)
  PROVE  Sound'
  <1>1. op[o].pc = "partial" /\ op[o].pc \in Converting /\ op[o] \in OpRecords /\ op[o].pc \in Rebuilding
    BY Knows DEF Partial, At, Converting, Rebuilding
  <1>2. conv \in ConvRecords
    BY <1>1, InRebuild
  <1>3. /\ UNCHANGED <<edge, store, keys>> /\ faults' \in 0 .. MaxFaults
        /\ UNCHANGED <<row, conv, cleanup, reported, keys>>
    BY Faulty DEF Partial, store
  <1>4. \/ Error(o) \/ Set(o, [op[o] EXCEPT !.pc = "attempt"])
        \/ Set(o, [op[o] EXCEPT !.pc = "strike", !.act = "remove"])
    BY DEF Partial, Error, Goto
  <1>5. "attempt" \in Labels \cap Rebuilding /\ "strike" \in Labels \cap Rebuilding
    BY DEF Labels, Converting, Rebuilding
  <1>6. PICK m : m = [op[o] EXCEPT !.pc = "attempt"]
    OBVIOUS
  <1>7. m \in OpRecords /\ m.pc \in Rebuilding /\ Alike(m, op[o])
    BY <1>1, <1>5, <1>6, Moves DEF Alike
  <1>8. CASE Error(o) \/ Set(o, m)
    BY <1>1, <1>2, <1>3, <1>7, <1>8, Journals
  <1>9. CASE Set(o, [op[o] EXCEPT !.pc = "strike", !.act = "remove"])
    <2>1. PICK n : n = [op[o] EXCEPT !.pc = "strike", !.act = "remove"]
      OBVIOUS
    <2>2. n \in OpRecords
      BY <1>1, <1>5, <2>1, Zenon DEF OpRecords
    <2>3. n.pc = "strike" /\ Alike(n, op[o])
      BY <1>1, <2>1 DEF OpRecords, Alike
    <2> QED
      BY <1>1, <1>2, <1>3, <1>5, <1>9, <2>1, <2>2, <2>3, Journals
  <1> QED
    BY <1>4, <1>6, <1>8, <1>9

(* Steps that end an operation on the journal, or begin one.                *)
LEMMA RowUpdates ==
  ASSUME NEW r \in RowRecords
  PROVE  /\ \A s \in States : /\ [r EXCEPT !.state = s] \in RowRecords
                              /\ \A v \in Levels : [r EXCEPT !.state = s, !.level = v] \in RowRecords
                              /\ \A p \in Refs : [r EXCEPT !.proxy = p, !.state = s] \in RowRecords
                              /\ \A p \in Refs, w \in Owned :
                                   [r EXCEPT !.proxy = p, !.state = s, !.owned = w] \in RowRecords
         /\ \A v \in Flavours, w \in Owned : [r EXCEPT !.auth = v, !.owned = w] \in RowRecords
         /\ \A v \in BOOLEAN, w \in Owned : [r EXCEPT !.acl = v, !.owned = w] \in RowRecords
         /\ \A p \in Refs : [r EXCEPT !.spec = p] \in RowRecords
  BY Zenon DEF RowRecords

\* A row that is marked for repair, and reports that are added.
LEMMA Restated ==
  ASSUME Sound, NEW o \in Ops, row' = row \/ row' = [row EXCEPT !.state = "repair_required"],
         conv' = conv, cleanup' = cleanup, reported \subseteq reported', reported' \subseteq Ids
  PROVE  Store(o)
  <1>1. row \in RowRecords
    BY DEF Sound, Base, Types
  <1>2. row' \in RowRecords
    BY <1>1, RowUpdates DEF States
  <1>3. /\ row'.there = row.there /\ row'.proxy = row.proxy
        /\ row'.state = row.state \/ row'.state = "repair_required"
    BY <1>1 DEF RowRecords
  <1>4. Kept'
    BY <1>3 DEF Sound, Base, Kept
  <1> QED
    BY <1>2, <1>3, <1>4 DEF Store, Sound, Base, Types, Lead

\* An operation that has not built its proxy has none on the gateway.
LEMMA NothingBuilt ==
  ASSUME Sound, NEW o \in Ops, op[o].pc \notin Ended, ~ Built(op[o])
  PROVE  gw[o].at = "none"
  BY Knows DEF Own

\* The action Report keeps the invariant.
LEMMA ReportSound ==
  ASSUME Sound, NEW o \in Ops, Report(o) \/ Relapse(o)
  PROVE  Sound'
  <1>1. op[o].pc \in {"report", "relapse"} /\ op[o] \in OpRecords
    BY Knows DEF Report, Relapse, At
  <1>2. op[o].pc \notin Ended /\ ~ Built(op[o])
    BY <1>1 DEF Ended, Built, Making, Unmaking
  <1>3. /\ Leave(o, "failed") /\ UNCHANGED edge /\ faults' \in 0 .. MaxFaults
        /\ row' = row \/ row' = [row EXCEPT !.state = "repair_required"]
        /\ conv' = conv /\ cleanup' = cleanup
    BY Faulty DEF Report, Relapse
  <1>4. reported \subseteq reported' /\ reported' \subseteq Ids
    <2>1. reported \subseteq Ids
      BY DEF Sound, Base, Types
    <2>2. CASE Report(o)
      <3>1. conv.p \in Ids
        <4>1. op[o].pc \in Converting
          BY <2>2 DEF Report, At, Converting
        <4> QED
          BY <4>1, InRebuild
      <3> QED
        BY <2>1, <2>2, <3>1 DEF Report
    <2>3. CASE Relapse(o)
      BY <2>1, <2>3 DEF Relapse
    <2> QED
      BY <2>2, <2>3
  <1>5. Store(o) /\ Gateway(o)
    BY <1>3, <1>4, Restated, Unbroken
  <1>6. gw'[o].at = "none"
    BY <1>2, <1>3, NothingBuilt DEF edge
  <1> QED
    BY <1>2, <1>3, <1>5, <1>6, Leaves

\* The action Finish keeps the invariant.
LEMMA FinishSound ==
  ASSUME Sound, NEW o \in Ops, Finish(o)
  PROVE  Sound'
  <1>1. op[o].pc = "finish" /\ op[o].pc \in Converting /\ op[o] \in OpRecords /\ op[o].pc \in Throwing
    BY Knows DEF Finish, At, Converting, Rebuilding, Throwing
  <1>2. /\ conv \in ConvRecords /\ conv.p \in Ids /\ conv # NoConv /\ apiKey = o
        /\ row \in RowRecords /\ row.there /\ row.proxy = conv.p /\ op[o].pc \notin Ended
    BY <1>1, InRebuild
  <1>3. PICK w : w = [row EXCEPT !.state = "deployed",
                                 !.level = IF op[o].goal = "forward" THEN op[o].level ELSE row.level]
    OBVIOUS
  <1>4. PICK how \in {"done", "failed"} : how = IF op[o].goal = "back" THEN "failed" ELSE "done"
    OBVIOUS
  <1>5. /\ UNCHANGED edge /\ faults' \in 0 .. MaxFaults
        /\ \/ /\ row' = w /\ conv' = NoConv /\ Leave(o, how) /\ UNCHANGED <<cleanup, reported>>
           \/ Error(o) /\ UNCHANGED <<store, keys>>
    BY <1>3, <1>4, Faulty DEF Finish, Commit
  <1>6. CASE Error(o) /\ UNCHANGED <<store, keys>>
    BY <1>1, <1>5, <1>6, ThrowsAtOnce
  <1>7. CASE row' = w /\ conv' = NoConv /\ Leave(o, how) /\ UNCHANGED <<cleanup, reported>>
    <2>1. w \in RowRecords /\ w.there /\ w.proxy = conv.p
      <3>1. PICK v : v = IF op[o].goal = "forward" THEN op[o].level ELSE row.level
        OBVIOUS
      <3>2. v \in Levels
        BY <1>1, <1>2, <3>1, Fields DEF RowRecords
      <3>3. w = [row EXCEPT !.state = "deployed", !.level = v] /\ "deployed" \in States
        BY <1>3, <3>1 DEF States
      <3>4. w \in RowRecords
        BY <1>2, <3>2, <3>3, Zenon DEF RowRecords
      <3> QED
        BY <1>2, <3>3, <3>4 DEF RowRecords
    <2>2. NoConv.p = None /\ None \notin Ids
      BY PublishingAssumption DEF NoConv, Ids
    <2>3. Kept'
      BY <1>2, <1>7, <2>1, <2>2 DEF Kept, Sound, Base
    <2>4. Store(o)
      BY <1>2, <1>7, <2>1, <2>2, <2>3 DEF Store, Sound, Base, Types, Lead
    <2>5. Gateway(o) /\ gw'[o].at = "none"
      <3>1. ~ Built(op[o])
        BY <1>1 DEF Built, Making, Unmaking
      <3> QED
        BY <1>2, <1>5, <3>1, NothingBuilt, Unbroken DEF edge
    <2> QED
      BY <1>2, <1>7, <2>4, <2>5, Leaves
  <1> QED
    BY <1>5, <1>6, <1>7

(* Into the rebuild.                                                        *)
LEMMA TurnsBack ==
  ASSUME Sound, NEW o \in Ops, op[o].pc \notin Ended, ~ Built(op[o]), NEW n \in OpRecords, Set(o, n),
         n.pc \in Rebuilding \cup {"report", "relapse"}, Home(n), Goal(n), n.kind \in {"convert", "restore"},
         n.seen \in {op[o].seen, conv.p}, n.seen # None,
         apiKey = o, conv # NoConv, proxyKey[conv.p] = o,
         n.kind = "restore" => cleanup.p \in {None, o},
         UNCHANGED <<edge, store, keys>>, faults' \in 0 .. MaxFaults
  PROVE  Sound'
  <1>1. n.pc \notin Ended /\ n.pc \notin {"attach", "associate"} /\ ~ Built(n)
    BY DEF Ended, Rebuilding, Built, Making, Unmaking
  <1>2. Fits(o, n)
    <2>1. Carries(o, n)
      BY DEF Carries, Rebuilding, Updates
    <2> QED
      BY <2>1 DEF Fits
  <1>3. gw[o].at = "none"
    BY NothingBuilt
  <1>4. row.there
    BY DEF Sound, Base, Kept
  <1>5. Assured(o, n) /\ Tuned(o, n)
    BY <1>4 DEF Assured, Tuned, Updates, Rebuilding
  <1> QED
    BY <1>1, <1>2, <1>3, <1>5, MovesOn

\* The action Judge keeps the invariant.
LEMMA JudgeSound ==
  ASSUME Sound, NEW o \in Ops, Judge(o)
  PROVE  Sound'
  <1>1. op[o].pc = "judge" /\ op[o].pc \in Converting /\ op[o] \in OpRecords /\ ~ Built(op[o])
    BY Knows DEF Judge, At, Converting, Built, Making, Unmaking
  <1>2. /\ conv # NoConv /\ proxyKey[conv.p] = o /\ apiKey = o /\ op[o].pc \notin Ended
        /\ op[o].kind \in {"convert", "restore"}
    BY <1>1, InRebuild
  <1>3. op[o].kind = "convert" /\ op[o].seen # None /\ op[o].api \in RowRecords
        /\ op[o].goal \in {"forward", "back"}
    BY <1>1, <1>2, Knows, Fields DEF Fits, Home, Goal, Carries, Making, Unmaking, Rebuilding, Converting
  <1>4. UNCHANGED <<edge, store, keys>> /\ faults' \in 0 .. MaxFaults
    BY Faulty DEF Judge
  <1>5. PICK l \in {"finish", "partial"} : l = IF gw[conv.p] = conv.base THEN "finish" ELSE "partial"
    OBVIOUS
  <1>6. PICK n : n = IF conv.acked /\ conv.removed
                     THEN [op[o] EXCEPT !.goal = "back", !.level = op[o].api.level, !.pc = l]
                     ELSE [op[o] EXCEPT !.pc = "report"]
    OBVIOUS
  <1>7. Set(o, n)
    BY <1>5, <1>6 DEF Judge
  <1>8. {"finish", "partial", "report"} \subseteq Labels /\ {"finish", "partial"} \subseteq Rebuilding
    BY DEF Labels, Converting, Rebuilding
  <1>9. /\ n \in OpRecords /\ n.kind = "convert" /\ n.seen = op[o].seen /\ n.goal \in {"forward", "back"}
        /\ n.pc \in {l, "report"}
    <2>1. CASE n = [op[o] EXCEPT !.pc = "report"]
      BY <1>1, <1>3, <1>8, <2>1, Moves
    <2>2. CASE n = [op[o] EXCEPT !.goal = "back", !.level = op[o].api.level, !.pc = l]
      <3>1. op[o].api.level \in Levels /\ l \in Labels
        BY <1>3, <1>8 DEF RowRecords
      <3>2. n \in OpRecords
        BY <1>1, <2>2, <3>1, Zenon DEF OpRecords
      <3> QED
        BY <1>1, <1>3, <2>2, <3>2 DEF OpRecords
    <2> QED
      BY <1>6, <2>1, <2>2
  <1>10. Home(n) /\ Goal(n) /\ n.pc \in Rebuilding \cup {"report", "relapse"}
    BY <1>8, <1>9 DEF Home, Goal, Converting, Updates, Rebuilding
  <1> QED
    BY <1>1, <1>2, <1>3, <1>4, <1>7, <1>9, <1>10, TurnsBack

\* The action Recover keeps the invariant.
LEMMA RecoverSound ==
  ASSUME Sound, NEW o \in Ops, Recover(o)
  PROVE  Sound'
  <1>1. op[o].pc = "recover" /\ op[o] \in OpRecords /\ ~ Built(op[o]) /\ op[o].pc \notin Ended
    BY Knows DEF Recover, At, Built, Making, Unmaking, Ended
  <1>2. op[o].kind = "restore"
    BY <1>1, Knows, Fields
    DEF Fits, Home, Making, Unmaking, Rebuilding, Converting, Removing, Updating, AllKinds, Updates
  <1>3. conv # NoConv /\ proxyKey[conv.p] = o /\ apiKey = o /\ cleanup.p \in {None, o} /\ row.there
    BY <1>1, <1>2, Knows DEF Assured, Sole, ByApi, Ended
  <1>4. conv.p \in Ids /\ conv.p # None /\ row \in RowRecords /\ row.level \in Levels /\ conv.p \in Refs
    <2>1. conv \in ConvRecords /\ row \in RowRecords
      BY <1>3 DEF Sound, Base, Types
    <2> QED
      BY <2>1, PublishingAssumption DEF ConvRecords, RowRecords, Ids, Refs
  <1>5. UNCHANGED <<edge, store>> /\ faults' \in 0 .. MaxFaults
    BY Faulty DEF Recover
  <1>6. CASE Leave(o, "failed")
    <2>1. gw'[o].at = "none" /\ Gateway(o) /\ Store(o)
      BY <1>1, <1>5, NothingBuilt, Unbroken DEF edge
    <2> QED
      BY <1>1, <1>6, <2>1, Leaves
  <1>7. PICK r : r = [op[o] EXCEPT !.goal = "recover", !.api = row, !.seen = conv.p, !.level = row.level]
    OBVIOUS
  <1>8. r \in OpRecords /\ r.kind = "restore" /\ r.goal = "recover" /\ r.seen = conv.p
    <2>1. r \in OpRecords
      BY <1>1, <1>4, <1>7, Zenon DEF OpRecords
    <2> QED
      BY <1>1, <1>2, <1>7, <2>1 DEF OpRecords
  <1>9. /\ {"finish", "partial", "relapse", "strike"} \subseteq Labels
        /\ {"finish", "partial", "strike"} \subseteq Rebuilding
    BY DEF Labels, Converting, Rebuilding
  <1>10. CASE /\ UNCHANGED keys
              /\ \/ \E l \in {"relapse", "finish", "partial"} : Set(o, [r EXCEPT !.pc = l])
                 \/ Set(o, [r EXCEPT !.pc = "strike", !.act = "fix"])
    <2>1. PICK n : Set(o, n) /\ n \in OpRecords /\ n.pc \in {"relapse", "finish", "partial", "strike"}
                   /\ n.kind = "restore" /\ n.goal = "recover" /\ n.seen = conv.p
      <3>1. CASE \E l \in {"relapse", "finish", "partial"} : Set(o, [r EXCEPT !.pc = l])
        <4>1. PICK l \in {"relapse", "finish", "partial"} : Set(o, [r EXCEPT !.pc = l])
          BY <3>1
        <4>2. PICK n : n = [r EXCEPT !.pc = l]
          OBVIOUS
        <4>3. n \in OpRecords /\ n.pc = l /\ n.kind = r.kind /\ n.goal = r.goal /\ n.seen = r.seen
          BY <1>8, <1>9, <4>2, Moves
        <4> QED
          BY <1>8, <4>1, <4>2, <4>3
      <3>2. CASE Set(o, [r EXCEPT !.pc = "strike", !.act = "fix"])
        <4>1. PICK n : n = [r EXCEPT !.pc = "strike", !.act = "fix"]
          OBVIOUS
        <4>2. n \in OpRecords
          BY <1>8, <1>9, <4>1, Zenon DEF OpRecords
        <4>3. n.pc = "strike" /\ n.kind = r.kind /\ n.goal = r.goal /\ n.seen = r.seen
          BY <1>8, <4>1 DEF OpRecords
        <4> QED
          BY <1>8, <3>2, <4>1, <4>2, <4>3
      <3> QED
        BY <1>10, <3>1, <3>2
    <2>2. Home(n) /\ Goal(n) /\ n.pc \in Rebuilding \cup {"report", "relapse"}
      BY <1>9, <2>1 DEF Home, Goal, Updates
    <2> QED
      BY <1>1, <1>3, <1>4, <1>5, <1>10, <2>1, <2>2, TurnsBack
  <1> QED
    <2>1. \/ Leave(o, "failed")
          \/ /\ UNCHANGED keys
             /\ \/ \E l \in {"relapse", "finish", "partial"} : Set(o, [r EXCEPT !.pc = l])
                \/ Set(o, [r EXCEPT !.pc = "strike", !.act = "fix"])
      BY <1>7 DEF Recover
    <2> QED
      BY <1>6, <1>10, <2>1

\* The action Plan keeps the invariant.
LEMMA PlanSound ==
  ASSUME Sound, NEW o \in Ops, Plan(o)
  PROVE  Sound'
  <1>1. op[o].pc = "plan" /\ op[o] \in OpRecords /\ ~ Built(op[o]) /\ op[o].pc \notin Ended
    BY Knows DEF Plan, At, Built, Making, Unmaking, Ended
  <1>2. op[o].kind = "convert"
    BY <1>1, Knows, Fields
    DEF Fits, Home, Making, Unmaking, Rebuilding, Converting, Removing, Updating, AllKinds, Updates
  <1>3. /\ op[o].seen \in Ids /\ op[o].seen # None /\ proxyKey[op[o].seen] = o /\ apiKey = o
        /\ Carries(o, op[o])
    BY <1>1, <1>2, Knows, Fields DEF Assured, Sole, ByApi, Ended, Fits, Carries, Refs
  <1>4. row \in RowRecords /\ gw \in [Ids -> Proxies] /\ NoConv.p = None /\ None \notin Ids
    BY PublishingAssumption DEF Sound, Base, Types, NoConv, Ids
  <1>5. UNCHANGED edge /\ Gateway(o) /\ gw'[o].at = "none" /\ faults' \in 0 .. MaxFaults
    <2>1. UNCHANGED edge /\ faults' \in 0 .. MaxFaults
      BY Faulty DEF Plan
    <2> QED
      BY <1>1, <2>1, NothingBuilt, Unbroken DEF edge
  <1>6. CASE Leave(o, "failed") /\ UNCHANGED store
    BY <1>1, <1>5, <1>6, Unbroken, Leaves
  <1>7. PICK c : c = [p |-> op[o].seen, base |-> gw[op[o].seen], cshape |-> deploymentShape(row),
                      spec |-> row.spec, cspec |-> row.spec, authority |-> FALSE, acked |-> TRUE,
                      removed |-> FALSE, attempt |-> "none", obs |-> NoProxy]
    OBVIOUS
  <1>8. PICK w : w = [row EXCEPT !.state = "repair_required"]
    OBVIOUS
  <1>9. PICK v \in Levels : v = IF row.level = "docs" THEN "routes" ELSE "docs"
    BY DEF Levels
  <1>10. PICK n : n = [op[o] EXCEPT !.pc = "authority", !.api = row, !.goal = "forward", !.level = v]
    OBVIOUS
  <1>11. CASE /\ row.there /\ row.proxy = op[o].seen /\ conv = NoConv
              /\ conv' = c /\ row' = w /\ Set(o, n) /\ UNCHANGED <<cleanup, reported, keys>>
    <2>1. c \in ConvRecords /\ c.p = op[o].seen
      <3>1. deploymentShape(row) \in Flavours \X BOOLEAN \X Levels /\ row.spec \in Refs
        BY <1>4 DEF deploymentShape, RowRecords
      <3>2. gw[op[o].seen] \in Proxies
        BY <1>3, <1>4
      <3> QED
        BY <1>3, <1>7, <3>1, <3>2, NoProxyRecord DEF ConvRecords
    <2>2. w \in RowRecords /\ w.there = row.there /\ w.proxy = row.proxy
      <3>1. w \in RowRecords
        BY <1>4, <1>8, RowUpdates DEF States
      <3> QED
        BY <1>4, <1>8, <3>1 DEF RowRecords
    <2>3. c # NoConv
      BY <1>3, <1>4, <2>1
    <2>4. Kept'
      BY <1>3, <1>11, <2>1, <2>2 DEF Kept, Sound, Base
    <2>5. Store(o) /\ Keys(o)
      BY <1>3, <1>4, <1>11, <2>1, <2>2, <2>4, Unbroken DEF Store, Sound, Base, Types, Lead
    <2>6. "authority" \in Labels
      BY DEF Labels, Converting
    <2>7. n \in OpRecords
      BY <1>1, <1>4, <1>9, <1>10, <2>6, Zenon DEF OpRecords
    <2>8. /\ n.pc = "authority" /\ n.kind = op[o].kind /\ n.seen = op[o].seen /\ n.goal = "forward"
      BY <1>1, <1>10, <2>7 DEF OpRecords
    <2>9. Fits(o, n)
      <3>1. Home(n) /\ Goal(n)
        BY <1>2, <2>8 DEF Home, Goal, Converting, Updates
      <3>2. Carries(o, n)
        BY <1>2, <1>3, <2>8 DEF Carries, Updates
      <3> QED
        BY <3>1, <3>2 DEF Fits
    <2>10. Going(o, n)
      BY <1>5, <2>7, <2>8, <2>9 DEF Going, Ended
    <2>11. UNCHANGED keys
      BY <1>11
    <2>12. Assured(o, n)'
      BY <1>2, <1>3, <1>11, <2>1, <2>3, <2>8, <2>11 DEF Assured, keys
    <2>13. Tuned(o, n)'
      BY <1>2, <2>8 DEF Tuned, Updates
    <2> QED
      BY <1>1, <1>5, <1>11, <2>5, <2>10, <2>12, <2>13, Remains
  <1> QED
    BY <1>6, <1>7, <1>8, <1>9, <1>10, <1>11 DEF Plan

-----------------------------------------------------------------------------
(* Starting and the keys.                                                  *)

\* The plugins of a new proxy are its own.
LEMMA OwnedFits ==
  ASSUME NEW o \in Ids, NEW f \in Flavours, NEW a \in BOOLEAN
  PROVE  /\ OwnedBy(o, f, a) \in Owned
         /\ \A r : r.owned = OwnedBy(o, f, a) =>
              OwnedSet(r) # {} /\ OwnedSet(r) \subseteq {o} \X (Flavours \cup {"acl"}) /\ OwnedSet(r) \in SUBSET Configs
  <1>1. <<o, f>> \in Configs /\ <<o, "acl">> \in Configs /\ <<o, f>> # None
    BY PublishingAssumption DEF Configs, Flavours, Ids
  <1>2. OwnedBy(o, f, a) \in Owned
    BY <1>1 DEF OwnedBy, Owned, Plugins
  <1>3. ASSUME NEW r, r.owned = OwnedBy(o, f, a)
        PROVE  OwnedSet(r) # {} /\ OwnedSet(r) \subseteq {<<o, f>>, <<o, "acl">>}
    BY <1>1, <1>3 DEF OwnedSet, OwnedBy
  <1>4. {<<o, f>>, <<o, "acl">>} \subseteq {o} \X (Flavours \cup {"acl"})
    OBVIOUS
  <1>5. {<<o, f>>, <<o, "acl">>} \subseteq Configs
    BY <1>1
  <1> QED
    BY <1>2, <1>3, <1>4, <1>5

\* An operation that has not begun.
LEMMA AtRest ==
  ASSUME Sound, NEW o \in Ops, At(o, "idle")
  PROVE  op[o] = Idle /\ op[o] \in OpRecords /\ gw[o].at = "none" /\ op[o].pc \notin Ended
  <1>1. op[o].pc = "idle" /\ op[o].pc \notin Ended /\ ~ Built(op[o])
    BY DEF At, Ended, Built, Making, Unmaking
  <1> QED
    BY <1>1, Knows, NothingBuilt DEF Fits, Carries

\* The row of an API that was just published.
LEMMA DeployedRow ==
  ASSUME NEW o \in Ids, NEW s \in Shapes
  PROVE  LET r == Deployed(o, s)
         IN  /\ r \in RowRecords /\ r.there /\ r.proxy = o /\ r.state = "deployed" /\ r.level \in Levels
             /\ r.owned = OwnedBy(o, s.auth, s.acl) /\ OwnedSet(r) # {}
             /\ OwnedSet(r) \subseteq {o} \X (Flavours \cup {"acl"}) /\ OwnedSet(r) \in SUBSET Configs
             /\ s.level \in Levels
  <1>1. s.auth \in Flavours /\ s.acl \in BOOLEAN /\ s.level \in Levels
    BY PublishingAssumption DEF Flavours, Levels
  <1>2. PICK w : w = OwnedBy(o, s.auth, s.acl)
    OBVIOUS
  <1>3. w \in Owned
    BY <1>1, <1>2, OwnedFits
  <1>4. PICK r : r = Deployed(o, s)
    OBVIOUS
  <1>5. r \in RowRecords /\ r.there /\ r.proxy = o /\ r.state = "deployed" /\ r.level \in Levels /\ r.owned = w
    BY <1>1, <1>2, <1>3, <1>4 DEF Deployed, RowRecords, States, Refs
  <1> QED
    BY <1>1, <1>2, <1>4, <1>5, OwnedFits

\* The action StartPublish keeps the invariant.
LEMMA StartPublishSound ==
  ASSUME Sound, NEW o \in Ops, StartPublish(o)
  PROVE  Sound'
  <1>1. op[o] = Idle /\ op[o] \in OpRecords /\ gw[o].at = "none" /\ op[o].pc \notin Ended /\ o \in Ids
    BY AtRest, Knows DEF StartPublish
  <1>2. PICK s \in Shapes : Set(o, [op[o] EXCEPT !.kind = "publish", !.pc = "create", !.api = Deployed(o, s),
                                       !.level = s.level, !.left = OwnedSet(Deployed(o, s))])
    BY DEF StartPublish
  <1>3. PICK a : a = Deployed(o, s)
    OBVIOUS
  <1>4. PICK n : n = [op[o] EXCEPT !.kind = "publish", !.pc = "create", !.api = a, !.level = s.level,
                                   !.left = OwnedSet(a)]
    OBVIOUS
  <1>5. /\ a \in RowRecords /\ a.there /\ a.proxy = o /\ s.level \in Levels /\ OwnedSet(a) # {}
        /\ OwnedSet(a) \subseteq {o} \X (Flavours \cup {"acl"}) /\ OwnedSet(a) \in SUBSET Configs
    BY <1>1, <1>3, DeployedRow
  <1>6. "create" \in Labels /\ "publish" \in AllKinds
    BY DEF Labels, Making, AllKinds
  <1>7. n \in OpRecords
    BY <1>1, <1>4, <1>5, <1>6, Zenon DEF OpRecords
  <1>8. /\ n.kind = "publish" /\ n.pc = "create" /\ n.api = a /\ n.left = OwnedSet(a) /\ n.seen = op[o].seen
        /\ n.known = {} /\ n.undo = <<>> /\ n.bad = FALSE
    BY <1>1, <1>4, <1>7 DEF Idle
  <1>9. Fits(o, n)
    <2>1. Home(n) /\ Goal(n)
      BY <1>8 DEF Home, Goal, Making, Updates
    <2>2. Carries(o, n)
      BY <1>5, <1>8 DEF Carries, Updates
    <2> QED
      BY <2>1, <2>2 DEF Fits
  <1>10. Assured(o, n) /\ Tuned(o, n) /\ n.pc \notin Ended
    BY <1>8 DEF Assured, Sole, ByApi, Tuned, Updates, Ended
  <1>11. UNCHANGED <<edge, store, keys>> /\ faults' \in 0 .. MaxFaults /\ Set(o, n)
    BY <1>2, <1>3, <1>4, Faulty DEF StartPublish
  <1> QED
    BY <1>1, <1>7, <1>8, <1>9, <1>10, <1>11, MovesOn

\* The action Start keeps the invariant.
LEMMA StartSound ==
  ASSUME Sound, NEW o \in Ops, NEW k \in AllKinds, Start(o, k)
  PROVE  Sound'
  <1>1. op[o] = Idle /\ op[o] \in OpRecords /\ gw[o].at = "none" /\ op[o].pc \notin Ended /\ o \in Ids
    BY AtRest, Knows DEF Start
  <1>2. PICK l \in {"wait", "lease"} : l = IF k \in ByApi THEN "wait" ELSE "lease"
    OBVIOUS
  <1>3. PICK n : n = [op[o] EXCEPT !.kind = k, !.seen = row.proxy, !.pc = l]
    OBVIOUS
  <1>4. Set(o, n) /\ k # "publish" /\ (k \in {"swap", "gate", "convert", "flag"} => row.proxy # None)
    BY <1>2, <1>3 DEF Start, ByApi
  <1>5. row.proxy \in Refs /\ l \in Labels
    BY DEF Sound, Base, Types, RowRecords, Labels
  <1>6. n \in OpRecords
    BY <1>1, <1>3, <1>5, Zenon DEF OpRecords
  <1>7. /\ n.kind = k /\ n.pc = l /\ n.seen = row.proxy
        /\ n.known = {} /\ n.undo = <<>> /\ n.bad = FALSE /\ n.goal = "none"
    BY <1>1, <1>3, <1>6 DEF Idle
  <1>8. Fits(o, n)
    <2>1. Home(n)
      BY <1>2, <1>4, <1>7 DEF Home, Updates, ByApi, AllKinds
    <2>2. Goal(n)
      BY <1>7 DEF Goal, Converting, Rebuilding
    <2>3. Carries(o, n)
      BY <1>4, <1>7 DEF Carries, Updates
    <2> QED
      BY <2>1, <2>2, <2>3 DEF Fits
  <1>9. Assured(o, n) /\ Tuned(o, n) /\ n.pc \notin Ended
    BY <1>2, <1>7 DEF Assured, Sole, ByApi, Tuned, Updates, Updating, Ended
  <1>10. UNCHANGED <<edge, store, keys>> /\ faults' \in 0 .. MaxFaults
    BY Faulty DEF Start
  <1>11. n.pc \notin {"attach", "associate"}
    BY <1>7
  <1> QED
    BY <1>1, <1>4, <1>6, <1>7, <1>8, <1>9, <1>10, <1>11, MovesOn

\* The action TakeApiKey keeps the invariant.
LEMMA TakeApiKeySound ==
  ASSUME Sound, NEW o \in Ops, TakeApiKey(o)
  PROVE  Sound'
  <1>1. op[o].pc = "wait" /\ op[o] \in OpRecords /\ ~ Built(op[o]) /\ op[o].pc \notin Ended /\ o \in Ids
    BY Knows DEF TakeApiKey, At, Built, Making, Unmaking, Ended
  <1>2. gw[o].at = "none"
    BY <1>1, NothingBuilt
  <1>3. op[o].kind \in ByApi /\ Carries(o, op[o]) /\ Home(op[o]) /\ Goal(op[o])
    BY <1>1, Knows, Fields
    DEF Fits, Home, Making, Unmaking, Rebuilding, Converting, Removing, Updating, AllKinds, Updates, ByApi
  <1>4. UNCHANGED <<edge, store>> /\ faults' \in 0 .. MaxFaults
    BY Faulty DEF TakeApiKey
  <1>5. Gateway(o) /\ Store(o) /\ UNCHANGED <<gw, row, conv, cleanup>>
    BY <1>4, Unbroken DEF edge, store
  <1>6. CASE Leave(o, "done")
    BY <1>1, <1>2, <1>5, <1>6, Leaves
  <1>7. PICK n : n = [op[o] EXCEPT !.pc = "lease", !.api = row]
    OBVIOUS
  <1>8. CASE /\ ~ (/\ op[o].kind \in {"restore", "remove"}
                   /\ ~row.there \/ (op[o].kind = "restore" /\ cleanup # NoCleanup))
             /\ apiKey = None /\ apiKey' = o /\ UNCHANGED proxyKey /\ Set(o, n)
    <2>1. row \in RowRecords /\ "lease" \in Labels
      BY DEF Sound, Base, Types, Labels
    <2>2. n \in OpRecords
      BY <1>1, <1>7, <2>1, Zenon DEF OpRecords
    <2>3. /\ n.pc = "lease" /\ n.kind = op[o].kind /\ n.seen = op[o].seen /\ n.goal = op[o].goal
          /\ n.known = op[o].known /\ n.undo = op[o].undo /\ n.bad = op[o].bad
      BY <1>1, <1>7, <2>2 DEF OpRecords
    <2>4. Fits(o, n)
      <3>1. Home(n) /\ Goal(n)
        BY <1>1, <1>3, <2>3 DEF Home, Goal, ByApi, Updates, Converting, Rebuilding
      <3>2. Carries(o, n)
        BY <1>1, <1>3, <2>3 DEF Carries, ByApi, Updates
      <3> QED
        BY <3>1, <3>2 DEF Fits
    <2>5. Going(o, n)
      BY <1>2, <1>5, <2>2, <2>3, <2>4 DEF Going, Ended
    <2>6. Keys(o)
      BY <1>8 DEF Keys, Sound, Base, Types
    <2>7. Assured(o, n)'
      <3>1. NoCleanup.p = None
        BY DEF NoCleanup
      <3> QED
        BY <1>5, <1>8, <2>3, <3>1 DEF Assured, Converting, Rebuilding
    <2>8. Tuned(o, n)'
      BY <2>3 DEF Tuned, Updating
    <2> QED
      BY <1>1, <1>5, <1>8, <2>5, <2>6, <2>7, <2>8, Remains
  <1> QED
    BY <1>6, <1>7, <1>8 DEF TakeApiKey

(* What a restore plans to build.                                           *)
LEMMA Plans ==
  ASSUME NEW o \in Ids, NEW r \in OpRecords
  PROVE  LET n == Planned(o, r)
         IN  /\ n \in OpRecords /\ n.pc = "create" /\ n.kind = r.kind /\ n.seen = r.seen /\ n.goal = r.goal
             /\ n.known = r.known /\ n.undo = r.undo /\ n.bad = r.bad /\ n.left # {}
             /\ n.left \subseteq {o} \X (Flavours \cup {"acl"})
  <1>1. r.api \in RowRecords /\ r.api.auth \in Flavours /\ r.api.acl \in BOOLEAN /\ r.api.level \in Levels
    BY Fields DEF RowRecords
  <1>2. PICK w : w = OwnedBy(o, r.api.auth, r.api.acl)
    OBVIOUS
  <1>3. w \in Owned
    BY <1>1, <1>2, OwnedFits
  <1>4. PICK a : a = Rebuilt(o, r.api)
    OBVIOUS
  <1>5. a = [r.api EXCEPT !.proxy = o, !.state = "deployed", !.owned = w]
    BY <1>2, <1>4 DEF Rebuilt
  <1>6. o \in Refs /\ "deployed" \in States /\ "create" \in Labels
    BY DEF Refs, States, Labels, Making
  <1>7. a \in RowRecords
    BY <1>1, <1>3, <1>5, <1>6, Zenon DEF RowRecords
  <1>8. a.owned = w /\ a.level \in Levels
    BY <1>1, <1>5, <1>7 DEF RowRecords
  <1>9. /\ OwnedSet(a) # {} /\ OwnedSet(a) \subseteq {o} \X (Flavours \cup {"acl"})
        /\ OwnedSet(a) \in SUBSET Configs
    BY <1>1, <1>2, <1>8, OwnedFits
  <1>10. PICK n : n = [r EXCEPT !.pc = "create", !.api = a, !.left = OwnedSet(a), !.level = a.level]
    OBVIOUS
  <1>11. n \in OpRecords
    BY <1>6, <1>7, <1>8, <1>9, <1>10, Zenon DEF OpRecords
  <1>12. /\ n.pc = "create" /\ n.kind = r.kind /\ n.seen = r.seen /\ n.goal = r.goal
         /\ n.known = r.known /\ n.undo = r.undo /\ n.bad = r.bad /\ n.left = OwnedSet(a)
    BY <1>10, <1>11 DEF OpRecords
  <1>13. Planned(o, r) = n
    BY <1>4, <1>10 DEF Planned
  <1> QED
    BY <1>9, <1>11, <1>12, <1>13

\* The action TakeProxyKey keeps the invariant.
LEMMA TakeProxyKeySound ==
  ASSUME Sound, NEW o \in Ops, TakeProxyKey(o)
  PROVE  Sound'
  <1>1. op[o].pc = "lease" /\ op[o] \in OpRecords /\ ~ Built(op[o]) /\ op[o].pc \notin Ended /\ o \in Ids
    BY Knows DEF TakeProxyKey, At, Built, Making, Unmaking, Ended
  <1>2. gw[o].at = "none"
    BY <1>1, NothingBuilt
  <1> DEFINE k == op[o].kind
  <1>3. k \in Updates \cup ByApi /\ Carries(o, op[o]) /\ Home(op[o]) /\ Goal(op[o])
    BY <1>1, Knows, Fields
    DEF Fits, Home, Making, Unmaking, Rebuilding, Converting, Removing, Updating, AllKinds, Updates, ByApi
  <1>4. /\ k \in ByApi => apiKey = o
        /\ k \in {"restore", "remove"} => row.there
        /\ k = "restore" => cleanup.p \in {None, o}
    BY <1>1, Knows DEF Assured, Sole, ByApi, Ended
  <1>5. UNCHANGED <<gw, row, conv, cleanup, apiKey>> /\ Gateway(o) /\ Store(o)
    <2>1. UNCHANGED <<edge, store, apiKey>> /\ faults' \in 0 .. MaxFaults
      BY Faulty DEF TakeProxyKey
    <2> QED
      BY <2>1, Unbroken DEF edge, store
  <1>6. PICK t : t = Target(o)
    OBVIOUS
  <1>7. PICK l : l = Entry(o)
    OBVIOUS
  <1>8. /\ t # None => proxyKey[t] = None
        /\ proxyKey' = IF t = None THEN proxyKey ELSE [proxyKey EXCEPT ![t] = o]
    BY <1>6 DEF TakeProxyKey
  <1>9. t \in Refs /\ (t # None => t \in Ids)
    <2>1. row.proxy \in Refs /\ cleanup.p \in Refs /\ (conv # NoConv => conv.p \in Ids) /\ op[o].seen \in Refs
      BY <1>1, Fields DEF Sound, Base, Types, RowRecords, Cleanups, ConvRecords
    <2> QED
      BY <1>6, <2>1 DEF Target, Refs
  <1>10. Keys(o) /\ (t # None => proxyKey'[t] = o)
    BY <1>1, <1>5, <1>8, <1>9 DEF Keys, Sound, Base, Types
  <1>11. l \in {"recover", "validate", "create", "custody", "plan", "flag", "enter"} /\ l \in Labels
    BY <1>7 DEF Entry, Labels, Making, Removing, Updating
  <1>12. PICK m : m = [op[o] EXCEPT !.pc = l]
    OBVIOUS
  <1>13. /\ m \in OpRecords /\ m.pc = l /\ m.kind = k /\ m.seen = op[o].seen /\ m.goal = op[o].goal
         /\ m.known = op[o].known /\ m.undo = op[o].undo /\ m.bad = op[o].bad /\ m.old = op[o].old
    BY <1>1, <1>11, <1>12, Moves
  <1>14. PICK n : n = IF l # "create" THEN m ELSE Planned(o, m)
    OBVIOUS
  <1>15. Set(o, n)
    BY <1>7, <1>12, <1>13, <1>14 DEF TakeProxyKey
  <1>16. /\ n \in OpRecords /\ n.pc = l /\ n.kind = k /\ n.seen = op[o].seen /\ n.goal = op[o].goal
         /\ n.known = op[o].known /\ n.undo = op[o].undo /\ n.bad = op[o].bad
         /\ l # "create" => n.old = op[o].old
         /\ l = "create" => n.left # {} /\ n.left \subseteq {o} \X (Flavours \cup {"acl"})
    BY <1>1, <1>13, <1>14, Plans
  <1>17. /\ k \in Updates => l = "enter" /\ t = op[o].seen
         /\ k = "restore" => \/ l = "recover" /\ t = conv.p /\ conv # NoConv
                             \/ l = "validate" /\ t = row.proxy /\ row.proxy # None
                             \/ l = "create"
         /\ k = "remove" => l = "custody"
         /\ k = "convert" => l = "plan" /\ t = op[o].seen
         /\ k = "flag" => l = "flag"
    BY <1>6, <1>7 DEF Entry, Target, Updates
  <1> HIDE DEF k
  <1>18. Fits(o, n)
    <2>1. Home(n)
      BY <1>3, <1>16, <1>17 DEF Home, Updates, ByApi, Making, Updating, Removing
    <2>2. Goal(n)
      BY <1>1, <1>3, <1>16, <1>17, k = op[o].kind DEF Goal, Converting, Rebuilding, ByApi, Updates, k
    <2>3. Carries(o, n)
      BY <1>1, <1>3, <1>11, <1>16, <1>17 DEF Carries, ByApi, Updates, k
    <2> QED
      BY <2>1, <2>2, <2>3 DEF Fits
  <1>19. Going(o, n)
    BY <1>2, <1>5, <1>11, <1>16, <1>18 DEF Going, Ended
  <1>20. Assured(o, n)'
    <2>1. conv # NoConv => conv.p # None
      BY PublishingAssumption DEF Sound, Base, Types, ConvRecords, Ids
    <2>2. k = "convert" => op[o].seen # None
      BY <1>3 DEF Carries, k
    <2>3. Sole(n) => k \in ByApi
      BY <1>16 DEF Sole
    <2>4. l \notin Converting
      BY <1>11 DEF Converting, Rebuilding
    <2>5. k \in ByApi => /\ k \in {"restore", "remove"} => row'.there
                         /\ k = "restore" => cleanup'.p \in {None, o}
                         /\ apiKey' = o
      BY <1>4, <1>5
    <2>6. Sole(n) /\ l = "validate" => row'.proxy # None /\ proxyKey'[row'.proxy] = o
      BY <1>5, <1>10, <1>17, <2>3 DEF ByApi
    <2>7. Sole(n) /\ l = "plan" => proxyKey'[n.seen] = o
      BY <1>10, <1>16, <1>17, <2>2, <2>3 DEF ByApi
    <2>8. Sole(n) /\ l = "recover" => conv' # NoConv /\ proxyKey'[conv'.p] = o
      BY <1>5, <1>10, <1>17, <2>1, <2>3 DEF ByApi
    <2> QED
      BY <1>11, <1>16, <2>3, <2>4, <2>5, <2>6, <2>7, <2>8 DEF Assured
  <1>21. Tuned(o, n)'
    BY <1>10, <1>11, <1>16, <1>17 DEF Tuned
  <1> QED
    BY <1>1, <1>5, <1>10, <1>15, <1>19, <1>20, <1>21, Remains

-----------------------------------------------------------------------------
(* Building a proxy.                                                       *)

(* What the builder of a proxy finds.                                       *)
LEMMA InMaking ==
  ASSUME Sound, NEW o \in Ops, op[o].pc \in Making \cup Unmaking \cup {"withdraw"}
  PROVE  /\ op[o] \in OpRecords /\ op[o].pc \notin Ended /\ o \in Ids /\ o # None
         /\ op[o].kind \in {"publish", "restore"} /\ Home(op[o]) /\ Goal(op[o]) /\ Carries(o, op[o])
         /\ op[o].kind = "restore" => /\ apiKey = o /\ row.there /\ cleanup.p \in {None, o}
                                      /\ op[o].goal = "none"
         /\ gw[o] \in Proxies /\ gw[o].on \subseteq gw[o].cfgs
         /\ row.proxy # o /\ conv.p # o
         /\ row \in RowRecords /\ cleanup \in Cleanups
  <1>1. /\ op[o] \in OpRecords /\ o \in Ids /\ o # None
        /\ Fits(o, op[o]) /\ Own(o, op[o]) /\ Assured(o, op[o])
    BY Knows
  <1>2. op[o].pc \notin Ended /\ op[o].pc # "wait"
    BY DEF Making, Unmaking, Ended
  <1>3. Home(op[o]) /\ Goal(op[o]) /\ Carries(o, op[o])
    BY <1>1, <1>2 DEF Fits
  <1>4. op[o].kind \in {"publish", "restore"}
    BY <1>1, <1>3, Fields DEF Home, Making, Unmaking, Rebuilding, Converting, Removing, Updating, AllKinds, Updates
  <1>5. op[o].kind = "restore" => op[o].goal = "none"
    BY <1>3 DEF Goal, Making, Unmaking, Rebuilding
  <1>6. op[o].kind = "restore" => apiKey = o /\ row.there /\ cleanup.p \in {None, o}
    BY <1>1, <1>2 DEF Assured, Sole, ByApi
  <1>7. gw[o] \in Proxies /\ gw[o].on \subseteq gw[o].cfgs /\ row \in RowRecords /\ cleanup \in Cleanups
    BY <1>1 DEF Sound, Base, Types, Gates
  <1> QED
    BY <1>1, <1>2, <1>3, <1>4, <1>5, <1>6, <1>7 DEF Own

Same(n, r) == Alike(n, r) /\ n.api = r.api

\* A step of an operation that builds a proxy or takes it down again.
LEMMA Makes ==
  ASSUME Sound, NEW o \in Ops, op[o].pc \in Making \cup Unmaking \cup {"withdraw"}, NEW n \in OpRecords, Set(o, n),
         Same(n, op[o]), n.pc \in (Making \ {"create"}) \cup Unmaking \cup {"withdraw", "note"},
         op[o].kind = "publish" => n.pc \notin {"stamp", "stamped"} \cup Unmaking,
         op[o].kind = "restore" => n.pc \notin {"withdraw", "note"},
         n.pc = "attach" => n.left # {} /\ n.left \subseteq {o} \X (Flavours \cup {"acl"}),
         n.pc \in {"attach", "associate"} => gw'[o].at = "none" \/ n.known \subseteq gw'[o].cfgs,
         n.pc = "close" => n.stranded \in {None, o} /\ (n.stranded = None => gw'[o].at = "none"),
         Gateway(o), Store(o), UNCHANGED <<row, conv, keys>>,
         op[o].kind = "restore" => cleanup'.p \in {None, o}
  PROVE  Sound'
  <1>1. /\ op[o] \in OpRecords /\ op[o].pc \notin Ended
        /\ op[o].kind \in {"publish", "restore"} /\ Home(op[o]) /\ Goal(op[o]) /\ Carries(o, op[o])
        /\ op[o].kind = "restore" => apiKey = o /\ row.there /\ op[o].goal = "none"
    BY InMaking
  <1>2. n.pc \notin Ended /\ Built(n) /\ n.kind = op[o].kind /\ n.goal = op[o].goal
        /\ n.seen = op[o].seen /\ n.api = op[o].api
    BY <1>1 DEF Ended, Making, Unmaking, Built, Same, Alike
  <1>3. Fits(o, n)
    <2>1. Home(n)
      BY <1>1, <1>2 DEF Home, Updates, Making, Unmaking
    <2>2. Goal(n)
      BY <1>1, <1>2 DEF Goal, Rebuilding, Making, Unmaking
    <2>3. Carries(o, n)
      <3>1. n.undo = op[o].undo /\ n.bad = op[o].bad
        BY DEF Same, Alike
      <3>2. n.kind \notin Updates /\ n.pc \notin {"idle", "plug", "join", "detach", "drop", "respec", "delete",
                                                  "save", "wait", "lease", "validate", "orphan", "create"}
        BY <1>1, <1>2 DEF Updates, Making, Unmaking
      <3>3. n.pc = "note" => n.kind = "publish"
        BY <1>1, <1>2
      <3> QED
        BY <1>1, <1>2, <3>1, <3>2, <3>3 DEF Carries
    <2> QED
      BY <2>1, <2>2, <2>3 DEF Fits
  <1>4. Going(o, n)
    BY <1>2, <1>3 DEF Going
  <1>5. Assured(o, n)'
    <2>1. Sole(n) => n.kind = "restore"
      BY <1>1, <1>2 DEF Sole, ByApi
    <2>2. n.pc \notin {"validate", "orphan", "plan", "recover", "delete", "erase"} \cup Converting
      BY DEF Making, Unmaking, Converting, Rebuilding
    <2>3. UNCHANGED <<row, apiKey>>
      BY DEF keys
    <2> QED
      BY <1>1, <1>2, <2>1, <2>2, <2>3 DEF Assured
  <1>6. Tuned(o, n)'
    BY <1>1, <1>2 DEF Tuned, Updates
  <1>7. Keys(o)
    BY Unbroken
  <1> QED
    BY <1>1, <1>4, <1>5, <1>6, <1>7, Remains

(* A write to the operation's own proxy.                                    *)
LEMMA MakesCall ==
  ASSUME Sound, NEW o \in Ops, op[o].pc \in Making, NEW g, NEW n \in OpRecords, Call(o, o, g, Set(o, n)),
         gw[o].at # "none" => g \in Proxies /\ g.on \subseteq g.cfgs,
         Same(n, op[o]), n.pc \in Making \ {"create"},
         op[o].kind = "publish" => n.pc \notin {"stamp", "stamped"},
         n.pc = "attach" => n.left # {} /\ n.left \subseteq {o} \X (Flavours \cup {"acl"}),
         n.pc \in {"attach", "associate"} /\ gw[o].at # "none" => n.known \subseteq g.cfgs,
         UNCHANGED <<store, keys>>
  PROVE  Sound'
  <1>1. /\ op[o] \in OpRecords /\ op[o].kind \in {"publish", "restore"} /\ o \in Ids
        /\ op[o].kind = "restore" => cleanup.p \in {None, o}
    BY InMaking
  <1>2. /\ gw' = gw \/ gw' = [gw EXCEPT ![o] = g]
        /\ Error(o) \/ (Set(o, n) /\ gw[o].at # "none" /\ gw' = [gw EXCEPT ![o] = g])
        /\ gw' # gw => gw[o].at # "none"
        /\ faults' \in 0 .. MaxFaults /\ settling' = settling /\ vanished' = vanished
        /\ settling' \subseteq Ids /\ vanished' \subseteq Ids
    BY CallCases
  <1>3. Gateway(o)
    <2>1. CASE gw' = gw
      BY <1>2, <2>1, Unbroken DEF edge
    <2>2. CASE gw' # gw
      BY <1>1, <1>2, <2>2, Writes
    <2> QED
      BY <2>1, <2>2
  <1>4. Store(o) /\ UNCHANGED <<row, conv, cleanup>>
    BY Unbroken DEF store
  <1>5. CASE Error(o)
    BY <1>3, <1>4, <1>5, Throws DEF Throwing
  <1>6. CASE Set(o, n) /\ gw[o].at # "none" /\ gw' = [gw EXCEPT ![o] = g]
    <2>1. gw'[o] = g
      BY <1>1, <1>6 DEF Sound, Base, Types
    <2>2. n.pc \notin {"close", "withdraw", "note"} \cup Unmaking
      BY DEF Making, Unmaking
    <2> QED
      BY <1>1, <1>3, <1>4, <1>6, <2>1, <2>2, Makes
  <1> QED
    BY <1>2, <1>5, <1>6

\* The action CreateStaged keeps the invariant.
LEMMA CreateStagedSound ==
  ASSUME Sound, NEW o \in Ops, CreateStaged(o)
  PROVE  Sound'
  <1>1. op[o].pc = "create" /\ op[o].pc \in Making /\ op[o].pc \in Throwing
    BY DEF CreateStaged, At, Making, Throwing
  <1>2. /\ op[o] \in OpRecords /\ op[o].kind \in {"publish", "restore"} /\ o \in Ids /\ Carries(o, op[o])
        /\ op[o].kind = "restore" => cleanup.p \in {None, o}
    BY <1>1, InMaking
  <1>3. op[o].level \in Levels /\ op[o].api.spec \in Refs
    BY <1>2, Fields DEF RowRecords
  <1>4. PICK g : g = [NoProxy EXCEPT !.at = "staged", !.level = op[o].level,
                                     !.spec = IF op[o].level = "routes" THEN op[o].api.spec ELSE None]
    OBVIOUS
  <1>5. g \in Proxies /\ g.on \subseteq g.cfgs
    BY <1>3, <1>4 DEF NoProxy, Proxies, Refs, Levels
  <1>6. PICK n : n = [op[o] EXCEPT !.pc = "attach", !.made = TRUE]
    OBVIOUS
  <1>7. n \in OpRecords /\ n.pc = "attach" /\ n.left = op[o].left /\ n.known = op[o].known /\ Same(n, op[o])
    <2>1. "attach" \in Labels
      BY DEF Labels, Making
    <2>2. n \in OpRecords
      BY <1>2, <1>6, <2>1, Zenon DEF OpRecords
    <2> QED
      BY <1>2, <1>6, <2>2 DEF OpRecords, Same, Alike
  <1>8. /\ gw' = gw \/ gw' = [gw EXCEPT ![o] = g]
        /\ Error(o) \/ Set(o, n)
        /\ faults' \in 0 .. MaxFaults /\ UNCHANGED <<settling, vanished, store, keys>>
    BY <1>4, <1>6, Faulty DEF CreateStaged, Create
  <1>9. Gateway(o)
    <2>1. settling' \subseteq Ids /\ vanished' \subseteq Ids
      BY <1>8 DEF Sound, Base, Types
    <2> QED
      BY <1>2, <1>5, <1>8, <2>1, Writes
  <1>10. Store(o) /\ UNCHANGED <<row, conv, cleanup, keys>>
    BY <1>8, Unbroken DEF store
  <1>11. CASE Error(o)
    BY <1>1, <1>9, <1>10, <1>11, Throws
  <1>12. CASE Set(o, n)
    <2>1. op[o].left # {} /\ op[o].left \subseteq {o} \X (Flavours \cup {"acl"}) /\ op[o].known = {}
      BY <1>1, <1>2 DEF Carries
    <2>2. "attach" \in Making \ {"create"} /\ "attach" \notin Unmaking
      BY DEF Making, Unmaking
    <2> QED
      BY <1>1, <1>2, <1>7, <1>9, <1>10, <1>12, <2>1, <2>2, Makes
  <1> QED
    BY <1>8, <1>11, <1>12

\* The action Attach keeps the invariant.
LEMMA AttachSound ==
  ASSUME Sound, NEW o \in Ops, Attach(o)
  PROVE  Sound'
  <1>1. op[o].pc = "attach" /\ op[o].pc \in Making
    BY DEF Attach, At, Making
  <1>2. /\ op[o] \in OpRecords /\ op[o].kind \in {"publish", "restore"} /\ o \in Ids /\ Carries(o, op[o])
        /\ gw[o] \in Proxies /\ gw[o].on \subseteq gw[o].cfgs /\ op[o].pc \notin Ended
    BY <1>1, InMaking
  <1>3. op[o].left # {} /\ op[o].left \subseteq {o} \X (Flavours \cup {"acl"}) /\ op[o].left \in SUBSET Configs
        /\ op[o].known \in SUBSET Configs
    BY <1>1, <1>2, Fields DEF Carries
  <1>4. PICK c : c = CHOOSE x \in op[o].left : x[2] = "acl" => op[o].left = {x}
    OBVIOUS
  <1>5. c \in op[o].left
    <2>1. \E x \in op[o].left : x[2] = "acl" => op[o].left = {x}
      <3>1. CASE \E x \in op[o].left : x[2] # "acl"
        BY <3>1
      <3>2. CASE \A x \in op[o].left : x[2] = "acl"
        <4>1. \A x \in op[o].left : x = <<o, "acl">>
          BY <1>3, <3>2
        <4>2. op[o].left = {<<o, "acl">>}
          BY <1>3, <4>1
        <4> QED
          BY <4>2
      <3> QED
        BY <3>1, <3>2
    <2> QED
      BY <1>4, <2>1
  <1>6. PICK g : g = [gw[o] EXCEPT !.cfgs = gw[o].cfgs \cup {c}]
    OBVIOUS
  <1>7. PICK l \in {"associate", "attach"} : l = IF op[o].left = {c} THEN "associate" ELSE "attach"
    OBVIOUS
  <1>8. PICK n : n = [op[o] EXCEPT !.left = op[o].left \ {c}, !.known = op[o].known \cup {c}, !.pc = l]
    OBVIOUS
  <1>9. g \in Proxies /\ g.on \subseteq g.cfgs /\ g.cfgs = gw[o].cfgs \cup {c}
    <2>1. gw[o].cfgs \cup {c} \in SUBSET Configs
      BY <1>2, <1>3, <1>5, ProxyFields
    <2>2. g \in Proxies
      BY <1>2, <1>6, <2>1, Zenon DEF Proxies
    <2> QED
      BY <1>2, <1>6, <2>2, ProxyFields
  <1>10. /\ n \in OpRecords /\ n.pc = l /\ n.left = op[o].left \ {c} /\ n.known = op[o].known \cup {c}
         /\ Same(n, op[o])
    <2>1. l \in Labels /\ op[o].left \ {c} \in SUBSET Configs /\ op[o].known \cup {c} \in SUBSET Configs
      BY <1>3, <1>5 DEF Labels, Making
    <2>2. n \in OpRecords
      BY <1>2, <1>8, <2>1, Zenon DEF OpRecords
    <2> QED
      BY <1>2, <1>8, <2>2 DEF OpRecords, Same, Alike
  <1>11. Call(o, o, g, Set(o, n)) /\ UNCHANGED <<store, keys>>
    BY <1>4, <1>6, <1>7, <1>8 DEF Attach
  <1>12. gw[o].at # "none" => op[o].known \subseteq gw[o].cfgs
    BY <1>1, <1>2, Knows DEF Own
  <1>13. n.pc = "attach" => n.left # {}
    BY <1>3, <1>5, <1>7, <1>10
  <1>14. n.pc \in Making \ {"create"} /\ n.pc \notin {"stamp", "stamped"}
    BY <1>10 DEF Making
  <1>15. n.left \subseteq {o} \X (Flavours \cup {"acl"}) /\ (gw[o].at # "none" => n.known \subseteq g.cfgs)
    BY <1>3, <1>9, <1>10, <1>12
  <1> QED
    BY <1>1, <1>9, <1>10, <1>11, <1>13, <1>14, <1>15, MakesCall

\* The action Associate keeps the invariant.
LEMMA AssociateSound ==
  ASSUME Sound, NEW o \in Ops, Associate(o)
  PROVE  Sound'
  <1>1. op[o].pc = "associate" /\ op[o].pc \in Making
    BY DEF Associate, At, Making
  <1>2. /\ op[o] \in OpRecords /\ op[o].kind \in {"publish", "restore"} /\ o \in Ids
        /\ gw[o] \in Proxies /\ gw[o].on \subseteq gw[o].cfgs /\ op[o].pc \notin Ended
    BY <1>1, InMaking
  <1>3. PICK g : g = [gw[o] EXCEPT !.on = gw[o].on \cup op[o].known]
    OBVIOUS
  <1>4. gw[o].at # "none" => g \in Proxies /\ g.on \subseteq g.cfgs
    <2>1. SUFFICES ASSUME gw[o].at # "none" PROVE g \in Proxies /\ g.on \subseteq g.cfgs
      OBVIOUS
    <2>2. op[o].known \subseteq gw[o].cfgs /\ gw[o].on \cup op[o].known \in SUBSET Configs
      BY <1>1, <1>2, <2>1, Knows, ProxyFields DEF Own
    <2>3. g \in Proxies
      BY <1>2, <1>3, <2>2, Zenon DEF Proxies
    <2> QED
      BY <1>2, <1>3, <2>2, <2>3, ProxyFields
  <1>5. PICK l \in {"stamp", "cutover"} : l = IF op[o].level = "routes" THEN "stamp" ELSE "cutover"
    OBVIOUS
  <1>6. PICK n : n = IF op[o].kind = "restore" THEN [op[o] EXCEPT !.cut = "started", !.pc = l]
                     ELSE [op[o] EXCEPT !.pc = "cutover"]
    OBVIOUS
  <1>7. {"stamp", "cutover"} \subseteq Labels \cap Making
    BY DEF Labels, Making
  <1>8. /\ n \in OpRecords /\ n.pc \in {"stamp", "cutover"} /\ Same(n, op[o])
        /\ (op[o].kind = "publish" => n.pc = "cutover")
    <2>1. CASE op[o].kind = "restore"
      <3>1. n = [op[o] EXCEPT !.cut = "started", !.pc = l] /\ l \in Labels
        BY <1>6, <1>7, <2>1
      <3>2. n \in OpRecords
        BY <1>2, <3>1, Zenon DEF OpRecords
      <3> QED
        BY <1>2, <2>1, <3>1, <3>2 DEF OpRecords, Same, Alike
    <2>2. CASE op[o].kind = "publish"
      <3>1. n = [op[o] EXCEPT !.pc = "cutover"]
        BY <1>6, <2>2
      <3> QED
        BY <1>2, <1>7, <3>1, Moves DEF Same, Alike
    <2> QED
      BY <1>2, <2>1, <2>2
  <1>9. Call(o, o, g, Set(o, n)) /\ UNCHANGED <<store, keys>>
    BY <1>3, <1>5, <1>6 DEF Associate
  <1> QED
    BY <1>1, <1>4, <1>7, <1>8, <1>9, MakesCall

\* The action Cutover keeps the invariant.
LEMMA CutoverSound ==
  ASSUME Sound, NEW o \in Ops, Cutover(o)
  PROVE  Sound'
  <1>1. op[o].pc = "cutover" /\ op[o].pc \in Making
    BY DEF Cutover, At, Making
  <1>2. /\ op[o] \in OpRecords /\ op[o].kind \in {"publish", "restore"} /\ o \in Ids
        /\ gw[o] \in Proxies /\ gw[o].on \subseteq gw[o].cfgs
    BY <1>1, InMaking
  <1>3. PICK g : g = [gw[o] EXCEPT !.at = "public"]
    OBVIOUS
  <1>4. g \in Proxies /\ g.on \subseteq g.cfgs
    <2>1. g \in Proxies
      BY <1>2, <1>3, Zenon DEF Proxies
    <2> QED
      BY <1>2, <1>3, <2>1, ProxyFields
  <1>5. PICK n : n = IF op[o].kind = "restore" /\ op[o].level = "routes" THEN [op[o] EXCEPT !.pc = "stamped"]
                     ELSE [op[o] EXCEPT !.pc = "adopt", !.cut = "acked"]
    OBVIOUS
  <1>6. {"stamped", "adopt"} \subseteq Labels \cap Making
    BY DEF Labels, Making
  <1>7. n \in OpRecords /\ n.pc \in {"stamped", "adopt"} /\ Same(n, op[o]) /\ (op[o].kind = "publish" => n.pc = "adopt")
    <2>1. CASE op[o].kind = "restore" /\ op[o].level = "routes"
      <3>1. n = [op[o] EXCEPT !.pc = "stamped"]
        BY <1>5, <2>1
      <3> QED
        BY <1>2, <1>6, <2>1, <3>1, Moves DEF Same, Alike
    <2>2. CASE ~ (op[o].kind = "restore" /\ op[o].level = "routes")
      <3>1. n = [op[o] EXCEPT !.pc = "adopt", !.cut = "acked"] /\ "adopt" \in Labels
        BY <1>5, <1>6, <2>2
      <3>2. n \in OpRecords
        BY <1>2, <3>1, Zenon DEF OpRecords
      <3> QED
        BY <1>2, <3>1, <3>2 DEF OpRecords, Same, Alike
    <2> QED
      BY <2>1, <2>2
  <1>8. Call(o, o, g, Set(o, n)) /\ UNCHANGED <<store, keys>>
    BY <1>3, <1>5 DEF Cutover
  <1> QED
    BY <1>1, <1>4, <1>6, <1>7, <1>8, MakesCall

(* A restore writes its own journal.                                        *)
LEMMA Stamps ==
  ASSUME Sound, NEW o \in Ops, apiKey = o, row.there, cleanup.p \in {None, o},
         cleanup' \in Cleanups, cleanup'.p \in {None, o}, UNCHANGED <<row, conv, reported>>
  PROVE  Store(o)
  <1>1. Kept'
    BY DEF Kept, Sound, Base
  <1> QED
    BY <1>1, PublishingAssumption DEF Store, Sound, Base, Types, Lead, Ids

\* The action Stamp keeps the invariant.
LEMMA StampSound ==
  ASSUME Sound, NEW o \in Ops, Stamp(o) \/ Stamped(o)
  PROVE  Sound'
  <1>1. op[o].pc \in {"stamp", "stamped"} /\ op[o].pc \in Making /\ op[o].pc \in Throwing
    BY DEF Stamp, Stamped, At, Making, Throwing
  <1>2. /\ op[o] \in OpRecords /\ op[o].kind \in {"publish", "restore"} /\ o \in Ids /\ Home(op[o])
        /\ op[o].kind = "restore" => apiKey = o /\ row.there /\ cleanup.p \in {None, o}
        /\ cleanup \in Cleanups
    BY <1>1, InMaking
  <1>3. op[o].kind = "restore"
    BY <1>1, <1>2 DEF Home
  <1>4. PICK c : c = IF op[o].pc = "stamp" THEN [p |-> o, acked |-> FALSE] ELSE [cleanup EXCEPT !.acked = TRUE]
    OBVIOUS
  <1>5. c \in Cleanups /\ c.p \in {None, o}
    BY <1>2, <1>3, <1>4 DEF Cleanups, Refs
  <1>6. PICK n : n = IF op[o].pc = "stamp" THEN [op[o] EXCEPT !.pc = "cutover"]
                     ELSE [op[o] EXCEPT !.pc = "adopt", !.cut = "acked"]
    OBVIOUS
  <1>7. {"cutover", "adopt"} \subseteq Labels \cap Making
    BY DEF Labels, Making
  <1>8. n \in OpRecords /\ n.pc \in {"cutover", "adopt"} /\ Same(n, op[o])
    <2>1. CASE op[o].pc = "stamp"
      <3>1. n = [op[o] EXCEPT !.pc = "cutover"]
        BY <1>6, <2>1
      <3> QED
        BY <1>2, <1>7, <3>1, Moves DEF Same, Alike
    <2>2. CASE op[o].pc # "stamp"
      <3>1. n = [op[o] EXCEPT !.pc = "adopt", !.cut = "acked"] /\ "adopt" \in Labels
        BY <1>6, <1>7, <2>2
      <3>2. n \in OpRecords
        BY <1>2, <3>1, Zenon DEF OpRecords
      <3> QED
        BY <1>2, <3>1, <3>2 DEF OpRecords, Same, Alike
    <2> QED
      BY <2>1, <2>2
  <1>9. /\ UNCHANGED edge /\ faults' \in 0 .. MaxFaults
        /\ \/ cleanup' = c /\ Set(o, n) /\ UNCHANGED <<row, conv, reported, keys>>
           \/ Error(o) /\ UNCHANGED <<store, keys>>
    BY <1>4, <1>6, Faulty DEF Stamp, Stamped, Commit, Goto, At
  <1>10. CASE Error(o) /\ UNCHANGED <<store, keys>>
    BY <1>1, <1>9, <1>10, ThrowsAtOnce
  <1>11. CASE cleanup' = c /\ Set(o, n) /\ UNCHANGED <<row, conv, reported, keys>>
    <2>1. Store(o) /\ Gateway(o)
      BY <1>2, <1>3, <1>5, <1>9, <1>11, Stamps, Unbroken
    <2>2. /\ n.pc \in Making \ {"create"}
          /\ n.pc \notin {"stamp", "stamped", "withdraw", "note", "attach", "associate"} \cup Unmaking
      BY <1>8 DEF Making, Unmaking
    <2> QED
      BY <1>1, <1>3, <1>5, <1>8, <1>11, <2>1, <2>2, Makes DEF Unmaking
  <1> QED
    BY <1>9, <1>10, <1>11

\* An operation that leaves is over.
LEMMA Gone ==
  ASSUME Sound, NEW o \in Ops, NEW how \in {"done", "failed"}, Leave(o, how)
  PROVE  op'[o].pc \in Ended
  <1>1. PICK n : n = [Idle EXCEPT !.kind = op[o].kind, !.pc = how]
    OBVIOUS
  <1>2. op[o].kind \in AllKinds \cup {"none"} /\ how \in Labels
    BY Knows, Fields DEF Labels, Ended
  <1>3. n.pc = how
    BY <1>1, <1>2, Finals
  <1>4. op'[o] = n
    BY <1>1 DEF Leave, Set, Sound, Base, Types
  <1> QED
    BY <1>3, <1>4 DEF Ended

\* The action Adopt keeps the invariant.
LEMMA AdoptSound ==
  ASSUME Sound, NEW o \in Ops, Adopt(o)
  PROVE  Sound'
  <1>1. op[o].pc = "adopt" /\ op[o].pc \in Making /\ op[o].pc \in Throwing
    BY DEF Adopt, At, Making, Throwing
  <1>2. /\ op[o] \in OpRecords /\ op[o].kind \in {"publish", "restore"} /\ o \in Ids /\ o # None
        /\ op[o].kind = "restore" => apiKey = o /\ row.there /\ cleanup.p \in {None, o}
        /\ Carries(o, op[o]) /\ row \in RowRecords /\ op[o].pc \notin Ended
    BY <1>1, InMaking
  <1>3. op[o].api \in RowRecords /\ op[o].api.owned \in Owned
    BY <1>2, Fields DEF RowRecords
  <1>4. PICK w : w = IF op[o].kind = "publish" THEN op[o].api
                     ELSE [row EXCEPT !.proxy = o, !.state = "deployed", !.owned = op[o].api.owned]
    OBVIOUS
  <1>5. /\ UNCHANGED edge /\ faults' \in 0 .. MaxFaults
        /\ \/ /\ op[o].kind = "publish" => ~row.there
              /\ op[o].kind # "publish" => row.there /\ row.proxy = None /\ conv = NoConv
              /\ row' = w /\ cleanup' = NoCleanup /\ Leave(o, "done") /\ UNCHANGED <<conv, reported>>
           \/ Error(o) /\ UNCHANGED <<store, keys>>
    BY <1>4, Faulty DEF Adopt, Commit, StillMissing
  <1>6. CASE Error(o) /\ UNCHANGED <<store, keys>>
    BY <1>1, <1>5, <1>6, ThrowsAtOnce
  <1>7. CASE /\ op[o].kind = "publish" => ~row.there
             /\ op[o].kind # "publish" => row.there /\ row.proxy = None /\ conv = NoConv
             /\ row' = w /\ cleanup' = NoCleanup /\ Leave(o, "done") /\ UNCHANGED <<conv, reported>>
    <2>1. w \in RowRecords /\ w.there /\ w.proxy = o
      <3>1. CASE op[o].kind = "publish"
        BY <1>2, <1>3, <1>4, <3>1 DEF Carries
      <3>2. CASE op[o].kind = "restore"
        <4>1. w = [row EXCEPT !.proxy = o, !.state = "deployed", !.owned = op[o].api.owned]
              /\ o \in Refs /\ "deployed" \in States
          BY <1>2, <1>4, <3>2 DEF Refs, States
        <4>2. w \in RowRecords
          BY <1>2, <1>3, <4>1, Zenon DEF RowRecords
        <4> QED
          BY <1>2, <3>2, <4>1, <4>2 DEF RowRecords
      <3> QED
        BY <1>2, <3>1, <3>2
    <2>2. NoCleanup \in Cleanups /\ NoCleanup.p = None
      BY DEF NoCleanup, Cleanups, Refs
    <2>3. conv = NoConv /\ NoConv.p = None /\ None \notin Ids
      BY <1>2, <1>7, PublishingAssumption DEF Sound, Base, Kept, NoConv, Ids
    <2>4. cleanup.p \in {None, o}
      BY <1>2, <1>7 DEF Sound, Base, Kept
    <2>5. Kept'
      BY <1>2, <1>7, <2>1, <2>2, <2>3 DEF Kept
    <2>6. op'[o].pc \in Ended
      BY <1>7, Gone
    <2>7. \A p \in Ids \ {o} : Lead(p) => Lead(p)'
      BY <1>2, <1>7, <2>3, <2>4 DEF Lead
    <2>8. Store(o)
      BY <1>2, <1>7, <2>1, <2>2, <2>3, <2>4, <2>5, <2>6, <2>7 DEF Store, Sound, Base, Types
    <2>9. Lead(o)' /\ Gateway(o)
      BY <1>5, <1>7, <2>1, Unbroken DEF Lead
    <2> QED
      BY <1>2, <1>7, <2>8, <2>9, Leaves
  <1> QED
    BY <1>5, <1>6, <1>7

(* The compensations.                                                       *)
LEMMA WithdrawSound ==
  ASSUME Sound, NEW o \in Ops, Withdraw(o)
  PROVE  Sound'
  <1>1. op[o].pc = "withdraw"
    BY DEF Withdraw, At
  <1>2. /\ op[o] \in OpRecords /\ op[o].kind \in {"publish", "restore"} /\ o \in Ids /\ Home(op[o])
        /\ op[o].pc \notin Ended
    BY <1>1, InMaking
  <1>3. op[o].kind = "publish"
    BY <1>1, <1>2 DEF Home, Making, Unmaking, Rebuilding
  <1>4. PICK n : n = [op[o] EXCEPT !.pc = "note"]
    OBVIOUS
  <1>5. n \in OpRecords /\ n.pc = "note" /\ Same(n, op[o])
    <2>1. "note" \in Labels
      BY DEF Labels, Updating
    <2> QED
      BY <1>2, <1>4, <2>1, Moves DEF Same, Alike
  <1>6. /\ gw' = gw \/ gw' = [gw EXCEPT ![o] = NoProxy]
        /\ \/ gw' = [gw EXCEPT ![o] = NoProxy] /\ Leave(o, "failed")
           \/ UNCHANGED keys /\ Set(o, n)
        /\ faults' \in 0 .. MaxFaults /\ UNCHANGED <<store, settling, vanished>>
    BY <1>4, Faulty DEF Withdraw, Goto
  <1>7. Gateway(o) /\ Store(o) /\ UNCHANGED <<row, conv>>
    <2>1. settling' \subseteq Ids /\ vanished' \subseteq Ids
      BY <1>6 DEF Sound, Base, Types
    <2> QED
      BY <1>2, <1>6, <2>1, NoProxyRecord, Writes, Unbroken DEF store
  <1>8. CASE gw' = [gw EXCEPT ![o] = NoProxy] /\ Leave(o, "failed")
    <2>1. gw'[o].at = "none"
      BY <1>2, <1>8, NoProxyRecord DEF Sound, Base, Types
    <2> QED
      BY <1>2, <1>7, <1>8, <2>1, Leaves
  <1>9. CASE UNCHANGED keys /\ Set(o, n)
    <2>1. "note" \notin Unmaking
      BY DEF Unmaking
    <2> QED
      BY <1>1, <1>3, <1>5, <1>7, <1>9, <2>1, Makes
  <1> QED
    BY <1>6, <1>8, <1>9

\* The action Note keeps the invariant.
LEMMA NoteSound ==
  ASSUME Sound, NEW o \in Ops, Note(o)
  PROVE  Sound'
  <1>1. op[o].pc = "note" /\ op[o] \in OpRecords /\ op[o].pc \notin Ended /\ o \in Ids
    BY Knows DEF Note, At, Ended
  <1>2. PICK p : p = IF op[o].kind = "publish" THEN o ELSE op[o].seen
    OBVIOUS
  <1>3. p \in Ids /\ p \in {op[o].seen, o} /\ p \in Refs
    BY <1>1, <1>2, Knows, Fields DEF Fits, Carries, Refs
  <1>4. /\ UNCHANGED <<edge, row, conv, cleanup>> /\ faults' \in 0 .. MaxFaults
        /\ \/ reported' = reported \cup {p} /\ Leave(o, "failed")
           \/ /\ Release(o) /\ UNCHANGED reported
              /\ Set(o, [Idle EXCEPT !.kind = op[o].kind, !.pc = "logged", !.seen = p])
    BY <1>2, Faulty DEF Note
  <1>5. Gateway(o) /\ gw' = gw
    BY <1>4, Unbroken DEF edge
  <1>6. CASE reported' = reported \cup {p} /\ Leave(o, "failed")
    <2>1. Store(o)
      <3>1. reported \subseteq reported' /\ reported' \subseteq Ids
        BY <1>3, <1>6 DEF Sound, Base, Types
      <3> QED
        BY <1>4, <3>1, Restated
    <2>2. gw'[o].at # "none" => Lead(o)'
      <3>1. CASE op[o].kind = "publish"
        BY <1>2, <1>6, <3>1 DEF Lead
      <3>2. CASE op[o].kind # "publish"
        <4>1. op[o].kind # "restore"
          BY <1>1, Knows DEF Fits, Home, Making, Unmaking, Rebuilding
        <4>2. ~ Built(op[o])
          BY <3>2, <4>1 DEF Built
        <4> QED
          BY <1>1, <1>5, <4>2, NothingBuilt
      <3> QED
        BY <3>1, <3>2
    <2> QED
      BY <1>1, <1>5, <1>6, <2>1, <2>2, Leaves
  <1>7. CASE /\ Release(o) /\ UNCHANGED reported
             /\ Set(o, [Idle EXCEPT !.kind = op[o].kind, !.pc = "logged", !.seen = p])
    <2>1. PICK n : n = [Idle EXCEPT !.kind = op[o].kind, !.pc = "logged", !.seen = p]
      OBVIOUS
    <2>2. op[o].kind \in AllKinds \cup {"none"} /\ "logged" \in Labels /\ "logged" \in Ended
      BY <1>1, Fields DEF Labels, Ended
    <2>3. n \in OpRecords /\ n.pc = "logged" /\ n.seen = p
      <3>1. n \in OpRecords
        BY <1>3, <2>1, <2>2, IdleRecord, Zenon DEF OpRecords
      <3> QED
        BY <2>1, <3>1 DEF Idle
    <2>4. Store(o) /\ Keys(o)
      BY <1>4, <1>7, Unbroken, Released DEF store
    <2> QED
      BY <1>1, <1>3, <1>5, <1>7, <2>1, <2>2, <2>3, <2>4, Stops
  <1> QED
    BY <1>4, <1>6, <1>7

\* A restore that closes its journal, with or without a proxy it could not delete.
LEMMA Strands ==
  ASSUME NEW r \in OpRecords, NEW s \in Refs
  PROVE  LET n == [r EXCEPT !.pc = "close", !.stranded = s]
         IN  n \in OpRecords /\ n.pc = "close" /\ n.stranded = s /\ Same(n, r)
  <1>1. "close" \in Labels
    BY DEF Labels, Unmaking
  <1>2. PICK n : n = [r EXCEPT !.pc = "close", !.stranded = s]
    OBVIOUS
  <1>3. n \in OpRecords
    BY <1>1, <1>2, Zenon DEF OpRecords
  <1>4. n.pc = "close" /\ n.stranded = s /\ Same(n, r)
    BY <1>2, <1>3 DEF OpRecords, Same, Alike
  <1> QED
    BY <1>2, <1>3, <1>4

\* The action Salvage keeps the invariant.
LEMMA SalvageSound ==
  ASSUME Sound, NEW o \in Ops, Salvage(o)
  PROVE  Sound'
  <1>1. op[o].pc = "salvage" /\ op[o].pc \in Unmaking
    BY DEF Salvage, At, Unmaking
  <1>2. /\ op[o] \in OpRecords /\ op[o].kind \in {"publish", "restore"} /\ o \in Ids /\ Home(op[o])
        /\ op[o].kind = "restore" => apiKey = o /\ row.there /\ cleanup.p \in {None, o}
    BY <1>1, InMaking
  <1>3. op[o].kind = "restore" /\ apiKey = o /\ row.there /\ cleanup.p \in {None, o}
    BY <1>1, <1>2 DEF Home, Making
  <1>4. /\ UNCHANGED <<edge, row, conv, reported, keys>> /\ faults' \in 0 .. MaxFaults
        /\ \/ /\ gw[o].at = "none" /\ UNCHANGED cleanup
              /\ Set(o, [op[o] EXCEPT !.pc = "close", !.stranded = None])
           \/ UNCHANGED cleanup /\ Set(o, [op[o] EXCEPT !.pc = "close", !.stranded = o])
           \/ cleanup' = [p |-> o, acked |-> FALSE] /\ Set(o, [op[o] EXCEPT !.pc = "purge"])
    BY Faulty DEF Salvage, Goto
  <1>5. Gateway(o) /\ gw' = gw
    BY <1>4, Unbroken DEF edge
  <1>6. o \in Refs /\ None \in Refs
    BY <1>2 DEF Refs
  <1>7. CASE /\ UNCHANGED cleanup
             /\ \/ gw[o].at = "none" /\ Set(o, [op[o] EXCEPT !.pc = "close", !.stranded = None])
                \/ Set(o, [op[o] EXCEPT !.pc = "close", !.stranded = o])
    <2>1. PICK s \in {None, o} : /\ Set(o, [op[o] EXCEPT !.pc = "close", !.stranded = s])
                                 /\ s = None => gw[o].at = "none"
      BY <1>7, PublishingAssumption
    <2>2. PICK n : n = [op[o] EXCEPT !.pc = "close", !.stranded = s]
      OBVIOUS
    <2>3. n \in OpRecords /\ n.pc = "close" /\ n.stranded = s /\ Same(n, op[o])
      BY <1>2, <1>6, <2>2, Strands
    <2>4. Store(o)
      BY <1>4, <1>7, Unbroken DEF store
    <2>5. "close" \in Unmaking
      BY DEF Unmaking
    <2> QED
      BY <1>1, <1>3, <1>4, <1>5, <1>7, <2>1, <2>2, <2>3, <2>4, <2>5, Makes
  <1>8. CASE cleanup' = [p |-> o, acked |-> FALSE] /\ Set(o, [op[o] EXCEPT !.pc = "purge"])
    <2>1. cleanup' \in Cleanups /\ cleanup'.p = o
      BY <1>6, <1>8 DEF Cleanups
    <2>2. Store(o)
      BY <1>3, <1>4, <2>1, Stamps
    <2>3. PICK n : n = [op[o] EXCEPT !.pc = "purge"]
      OBVIOUS
    <2>4. "purge" \in Labels /\ "purge" \in Unmaking
      BY DEF Labels, Unmaking
    <2>5. n \in OpRecords /\ n.pc = "purge" /\ Same(n, op[o])
      BY <1>2, <2>3, <2>4, Moves DEF Same, Alike
    <2> QED
      BY <1>1, <1>3, <1>4, <1>5, <1>8, <2>1, <2>2, <2>3, <2>4, <2>5, Makes
  <1> QED
    BY <1>4, <1>7, <1>8

\* The action Purge keeps the invariant.
LEMMA PurgeSound ==
  ASSUME Sound, NEW o \in Ops, Purge(o)
  PROVE  Sound'
  <1>1. op[o].pc = "purge" /\ op[o].pc \in Unmaking
    BY DEF Purge, At, Unmaking
  <1>2. /\ op[o] \in OpRecords /\ op[o].kind \in {"publish", "restore"} /\ o \in Ids /\ Home(op[o])
        /\ op[o].kind = "restore" => cleanup.p \in {None, o}
    BY <1>1, InMaking
  <1>3. op[o].kind = "restore"
    BY <1>1, <1>2 DEF Home, Making
  <1>4. PICK s \in {None, o} :
          /\ Set(o, [op[o] EXCEPT !.pc = "close", !.stranded = s])
          /\ s = None => gw' = [gw EXCEPT ![o] = NoProxy]
          /\ gw' = gw \/ gw' = [gw EXCEPT ![o] = NoProxy]
          /\ settling' \in {settling, settling \cup {o}} /\ faults' \in 0 .. MaxFaults
          /\ UNCHANGED <<store, keys, vanished>>
    BY Faulty, Knows DEF Purge
  <1>5. Gateway(o) /\ Store(o) /\ UNCHANGED <<row, conv, cleanup>>
    <2>1. settling' \subseteq Ids /\ vanished' \subseteq Ids
      BY <1>2, <1>4 DEF Sound, Base, Types
    <2> QED
      BY <1>2, <1>4, <2>1, NoProxyRecord, Writes, Unbroken DEF store
  <1>6. PICK n : n = [op[o] EXCEPT !.pc = "close", !.stranded = s]
    OBVIOUS
  <1>7. n \in OpRecords /\ n.pc = "close" /\ n.stranded = s /\ Same(n, op[o])
    <2>1. s \in Refs
      BY <1>2 DEF Refs
    <2> QED
      BY <1>2, <1>6, <2>1, Strands
  <1>8. s = None => gw'[o].at = "none"
    BY <1>2, <1>4, NoProxyRecord DEF Sound, Base, Types
  <1>9. "close" \in Unmaking
    BY DEF Unmaking
  <1> QED
    BY <1>1, <1>2, <1>3, <1>4, <1>5, <1>6, <1>7, <1>8, <1>9, Makes

\* The action Close keeps the invariant.
LEMMA CloseSound ==
  ASSUME Sound, NEW o \in Ops, Close(o)
  PROVE  Sound'
  <1>1. op[o].pc = "close" /\ op[o].pc \in Unmaking
    BY DEF Close, At, Unmaking
  <1>2. /\ op[o] \in OpRecords /\ op[o].kind \in {"publish", "restore"} /\ o \in Ids /\ o # None /\ Home(op[o])
        /\ op[o].kind = "restore" => apiKey = o /\ row.there /\ cleanup.p \in {None, o}
        /\ Carries(o, op[o]) /\ row \in RowRecords /\ row.proxy # o /\ op[o].pc \notin Ended
        /\ cleanup \in Cleanups
    BY <1>1, InMaking
  <1>3. op[o].kind = "restore" /\ apiKey = o /\ row.there /\ cleanup.p \in {None, o}
    BY <1>1, <1>2 DEF Home, Making
  <1>4. PICK s \in {None, o} : s = op[o].stranded
    BY <1>1, <1>2 DEF Carries
  <1>5. s = None => gw[o].at = "none"
    BY <1>1, <1>2, <1>3, <1>4, Knows DEF Assured, Sole, ByApi, Unmaking
  <1>6. PICK w : w = [row EXCEPT !.proxy = s, !.state = "repair_required"]
    OBVIOUS
  <1>7. /\ UNCHANGED <<edge, conv>> /\ faults' \in 0 .. MaxFaults /\ Leave(o, "failed")
        /\ reported' = reported \cup ({s} \ {None})
        /\ row' = row \/ (row.proxy \in {None, s} /\ row' = w)
        /\ cleanup' \in {cleanup, NoCleanup}
    BY <1>4, <1>6, Faulty DEF Close
  <1>8. w \in RowRecords /\ w.there = row.there /\ w.proxy = s /\ w.state = "repair_required"
    <2>1. s \in Refs /\ "repair_required" \in States
      BY <1>2 DEF Refs, States
    <2>2. w \in RowRecords
      BY <1>2, <1>6, <2>1, Zenon DEF RowRecords
    <2> QED
      BY <1>2, <1>6, <2>2 DEF RowRecords
  <1>9. NoCleanup \in Cleanups /\ NoCleanup.p = None
    BY DEF NoCleanup, Cleanups, Refs
  <1>10. Kept'
    <2>1. conv # NoConv => row.proxy # None
      BY PublishingAssumption DEF Sound, Base, Kept, Types, ConvRecords, Ids
    <2> QED
      BY <1>2, <1>3, <1>4, <1>7, <1>8, <1>9, <2>1 DEF Kept, Sound, Base
  <1>11. \A p \in Ids \ {o} : Lead(p) => Lead(p)'
    <2>1. None \notin Ids
      BY PublishingAssumption DEF Ids
    <2> QED
      BY <1>3, <1>4, <1>7, <2>1 DEF Lead
  <1>12. Store(o)
    <2>1. op'[o].pc \in Ended
      BY <1>7, Gone
    <2>2. row' \in RowRecords /\ row'.proxy \in {row.proxy, None, o} /\ row'.there
      BY <1>2, <1>3, <1>4, <1>7, <1>8
    <2>3. cleanup' \in Cleanups /\ reported' \subseteq Ids
      BY <1>2, <1>4, <1>7, <1>9 DEF Sound, Base, Types
    <2> QED
      BY <1>3, <1>7, <1>10, <1>11, <2>1, <2>2, <2>3 DEF Store, Sound, Base, Types
  <1>13. Gateway(o) /\ (gw'[o].at # "none" => Lead(o)')
    <2>1. UNCHANGED edge /\ gw' = gw
      BY <1>7 DEF edge
    <2> QED
      BY <1>2, <1>4, <1>5, <1>7, <2>1, Unbroken DEF Lead
  <1> QED
    BY <1>2, <1>7, <1>12, <1>13, Leaves

-----------------------------------------------------------------------------
(* A restore of an API with a reference, and the repair.                   *)

(* A state that is written on a row that has its proxy.                     *)
LEMMA Clears ==
  ASSUME Sound, NEW o \in Ops, row.there, row.proxy # None, row' = [row EXCEPT !.state = "deployed"],
         UNCHANGED <<conv, cleanup, reported>>
  PROVE  Store(o)
  <1>1. row \in RowRecords
    BY DEF Sound, Base, Types
  <1>2. row' \in RowRecords
    BY <1>1, RowUpdates DEF States
  <1>3. row'.there = row.there /\ row'.proxy = row.proxy
    BY <1>1 DEF RowRecords
  <1>4. Kept'
    BY <1>3 DEF Sound, Base, Kept
  <1> QED
    BY <1>2, <1>3, <1>4 DEF Store, Sound, Base, Types, Lead

(* A reference that is taken away from a row whose proxy is gone.           *)
LEMMA Unrefers ==
  ASSUME Sound, NEW o \in Ops, apiKey = o, row.proxy # None => gw[row.proxy].at = "none", conv = NoConv,
         row' = [row EXCEPT !.proxy = None, !.state = "repair_required"], UNCHANGED <<gw, conv, cleanup, reported>>
  PROVE  Store(o) /\ row'.there = row.there
  <1>1. row \in RowRecords /\ None \in Refs /\ "repair_required" \in States /\ None \notin Ids
    BY PublishingAssumption DEF Sound, Base, Types, Refs, States, Ids
  <1>2. row' \in RowRecords
    BY <1>1, Zenon DEF RowRecords
  <1>3. row'.there = row.there /\ row'.proxy = None /\ row'.state = "repair_required"
    BY <1>1 DEF RowRecords
  <1>4. Kept'
    BY <1>3 DEF Sound, Base, Kept
  <1>5. \A p \in Ids : gw'[p].at # "none" /\ Lead(p) => Lead(p)'
    BY <1>1 DEF Lead
  <1> QED
    BY <1>2, <1>3, <1>4, <1>5 DEF Store, Sound, Base, Types

(* Operations of the API's key that have built nothing.                     *)
LEMMA InApi ==
  ASSUME Sound, NEW o \in Ops, op[o].pc \in {"validate", "orphan", "flag", "custody", "delete", "erase", "fail"}
  PROVE  /\ op[o] \in OpRecords /\ op[o].pc \notin Ended /\ o \in Ids /\ o # None /\ ~ Built(op[o]) /\ gw[o].at = "none"
         /\ op[o].kind = IF op[o].pc \in {"validate", "orphan"} THEN "restore"
                         ELSE IF op[o].pc = "flag" THEN "flag" ELSE "remove"
         /\ Home(op[o]) /\ Goal(op[o]) /\ Carries(o, op[o]) /\ Assured(o, op[o]) /\ Sole(op[o]) /\ apiKey = o
  <1>1. /\ op[o] \in OpRecords /\ o \in Ids /\ o # None /\ Fits(o, op[o]) /\ Assured(o, op[o])
    BY Knows
  <1>2. op[o].pc \notin Ended /\ op[o].pc # "wait" /\ ~ Built(op[o])
    BY DEF Ended, Built, Making, Unmaking
  <1>3. Home(op[o]) /\ Goal(op[o]) /\ Carries(o, op[o])
    BY <1>1, <1>2 DEF Fits
  <1>4. op[o].kind = IF op[o].pc \in {"validate", "orphan"} THEN "restore"
                     ELSE IF op[o].pc = "flag" THEN "flag" ELSE "remove"
    BY <1>1, <1>3, Fields DEF Home, Making, Unmaking, Rebuilding, Converting, Removing, Updating, AllKinds, Updates
  <1>5. Sole(op[o])
    BY <1>2, <1>4 DEF Sole, ByApi
  <1> QED
    BY <1>1, <1>2, <1>3, <1>4, <1>5, NothingBuilt DEF Assured

\* The action Validate keeps the invariant.
LEMMA ValidateSound ==
  ASSUME Sound, NEW o \in Ops, Validate(o)
  PROVE  Sound'
  <1>1. op[o].pc = "validate"
    BY DEF Validate, At
  <1>2. /\ op[o] \in OpRecords /\ op[o].pc \notin Ended /\ o \in Ids /\ gw[o].at = "none"
        /\ op[o].kind = "restore" /\ Home(op[o]) /\ Goal(op[o]) /\ Carries(o, op[o])
        /\ Assured(o, op[o]) /\ Sole(op[o]) /\ apiKey = o
    BY <1>1, InApi
  <1>3. row.there /\ row.proxy # None /\ proxyKey[row.proxy] = o /\ cleanup.p \in {None, o}
    BY <1>1, <1>2 DEF Assured
  <1>4. row.proxy \in Ids /\ gw \in [Ids -> Proxies] /\ proxyKey \in [Ids -> Ops \cup {None}]
    BY <1>3 DEF Sound, Base, Types, RowRecords, Refs
  <1>5. PICK n : n = [op[o] EXCEPT !.pc = "orphan"]
    OBVIOUS
  <1>6. /\ UNCHANGED <<edge, conv, cleanup, reported>> /\ faults' \in 0 .. MaxFaults
        /\ \/ /\ row' = row \/ row' = [row EXCEPT !.state = "deployed"]
              /\ Leave(o, "failed") \/ Leave(o, "done")
           \/ /\ gw[row.proxy].at = "none" /\ proxyKey' = [proxyKey EXCEPT ![row.proxy] = None]
              /\ UNCHANGED <<apiKey, row>> /\ Set(o, n)
    BY <1>5, Faulty DEF Validate, Goto
  <1>7. Gateway(o) /\ gw' = gw
    BY <1>6, Unbroken DEF edge
  <1>8. CASE /\ row' = row \/ row' = [row EXCEPT !.state = "deployed"]
             /\ Leave(o, "failed") \/ Leave(o, "done")
    <2>1. Store(o)
      <3>1. CASE row' = row
        BY <1>6, <3>1, Unbroken DEF store
      <3>2. CASE row' = [row EXCEPT !.state = "deployed"]
        BY <1>3, <1>6, <3>2, Clears
      <3> QED
        BY <1>8, <3>1, <3>2
    <2> QED
      BY <1>2, <1>7, <1>8, <2>1, Leaves
  <1>9. CASE /\ gw[row.proxy].at = "none" /\ proxyKey' = [proxyKey EXCEPT ![row.proxy] = None]
             /\ UNCHANGED <<apiKey, row>> /\ Set(o, n)
    <2>1. "orphan" \in Labels
      BY DEF Labels
    <2>2. /\ n \in OpRecords /\ n.pc = "orphan" /\ n.kind = "restore" /\ n.goal = op[o].goal /\ n.seen = op[o].seen
          /\ n.known = op[o].known /\ n.undo = op[o].undo /\ n.bad = op[o].bad
      BY <1>2, <1>5, <2>1, Moves
    <2>3. Fits(o, n)
      <3>1. Home(n) /\ Goal(n)
        BY <1>1, <1>2, <2>2 DEF Home, Goal, Updates, Rebuilding
      <3>2. Carries(o, n)
        BY <1>1, <1>2, <2>2 DEF Carries, Updates
      <3> QED
        BY <3>1, <3>2 DEF Fits
    <2>4. Going(o, n)
      BY <1>2, <1>7, <2>2, <2>3 DEF Going, Ended
    <2>5. Keys(o) /\ Store(o)
      BY <1>3, <1>4, <1>6, <1>9, Unbroken DEF Keys, store, Sound, Base, Types
    <2>6. Assured(o, n)'
      BY <1>2, <1>3, <1>6, <1>7, <1>9, <2>2 DEF Assured, Converting, Rebuilding
    <2>7. Tuned(o, n)'
      BY <2>2 DEF Tuned, Updates
    <2> QED
      BY <1>2, <1>7, <1>9, <2>4, <2>5, <2>6, <2>7, Remains
  <1> QED
    BY <1>6, <1>8, <1>9

\* The action Orphan keeps the invariant.
LEMMA OrphanSound ==
  ASSUME Sound, NEW o \in Ops, Orphan(o)
  PROVE  Sound'
  <1>1. op[o].pc = "orphan"
    BY DEF Orphan, At
  <1>2. /\ op[o] \in OpRecords /\ op[o].pc \notin Ended /\ o \in Ids /\ gw[o].at = "none"
        /\ op[o].kind = "restore" /\ Home(op[o]) /\ Goal(op[o]) /\ Carries(o, op[o])
        /\ Assured(o, op[o]) /\ Sole(op[o]) /\ apiKey = o
    BY <1>1, InApi
  <1>3. /\ row.there /\ cleanup.p \in {None, o}
        /\ row.proxy # None /\ row.proxy = op[o].api.proxy => gw[row.proxy].at = "none"
    BY <1>1, <1>2 DEF Assured
  <1>4. PICK n : n = Planned(o, op[o])
    OBVIOUS
  <1>5. /\ UNCHANGED <<edge, conv, cleanup, reported>> /\ faults' \in 0 .. MaxFaults
        /\ \/ row' = row /\ Leave(o, "failed")
           \/ /\ row.proxy = op[o].api.proxy /\ conv = NoConv
              /\ row' = [row EXCEPT !.proxy = None, !.state = "repair_required"]
              /\ Set(o, n) /\ UNCHANGED keys
    BY <1>4, Faulty DEF Orphan
  <1>6. Gateway(o) /\ gw' = gw
    BY <1>5, Unbroken DEF edge
  <1>7. CASE row' = row /\ Leave(o, "failed")
    <2>1. Store(o)
      BY <1>5, <1>7, Unbroken DEF store
    <2> QED
      BY <1>2, <1>6, <1>7, <2>1, Leaves
  <1>8. CASE /\ row.proxy = op[o].api.proxy /\ conv = NoConv
             /\ row' = [row EXCEPT !.proxy = None, !.state = "repair_required"]
             /\ Set(o, n) /\ UNCHANGED keys
    <2>1. Store(o) /\ row'.there = row.there
      BY <1>2, <1>3, <1>5, <1>6, <1>8, Unrefers
    <2>2. /\ n \in OpRecords /\ n.pc = "create" /\ n.kind = "restore" /\ n.seen = op[o].seen /\ n.goal = op[o].goal
          /\ n.known = op[o].known /\ n.undo = op[o].undo /\ n.bad = op[o].bad /\ n.left # {}
          /\ n.left \subseteq {o} \X (Flavours \cup {"acl"})
      BY <1>2, <1>4, Plans
    <2>3. Fits(o, n)
      <3>1. Home(n) /\ Goal(n)
        BY <1>1, <1>2, <2>2 DEF Home, Goal, Updates, Rebuilding, Making
      <3>2. Carries(o, n)
        BY <1>1, <1>2, <2>2 DEF Carries, Updates
      <3> QED
        BY <3>1, <3>2 DEF Fits
    <2>4. Going(o, n)
      BY <1>2, <1>6, <2>2, <2>3 DEF Going, Ended
    <2>5. Keys(o) /\ UNCHANGED apiKey
      BY <1>8, Unbroken DEF keys
    <2>6. Assured(o, n)'
      BY <1>2, <1>3, <1>5, <2>1, <2>2, <2>5 DEF Assured, Converting, Rebuilding
    <2>7. Tuned(o, n)'
      BY <2>2 DEF Tuned, Updates
    <2> QED
      BY <1>2, <1>6, <1>8, <2>1, <2>4, <2>5, <2>6, <2>7, Remains
  <1> QED
    BY <1>5, <1>7, <1>8

\* The action Flag keeps the invariant.
LEMMA FlagSound ==
  ASSUME Sound, NEW o \in Ops, Flag(o)
  PROVE  Sound'
  <1>1. op[o].pc = "flag"
    BY DEF Flag, At
  <1>2. /\ op[o] \in OpRecords /\ op[o].pc \notin Ended /\ o \in Ids /\ gw[o].at = "none" /\ apiKey = o
    BY <1>1, InApi
  <1>3. /\ UNCHANGED <<edge, conv, cleanup, reported>> /\ faults' \in 0 .. MaxFaults /\ Leave(o, "done")
        /\ \/ row' = row
           \/ /\ row' = [row EXCEPT !.proxy = None, !.state = "repair_required"]
              /\ gw[row.proxy].at = "none" /\ conv = NoConv
    BY Faulty DEF Flag
  <1>4. Gateway(o) /\ gw' = gw
    BY <1>3, Unbroken DEF edge
  <1>5. Store(o)
    <2>1. CASE row' = row
      BY <1>3, <2>1, Unbroken DEF store
    <2>2. CASE /\ row' = [row EXCEPT !.proxy = None, !.state = "repair_required"]
               /\ gw[row.proxy].at = "none" /\ conv = NoConv
      BY <1>2, <1>3, <1>4, <2>2, Unrefers
    <2> QED
      BY <1>3, <2>1, <2>2
  <1> QED
    BY <1>2, <1>3, <1>4, <1>5, Leaves

-----------------------------------------------------------------------------
(* Deleting the API.                                                       *)

\* The action Custody keeps the invariant.
LEMMA CustodySound ==
  ASSUME Sound, NEW o \in Ops, Custody(o)
  PROVE  Sound'
  <1>1. op[o].pc = "custody"
    BY DEF Custody, At
  <1>2. /\ op[o] \in OpRecords /\ op[o].pc \notin Ended /\ o \in Ids /\ gw[o].at = "none"
        /\ op[o].kind = "remove" /\ Home(op[o]) /\ Goal(op[o]) /\ Carries(o, op[o])
        /\ Assured(o, op[o]) /\ Sole(op[o]) /\ apiKey = o
    BY <1>1, InApi
  <1>3. UNCHANGED <<edge, store>> /\ faults' \in 0 .. MaxFaults
    BY Faulty DEF Custody
  <1>4. Gateway(o) /\ Store(o) /\ gw' = gw
    BY <1>3, Unbroken DEF edge
  <1>5. CASE Leave(o, "failed")
    BY <1>2, <1>4, <1>5, Leaves
  <1>6. PICK l \in {"erase", "delete"} : l = IF row.proxy = None THEN "erase" ELSE "delete"
    OBVIOUS
  <1>7. CASE row.there /\ row.proxy = op[o].seen /\ cleanup = NoCleanup /\ Goto(o, l) /\ UNCHANGED keys
    <2>1. PICK n : n = [op[o] EXCEPT !.pc = l]
      OBVIOUS
    <2>2. l \in Labels /\ l \in Removing
      BY DEF Labels, Removing
    <2>3. /\ n \in OpRecords /\ n.pc = l /\ n.kind = "remove" /\ n.goal = op[o].goal /\ n.seen = op[o].seen
          /\ n.undo = op[o].undo /\ n.bad = op[o].bad
      BY <1>2, <2>1, <2>2, Moves
    <2>4. Fits(o, n)
      <3>1. Home(n) /\ Goal(n)
        BY <1>1, <1>2, <2>2, <2>3 DEF Home, Goal, Updates
      <3>2. Carries(o, n)
        BY <1>1, <1>2, <1>6, <1>7, <2>3 DEF Carries, Updates
      <3> QED
        BY <3>1, <3>2 DEF Fits
    <2>5. Assured(o, n)
      <3>1. NoCleanup.p = None
        BY DEF NoCleanup
      <3> QED
        BY <1>2, <1>6, <1>7, <2>3, <3>1 DEF Assured, Converting, Rebuilding
    <2>6. Tuned(o, n) /\ n.pc \notin Ended /\ Set(o, n) /\ n.pc \notin {"attach", "associate"}
      BY <1>7, <2>1, <2>3 DEF Tuned, Updates, Ended, Goto
    <2> QED
      BY <1>2, <1>3, <1>7, <2>3, <2>4, <2>5, <2>6, MovesOn
  <1> QED
    BY <1>5, <1>6, <1>7 DEF Custody

\* The action Delete keeps the invariant.
LEMMA DeleteSound ==
  ASSUME Sound, NEW o \in Ops, Delete(o)
  PROVE  Sound'
  <1>1. op[o].pc = "delete" /\ op[o].pc \in Throwing
    BY DEF Delete, At, Throwing
  <1>2. /\ op[o] \in OpRecords /\ op[o].pc \notin Ended /\ o \in Ids /\ gw[o].at = "none"
        /\ op[o].kind = "remove" /\ Home(op[o]) /\ Goal(op[o]) /\ Carries(o, op[o])
        /\ Assured(o, op[o]) /\ Sole(op[o]) /\ apiKey = o
    BY <1>1, InApi
  <1>3. row.there /\ row.proxy = op[o].seen /\ cleanup.p = None
    BY <1>1, <1>2 DEF Assured
  <1>4. op[o].seen \in Ids /\ op[o].seen # o
    BY <1>1, <1>2, Fields, Knows DEF Carries, Refs, Own
  <1>5. PICK n : n = [op[o] EXCEPT !.pc = "erase"]
    OBVIOUS
  <1>6. /\ gw' = gw \/ gw' = [gw EXCEPT ![op[o].seen] = NoProxy]
        /\ Error(o) \/ (gw' = [gw EXCEPT ![op[o].seen] = NoProxy] /\ Set(o, n))
        /\ faults' \in 0 .. MaxFaults /\ UNCHANGED <<store, keys, settling, vanished>>
    BY <1>5, Faulty DEF Delete, Goto
  <1>7. Gateway(o) /\ Store(o) /\ UNCHANGED <<row, conv, cleanup>>
    <2>1. settling' \subseteq Ids /\ vanished' \subseteq Ids
      BY <1>6 DEF Sound, Base, Types
    <2> QED
      BY <1>4, <1>6, <2>1, NoProxyRecord, Writes, Unbroken DEF store
  <1>8. gw'[o] = gw[o] /\ gw \in [Ids -> Proxies]
    BY <1>2, <1>4, <1>6 DEF Sound, Base, Types
  <1>9. CASE Error(o)
    BY <1>1, <1>6, <1>7, <1>8, <1>9, Throws
  <1>10. CASE gw' = [gw EXCEPT ![op[o].seen] = NoProxy] /\ Set(o, n)
    <2>1. "erase" \in Labels /\ "erase" \in Removing
      BY DEF Labels, Removing
    <2>2. /\ n \in OpRecords /\ n.pc = "erase" /\ n.kind = "remove" /\ n.goal = op[o].goal /\ n.seen = op[o].seen
          /\ n.undo = op[o].undo /\ n.bad = op[o].bad
      BY <1>2, <1>5, <2>1, Moves
    <2>3. Fits(o, n)
      <3>1. Home(n) /\ Goal(n)
        BY <2>1, <2>2 DEF Home, Goal, Updates
      <3>2. Carries(o, n)
        BY <1>1, <1>2, <2>2 DEF Carries, Updates
      <3> QED
        BY <3>1, <3>2 DEF Fits
    <2>4. Going(o, n)
      BY <1>2, <1>8, <2>2, <2>3 DEF Going, Ended
    <2>5. Assured(o, n)'
      <3>1. gw'[row.proxy].at = "none" /\ UNCHANGED apiKey
        BY <1>3, <1>4, <1>6, <1>8, <1>10, NoProxyRecord DEF keys
      <3> QED
        BY <1>2, <1>3, <1>7, <2>2, <3>1 DEF Assured, Converting, Rebuilding
    <2>6. Tuned(o, n)' /\ Keys(o)
      BY <1>6, <2>2, Unbroken DEF Tuned, Updates
    <2> QED
      BY <1>2, <1>7, <1>10, <2>4, <2>5, <2>6, Remains
  <1> QED
    BY <1>6, <1>9, <1>10

\* The action Erase keeps the invariant.
LEMMA EraseSound ==
  ASSUME Sound, NEW o \in Ops, Erase(o)
  PROVE  Sound'
  <1>1. op[o].pc = "erase" /\ op[o].pc \in Throwing
    BY DEF Erase, At, Throwing
  <1>2. /\ op[o].pc \notin Ended /\ o \in Ids /\ gw[o].at = "none"
        /\ op[o].kind = "remove" /\ Assured(o, op[o]) /\ Sole(op[o]) /\ apiKey = o
    BY <1>1, InApi
  <1>3. cleanup.p = None /\ (row.proxy # None => gw[row.proxy].at = "none")
    BY <1>1, <1>2 DEF Assured
  <1>4. /\ UNCHANGED edge /\ faults' \in 0 .. MaxFaults
        /\ \/ row' = NoRow /\ conv' = NoConv /\ Leave(o, "done") /\ UNCHANGED <<cleanup, reported>>
           \/ Error(o) /\ UNCHANGED <<store, keys>>
    BY Faulty DEF Erase, Commit
  <1>5. CASE Error(o) /\ UNCHANGED <<store, keys>>
    BY <1>1, <1>4, <1>5, ThrowsAtOnce
  <1>6. CASE row' = NoRow /\ conv' = NoConv /\ Leave(o, "done") /\ UNCHANGED <<cleanup, reported>>
    <2>1. NoRow \in RowRecords /\ NoRow.proxy = None /\ NoRow.there = FALSE
      BY DEF NoRow, RowRecords, States, Flavours, Levels, Refs, Owned, Plugins
    <2>2. NoConv.p = None /\ None \notin Ids
      BY PublishingAssumption DEF NoConv, Ids
    <2>3. Kept'
      BY <1>3, <1>6, <2>1 DEF Kept
    <2>4. conv.p = None \/ conv.p = row.proxy
      BY <2>2 DEF Sound, Base, Kept
    <2>5. Gateway(o) /\ gw' = gw
      BY <1>4, Unbroken DEF edge
    <2>6. \A p \in Ids : gw'[p].at # "none" /\ Lead(p) => Lead(p)'
      BY <1>3, <1>6, <2>2, <2>4, <2>5 DEF Lead
    <2>7. Store(o)
      BY <1>2, <1>6, <2>1, <2>2, <2>3, <2>6 DEF Store, Sound, Base, Types
    <2> QED
      BY <1>2, <1>6, <2>5, <2>7, Leaves
  <1> QED
    BY <1>4, <1>5, <1>6

\* The action Fail keeps the invariant.
LEMMA FailSound ==
  ASSUME Sound, NEW o \in Ops, Fail(o)
  PROVE  Sound'
  <1>1. op[o].pc = "fail"
    BY DEF Fail, At
  <1>2. op[o] \in OpRecords /\ op[o].pc \notin Ended /\ o \in Ids /\ gw[o].at = "none"
    BY <1>1, InApi
  <1>3. /\ UNCHANGED <<edge, row, conv, cleanup>> /\ faults' \in 0 .. MaxFaults /\ Leave(o, "failed")
        /\ reported' = reported \cup ({op[o].seen} \ {None})
    BY Faulty DEF Fail
  <1>4. reported \subseteq reported' /\ reported' \subseteq Ids
    BY <1>2, <1>3, Fields DEF Sound, Base, Types, Refs
  <1>5. Store(o) /\ Gateway(o) /\ gw' = gw
    BY <1>3, <1>4, Restated, Unbroken DEF edge
  <1> QED
    BY <1>2, <1>3, <1>5, Leaves

-----------------------------------------------------------------------------
(* The updates.                                                            *)

\* What an update finds.
LEMMA InUpdate ==
  ASSUME Sound, NEW o \in Ops, op[o].pc \in Updating \ {"note"}
  PROVE  /\ op[o] \in OpRecords /\ op[o].pc \notin Ended /\ o \in Ids /\ o # None /\ gw[o].at = "none"
         /\ op[o].kind \in Updates /\ Home(op[o]) /\ Goal(op[o]) /\ Carries(o, op[o]) /\ ~ Built(op[o])
         /\ op[o].seen # None => /\ op[o].seen \in Ids /\ proxyKey[op[o].seen] = o
                                 /\ gw[op[o].seen] \in Proxies /\ gw[op[o].seen].on \subseteq gw[op[o].seen].cfgs
         /\ op[o].seen # o /\ row \in RowRecords
  <1>1. /\ op[o] \in OpRecords /\ o \in Ids /\ o # None /\ Fits(o, op[o]) /\ Own(o, op[o]) /\ Tuned(o, op[o])
    BY Knows
  <1>2. op[o].pc \notin Ended /\ ~ Built(op[o])
    BY DEF Ended, Built, Making, Unmaking, Updating
  <1>3. Home(op[o]) /\ Goal(op[o]) /\ Carries(o, op[o])
    BY <1>1, <1>2 DEF Fits
  <1>4. op[o].kind \in Updates
    BY <1>1, <1>3, Fields DEF Home, Making, Unmaking, Rebuilding, Converting, Removing, Updating, AllKinds, Updates
  <1>5. op[o].seen # None => op[o].seen \in Ids /\ proxyKey[op[o].seen] = o
    BY <1>1, <1>4, Fields DEF Tuned, Refs
  <1> QED
    BY <1>1, <1>2, <1>3, <1>4, <1>5, NothingBuilt DEF Own, Sound, Base, Types, Gates

(* What an update that goes on does to its record.                          *)
Keen(n, r) ==
  /\ n.kind = r.kind /\ n.seen = r.seen /\ n.pc \in Updating
  /\ n.undo # <<>> \/ n.bad \/ n.pc \in {"plug", "join", "detach", "drop", "respec", "note"} => n.seen # None
  /\ n.pc \in {"plug", "join"} => n.new \in Configs
  /\ n.kind = "swap" /\ n.pc \in {"plug", "join", "detach", "drop", "respec", "save"} => n.new \in Ids \X Flavours
  /\ \A i \in DOMAIN n.undo : n.undo[i] = "removed" => n.old \in Configs

\* A step of an update that goes on.
LEMMA Tunes ==
  ASSUME Sound, NEW o \in Ops, op[o].pc \in Updating \ {"note"}, NEW n \in OpRecords, Set(o, n), Keen(n, op[o]),
         n.pc = "join" => gw'[n.seen].at = "none" \/ n.new \in gw'[n.seen].cfgs,
         Gateway(o), gw'[o].at = gw[o].at, UNCHANGED <<store, keys>>
  PROVE  Sound'
  <1>1. /\ op[o] \in OpRecords /\ op[o].pc \notin Ended /\ gw[o].at = "none"
        /\ op[o].kind \in Updates /\ Carries(o, op[o]) /\ (op[o].seen # None => proxyKey[op[o].seen] = o)
    BY InUpdate
  <1>2. n.pc \notin Ended /\ n.pc \notin {"attach", "associate"}
    BY DEF Ended, Updating, Keen
  <1>3. Fits(o, n)
    <2>1. Home(n) /\ Goal(n)
      BY <1>1 DEF Home, Goal, Updates, Updating, Keen
    <2>2. Carries(o, n)
      BY <1>1 DEF Carries, Updates, Updating, Keen
    <2> QED
      BY <2>1, <2>2 DEF Fits
  <1>4. Going(o, n)
    BY <1>1, <1>2, <1>3 DEF Going, Keen
  <1>5. Assured(o, n)'
    BY <1>1 DEF Assured, Sole, ByApi, Updates, Keen
  <1>6. Tuned(o, n)'
    BY <1>1 DEF Tuned, Keen, keys
  <1> QED
    BY <1>1, <1>4, <1>5, <1>6, Unbroken, Remains

(* A write to the update's proxy.                                           *)
LEMMA TunesCall ==
  ASSUME Sound, NEW o \in Ops, op[o].pc \in {"plug", "join", "detach", "drop"}, NEW g, NEW n \in OpRecords,
         Call(o, op[o].seen, g, Set(o, n)),
         gw[op[o].seen].at # "none" => g \in Proxies /\ g.on \subseteq g.cfgs,
         Keen(n, op[o]), n.pc = "join" => n.new \in g.cfgs, UNCHANGED <<store, keys>>
  PROVE  Sound'
  <1>1. op[o].pc \in Updating \ {"note"} /\ op[o].pc \in Throwing
    BY DEF Updating, Throwing
  <1>2. /\ o \in Ids /\ op[o].seen \in Ids /\ op[o].seen # o /\ proxyKey[op[o].seen] = o /\ op[o].kind \in Updates
    BY <1>1, InUpdate DEF Carries, Updates
  <1>3. /\ gw' = gw \/ gw' = [gw EXCEPT ![op[o].seen] = g]
        /\ Error(o) \/ (Set(o, n) /\ gw[op[o].seen].at # "none" /\ gw' = [gw EXCEPT ![op[o].seen] = g])
        /\ gw' # gw => gw[op[o].seen].at # "none"
        /\ faults' \in 0 .. MaxFaults /\ settling' = settling /\ vanished' = vanished
        /\ settling' \subseteq Ids /\ vanished' \subseteq Ids
    BY CallCases
  <1>4. Gateway(o) /\ gw'[o] = gw[o]
    <2>1. CASE gw' = gw
      BY <1>3, <2>1, Unbroken DEF edge
    <2>2. CASE gw' # gw
      <3>1. Gateway(o)
        BY <1>2, <1>3, <2>2, Writes
      <3> QED
        BY <1>2, <1>3, <3>1 DEF Sound, Base, Types
    <2> QED
      BY <2>1, <2>2
  <1>5. CASE Error(o)
    BY <1>1, <1>4, <1>5, Throws, Unbroken DEF store
  <1>6. CASE Set(o, n) /\ gw' = [gw EXCEPT ![op[o].seen] = g]
    <2>1. n.pc = "join" => n.new \in gw'[n.seen].cfgs
      BY <1>2, <1>6 DEF Keen, Sound, Base, Types
    <2> QED
      BY <1>1, <1>4, <1>6, <2>1, Tunes
  <1> QED
    BY <1>3, <1>5, <1>6

\* The action Plug keeps the invariant.
LEMMA PlugSound ==
  ASSUME Sound, NEW o \in Ops, Plug(o)
  PROVE  Sound'
  <1>1. op[o].pc = "plug" /\ op[o].pc \in Updating \ {"note"}
    BY DEF Plug, At, Updating
  <1>2. /\ op[o] \in OpRecords /\ Carries(o, op[o]) /\ op[o].kind \in Updates /\ op[o].seen # None
        /\ gw[op[o].seen] \in Proxies /\ gw[op[o].seen].on \subseteq gw[op[o].seen].cfgs
    BY <1>1, InUpdate DEF Carries, Updates
  <1>3. op[o].new \in Configs
    BY <1>1, <1>2 DEF Carries
  <1>4. PICK g : g = [gw[op[o].seen] EXCEPT !.cfgs = gw[op[o].seen].cfgs \cup {op[o].new}]
    OBVIOUS
  <1>5. g \in Proxies /\ g.cfgs = gw[op[o].seen].cfgs \cup {op[o].new} /\ g.on \subseteq g.cfgs
    <2>1. gw[op[o].seen].cfgs \cup {op[o].new} \in SUBSET Configs
      BY <1>2, <1>3, ProxyFields
    <2>2. g \in Proxies
      BY <1>2, <1>4, <2>1, Zenon DEF Proxies
    <2> QED
      BY <1>2, <1>4, <2>2, ProxyFields
  <1>6. PICK n : n = [op[o] EXCEPT !.pc = "join"]
    OBVIOUS
  <1>7. "join" \in Labels /\ "join" \in Updating
    BY DEF Labels, Updating
  <1>8. /\ n \in OpRecords /\ n.pc = "join" /\ n.kind = op[o].kind /\ n.seen = op[o].seen /\ n.new = op[o].new
        /\ n.old = op[o].old /\ n.undo = op[o].undo
    BY <1>2, <1>6, <1>7, Moves
  <1>9. Keen(n, op[o])
    BY <1>1, <1>2, <1>3, <1>7, <1>8 DEF Keen, Carries
  <1>10. Call(o, op[o].seen, g, Set(o, n)) /\ UNCHANGED <<store, keys>>
    BY <1>4, <1>6 DEF Plug, Goto
  <1> QED
    BY <1>1, <1>5, <1>8, <1>9, <1>10, TunesCall

\* The action Join keeps the invariant.
LEMMA JoinSound ==
  ASSUME Sound, NEW o \in Ops, Join(o)
  PROVE  Sound'
  <1>1. op[o].pc = "join" /\ op[o].pc \in Updating \ {"note"}
    BY DEF Join, At, Updating
  <1>2. /\ op[o] \in OpRecords /\ Carries(o, op[o]) /\ op[o].kind \in Updates /\ op[o].seen # None
        /\ gw[op[o].seen] \in Proxies /\ gw[op[o].seen].on \subseteq gw[op[o].seen].cfgs
    BY <1>1, InUpdate DEF Carries, Updates
  <1>3. op[o].new \in Configs /\ (gw[op[o].seen].at # "none" => op[o].new \in gw[op[o].seen].cfgs)
    BY <1>1, <1>2, Knows DEF Carries, Tuned
  <1>4. PICK g : g = [gw[op[o].seen] EXCEPT !.on = gw[op[o].seen].on \cup {op[o].new}]
    OBVIOUS
  <1>5. g \in Proxies /\ (gw[op[o].seen].at # "none" => g.on \subseteq g.cfgs)
    <2>1. gw[op[o].seen].on \cup {op[o].new} \in SUBSET Configs
      BY <1>2, <1>3, ProxyFields
    <2>2. g \in Proxies
      BY <1>2, <1>4, <2>1, Zenon DEF Proxies
    <2> QED
      BY <1>2, <1>3, <1>4, <2>2, ProxyFields
  <1>6. PICK u : u = Append(op[o].undo, "removed")
    OBVIOUS
  <1>7. PICK n : n = IF op[o].old = None THEN [op[o] EXCEPT !.pc = "save"]
                     ELSE [op[o] EXCEPT !.pc = "detach", !.undo = u]
    OBVIOUS
  <1>8. {"save", "detach"} \subseteq Labels \cap Updating
    BY DEF Labels, Updating
  <1>9. op[o].undo \in Seq({"attached", "removed", "spec"}) /\ u \in Seq({"attached", "removed", "spec"})
    BY <1>2, <1>6, Fields
  <1>10. n \in OpRecords /\ Keen(n, op[o]) /\ n.pc \in {"save", "detach"}
    <2>1. CASE op[o].old = None
      <3>1. n = [op[o] EXCEPT !.pc = "save"]
        BY <1>7, <2>1
      <3>2. /\ n \in OpRecords /\ n.pc = "save" /\ n.kind = op[o].kind /\ n.seen = op[o].seen /\ n.new = op[o].new
            /\ n.old = op[o].old /\ n.undo = op[o].undo
        BY <1>2, <1>8, <3>1, Moves
      <3> QED
        BY <1>1, <1>2, <1>8, <3>2 DEF Keen, Carries
    <2>2. CASE op[o].old # None
      <3>1. n = [op[o] EXCEPT !.pc = "detach", !.undo = u] /\ "detach" \in Labels
        BY <1>7, <1>8, <2>2
      <3>2. n \in OpRecords
        BY <1>2, <1>9, <3>1, Zenon DEF OpRecords
      <3>3. /\ n.pc = "detach" /\ n.kind = op[o].kind /\ n.seen = op[o].seen /\ n.new = op[o].new
            /\ n.old = op[o].old
        BY <1>2, <3>1, <3>2 DEF OpRecords
      <3>4. op[o].old \in Configs
        BY <1>2, <2>2, Fields DEF Plugins
      <3> QED
        BY <1>1, <1>2, <1>8, <3>2, <3>3, <3>4 DEF Keen, Carries
    <2> QED
      BY <2>1, <2>2
  <1>11. Call(o, op[o].seen, g, Set(o, n)) /\ UNCHANGED <<store, keys>>
    BY <1>4, <1>6, <1>7 DEF Join
  <1> QED
    BY <1>1, <1>5, <1>10, <1>11, TunesCall

\* The action Detach keeps the invariant.
LEMMA DetachSound ==
  ASSUME Sound, NEW o \in Ops, Detach(o) \/ Drop(o)
  PROVE  Sound'
  <1>1. op[o].pc \in {"detach", "drop"} /\ op[o].pc \in Updating \ {"note"}
    BY DEF Detach, Drop, At, Updating
  <1>2. /\ op[o] \in OpRecords /\ Carries(o, op[o]) /\ op[o].kind \in Updates /\ op[o].seen # None
        /\ gw[op[o].seen] \in Proxies /\ gw[op[o].seen].on \subseteq gw[op[o].seen].cfgs
    BY <1>1, InUpdate DEF Carries, Updates
  <1> DEFINE h == gw[op[o].seen]
  <1>3. PICK g : g = IF op[o].pc = "detach" THEN [h EXCEPT !.on = h.on \ {op[o].old}]
                     ELSE [h EXCEPT !.cfgs = h.cfgs \ {op[o].old}, !.on = h.on \ {op[o].old}]
    OBVIOUS
  <1>4. g \in Proxies /\ g.on \subseteq g.cfgs
    <2>1. h.cfgs \ {op[o].old} \in SUBSET Configs /\ h.on \ {op[o].old} \in SUBSET Configs
      BY <1>2, ProxyFields
    <2>2. CASE op[o].pc = "detach"
      <3>1. g = [h EXCEPT !.on = h.on \ {op[o].old}]
        BY <1>3, <2>2
      <3>2. g \in Proxies
        BY <1>2, <2>1, <3>1, Zenon DEF Proxies
      <3> QED
        BY <1>2, <3>1, <3>2, ProxyFields
    <2>3. CASE op[o].pc # "detach"
      <3>1. g = [h EXCEPT !.cfgs = h.cfgs \ {op[o].old}, !.on = h.on \ {op[o].old}]
        BY <1>3, <2>3
      <3>2. g \in Proxies
        BY <1>2, <2>1, <3>1, Zenon DEF Proxies
      <3> QED
        BY <1>2, <3>1, <3>2, ProxyFields
    <2> QED
      BY <2>2, <2>3
  <1>5. PICK l \in {"drop", "save"} : l = IF op[o].pc = "detach" THEN "drop" ELSE "save"
    OBVIOUS
  <1>6. PICK n : n = [op[o] EXCEPT !.pc = l]
    OBVIOUS
  <1>7. l \in Labels /\ l \in Updating
    BY DEF Labels, Updating
  <1>8. /\ n \in OpRecords /\ n.pc = l /\ n.kind = op[o].kind /\ n.seen = op[o].seen /\ n.new = op[o].new
        /\ n.old = op[o].old /\ n.undo = op[o].undo
    BY <1>2, <1>6, <1>7, Moves
  <1>9. Keen(n, op[o])
    BY <1>1, <1>2, <1>7, <1>8 DEF Keen, Carries
  <1>10. Call(o, op[o].seen, g, Set(o, n)) /\ UNCHANGED <<store, keys>>
    BY <1>3, <1>5, <1>6 DEF Detach, Drop, Goto, At
  <1> QED
    BY <1>1, <1>4, <1>8, <1>9, <1>10, TunesCall

\* The action Enter keeps the invariant.
LEMMA EnterSound ==
  ASSUME Sound, NEW o \in Ops, Enter(o)
  PROVE  Sound'
  <1>1. op[o].pc = "enter" /\ op[o].pc \in Updating \ {"note"}
    BY DEF Enter, At, Updating
  <1>2. /\ op[o] \in OpRecords /\ Carries(o, op[o]) /\ op[o].kind \in Updates /\ o \in Ids
        /\ row \in RowRecords /\ op[o].pc \notin Ended /\ gw[o].at = "none"
    BY <1>1, InUpdate
  <1>3. UNCHANGED <<edge, store>> /\ faults' \in 0 .. MaxFaults
    BY Faulty DEF Enter
  <1>4. Gateway(o) /\ Store(o) /\ gw' = gw
    BY <1>3, Unbroken DEF edge
  <1>5. CASE Leave(o, "failed")
    BY <1>2, <1>4, <1>5, Leaves
  <1> DEFINE p == op[o].seen
             acl == Live(row.owned.acl, p)
             auth == Live(row.owned.auth, p)
  <1>6. PICK a : a = [op[o] EXCEPT !.api = row]
    OBVIOUS
  <1>7. /\ a \in OpRecords /\ a.kind = op[o].kind /\ a.seen = op[o].seen /\ a.undo = op[o].undo /\ a.bad = op[o].bad
        /\ a.new = op[o].new /\ a.old = op[o].old
    <2>1. a \in OpRecords
      BY <1>2, <1>6, Zenon DEF OpRecords
    <2> QED
      BY <1>2, <1>6, <2>1 DEF OpRecords
  <1>8. /\ row.owned.acl \in Plugins /\ row.owned.auth \in Plugins /\ row.auth \in Flavours
        /\ acl \in Plugins /\ auth \in Plugins
    <2>1. row.owned \in Owned /\ row.auth \in Flavours
      BY <1>2 DEF RowRecords
    <2>2. row.owned.acl \in Plugins /\ row.owned.auth \in Plugins
      BY <2>1 DEF Owned
    <2> QED
      BY <2>1, <2>2 DEF Live, Plugins
  <1>9. PICK c : c = <<o, Other(row.auth)>>
    OBVIOUS
  <1>10. c \in Ids \X Flavours /\ c \in Configs /\ <<o, "acl">> \in Configs
    <2>1. Other(row.auth) \in Flavours
      BY DEF Other, Flavours
    <2> QED
      BY <1>2, <1>9, <2>1 DEF Configs
  <1>11. \/ Leave(o, "failed")
         \/ /\ UNCHANGED keys
            /\ \/ /\ op[o].kind = "swap"
                  /\ Set(o, [a EXCEPT !.pc = "plug", !.new = c, !.undo = <<"attached">>, !.old = auth])
               \/ /\ op[o].kind = "gate"
                  /\ Set(o, [a EXCEPT !.pc = "plug", !.new = <<o, "acl">>, !.undo = <<"attached">>])
               \/ /\ op[o].kind = "gate" /\ acl # None
                  /\ Set(o, [a EXCEPT !.pc = "detach", !.old = acl, !.undo = <<"removed">>])
               \/ /\ op[o].kind = "revise" /\ p # None /\ Set(o, [a EXCEPT !.pc = "respec"])
               \/ op[o].kind # "swap" /\ Set(o, [a EXCEPT !.pc = "save"])
    BY <1>6, <1>9 DEF Enter
  <1>12. {"plug", "detach", "respec", "save"} \subseteq Labels \cap Updating
    BY DEF Labels, Updating
  <1>13. /\ <<"attached">> \in Seq({"attached", "removed", "spec"})
         /\ <<"removed">> \in Seq({"attached", "removed", "spec"})
    OBVIOUS
  <1>14. op[o].kind \in {"swap", "gate"} => p # None
    BY <1>2 DEF Carries
  <1>15. ASSUME NEW n \in OpRecords, Set(o, n), Keen(n, op[o]), n.pc # "join", UNCHANGED keys
         PROVE  Sound'
    <2>1. UNCHANGED <<store, keys>>
      BY <1>3, <1>15
    <2> QED
      BY <1>1, <1>4, <1>15, <2>1, Tunes
  <1> HIDE DEF acl, auth
  <1>16. CASE /\ op[o].kind = "swap" /\ UNCHANGED keys
              /\ Set(o, [a EXCEPT !.pc = "plug", !.new = c, !.undo = <<"attached">>, !.old = auth])
    <2>1. PICK n : n = [a EXCEPT !.pc = "plug", !.new = c, !.undo = <<"attached">>, !.old = auth]
      OBVIOUS
    <2>2. c \in Plugins /\ "plug" \in Labels
      BY <1>10, <1>12 DEF Plugins
    <2>3. n \in OpRecords
      BY <1>7, <1>8, <1>13, <2>1, <2>2, Zenon DEF OpRecords
    <2>4. n.pc = "plug" /\ n.kind = a.kind /\ n.seen = a.seen /\ n.new = c /\ n.undo = <<"attached">>
      BY <1>7, <2>1, <2>3 DEF OpRecords
    <2>5. Keen(n, op[o])
      BY <1>7, <1>10, <1>12, <1>14, <1>16, <2>4 DEF Keen
    <2> QED
      BY <1>15, <1>16, <2>1, <2>3, <2>4, <2>5
  <1>17. CASE /\ op[o].kind = "gate" /\ UNCHANGED keys
              /\ Set(o, [a EXCEPT !.pc = "plug", !.new = <<o, "acl">>, !.undo = <<"attached">>])
    <2>1. PICK n : n = [a EXCEPT !.pc = "plug", !.new = <<o, "acl">>, !.undo = <<"attached">>]
      OBVIOUS
    <2>2. <<o, "acl">> \in Plugins /\ "plug" \in Labels
      BY <1>10, <1>12 DEF Plugins
    <2>3. n \in OpRecords
      BY <1>7, <1>13, <2>1, <2>2, Zenon DEF OpRecords
    <2>4. n.pc = "plug" /\ n.kind = a.kind /\ n.seen = a.seen /\ n.new = <<o, "acl">> /\ n.undo = <<"attached">>
      BY <1>7, <2>1, <2>3 DEF OpRecords
    <2>5. Keen(n, op[o])
      BY <1>7, <1>10, <1>12, <1>14, <1>17, <2>4 DEF Keen
    <2> QED
      BY <1>15, <1>17, <2>1, <2>3, <2>4, <2>5
  <1>18. CASE /\ op[o].kind = "gate" /\ acl # None /\ UNCHANGED keys
              /\ Set(o, [a EXCEPT !.pc = "detach", !.old = acl, !.undo = <<"removed">>])
    <2>1. PICK n : n = [a EXCEPT !.pc = "detach", !.old = acl, !.undo = <<"removed">>]
      OBVIOUS
    <2>2. "detach" \in Labels /\ acl \in Configs
      BY <1>8, <1>12, <1>18 DEF Plugins
    <2>3. n \in OpRecords
      BY <1>7, <1>8, <1>13, <2>1, <2>2, Zenon DEF OpRecords
    <2>4. n.pc = "detach" /\ n.kind = a.kind /\ n.seen = a.seen /\ n.old = acl /\ n.undo = <<"removed">>
      BY <1>7, <2>1, <2>3 DEF OpRecords
    <2>5. Keen(n, op[o])
      BY <1>7, <1>12, <1>14, <1>18, <2>2, <2>4 DEF Keen
    <2> QED
      BY <1>15, <1>18, <2>1, <2>3, <2>4, <2>5
  <1>19. CASE /\ UNCHANGED keys
              /\ \/ op[o].kind = "revise" /\ p # None /\ Set(o, [a EXCEPT !.pc = "respec"])
                 \/ op[o].kind # "swap" /\ Set(o, [a EXCEPT !.pc = "save"])
    <2>1. PICK l \in {"respec", "save"} : /\ Set(o, [a EXCEPT !.pc = l]) /\ (l = "respec" => p # None)
                                          /\ op[o].kind # "swap"
      BY <1>19
    <2>2. PICK n : n = [a EXCEPT !.pc = l]
      OBVIOUS
    <2>3. /\ n \in OpRecords /\ n.pc = l /\ n.kind = a.kind /\ n.seen = a.seen /\ n.undo = a.undo /\ n.bad = a.bad
          /\ n.old = a.old
      BY <1>7, <1>12, <2>2, Moves
    <2>4. Keen(n, op[o])
      <3>1. op[o].undo # <<>> \/ op[o].bad => p # None
        BY <1>2 DEF Carries, Updates
      <3> QED
        BY <1>2, <1>7, <1>12, <2>1, <2>3, <3>1 DEF Keen, Carries
    <2> QED
      BY <1>15, <1>19, <2>1, <2>2, <2>3, <2>4
  <1> QED
    BY <1>5, <1>11, <1>16, <1>17, <1>18, <1>19

\* The action Respec keeps the invariant.
LEMMA RespecSound ==
  ASSUME Sound, NEW o \in Ops, Respec(o)
  PROVE  Sound'
  <1>1. op[o].pc = "respec" /\ op[o].pc \in Updating \ {"note"} /\ op[o].pc \in Throwing
    BY DEF Respec, At, Updating, Throwing
  <1>2. /\ op[o] \in OpRecords /\ Carries(o, op[o]) /\ op[o].kind \in Updates /\ o \in Ids
        /\ op[o].pc \notin Ended /\ op[o].seen # o
    BY <1>1, InUpdate
  <1>3. op[o].seen # None
    BY <1>1, <1>2 DEF Carries, Updates
  <1>4. /\ op[o].seen \in Ids /\ proxyKey[op[o].seen] = o
        /\ gw[op[o].seen] \in Proxies /\ gw[op[o].seen].on \subseteq gw[op[o].seen].cfgs
    BY <1>1, <1>3, InUpdate
  <1>5. PICK r : r = [op[o] EXCEPT !.undo = <<"spec">>]
    OBVIOUS
  <1>6. PICK g : g = [gw[op[o].seen] EXCEPT !.spec = o]
    OBVIOUS
  <1>7. g \in Proxies /\ g.on \subseteq g.cfgs
    <2>1. o \in Refs
      BY <1>2 DEF Refs
    <2>2. g \in Proxies
      BY <1>4, <1>6, <2>1, Zenon DEF Proxies
    <2> QED
      BY <1>4, <1>6, <2>2, ProxyFields
  <1>8. /\ r \in OpRecords /\ r.kind = op[o].kind /\ r.seen = op[o].seen /\ r.undo = <<"spec">>
        /\ r.new = op[o].new /\ r.old = op[o].old
    <2>1. <<"spec">> \in Seq({"attached", "removed", "spec"})
      OBVIOUS
    <2>2. r \in OpRecords
      BY <1>2, <1>5, <2>1, Zenon DEF OpRecords
    <2> QED
      BY <1>2, <1>5, <2>2 DEF OpRecords
  <1>9. /\ gw' = gw \/ (gw' = [gw EXCEPT ![op[o].seen] = g] /\ gw[op[o].seen].at # "none")
        /\ \/ Error(o) \/ \E l \in {"save", "unwind"} : Set(o, [r EXCEPT !.pc = l])
        /\ faults' \in 0 .. MaxFaults /\ UNCHANGED <<store, keys, settling, vanished>>
    <2>1. gw \in [Ids -> Proxies]
      BY DEF Sound, Base, Types
    <2>2. [gw EXCEPT ![op[o].seen].spec = o] = [gw EXCEPT ![op[o].seen] = g]
      BY <1>4, <1>6, <2>1
    <2> QED
      BY <1>5, <1>8, <2>2, Faulty DEF Respec
  <1>10. Gateway(o) /\ gw'[o] = gw[o] /\ Store(o) /\ UNCHANGED <<row, conv, cleanup>>
    <2>1. settling' \subseteq Ids /\ vanished' \subseteq Ids /\ gw \in [Ids -> Proxies]
      BY <1>9 DEF Sound, Base, Types
    <2>2. CASE gw' = gw
      BY <1>9, <2>2, Unbroken DEF edge, store
    <2>3. CASE gw' # gw
      <3>1. Gateway(o)
        BY <1>4, <1>7, <1>9, <2>1, <2>3, Writes
      <3> QED
        BY <1>2, <1>4, <1>9, <2>1, <3>1, Unbroken DEF store
    <2> QED
      BY <2>2, <2>3
  <1>11. CASE Error(o)
    BY <1>1, <1>9, <1>10, <1>11, Throws
  <1>12. CASE \E l \in {"save", "unwind"} : Set(o, [r EXCEPT !.pc = l])
    <2>1. PICK l \in {"save", "unwind"} : Set(o, [r EXCEPT !.pc = l])
      BY <1>12
    <2>2. PICK n : n = [r EXCEPT !.pc = l]
      OBVIOUS
    <2>3. l \in Labels /\ l \in Updating
      BY DEF Labels, Updating
    <2>4. n \in OpRecords /\ n.pc = l /\ n.kind = r.kind /\ n.seen = r.seen /\ n.undo = r.undo /\ n.new = r.new
      BY <1>8, <2>2, <2>3, Moves
    <2>5. op[o].kind = "swap" => op[o].new \in Ids \X Flavours
      BY <1>1, <1>2 DEF Carries
    <2>6. Keen(n, op[o])
      BY <1>3, <1>8, <2>3, <2>4, <2>5 DEF Keen
    <2> QED
      BY <1>1, <1>9, <1>10, <2>1, <2>2, <2>4, <2>6, Tunes
  <1> QED
    BY <1>9, <1>11, <1>12

\* The action Save keeps the invariant.
LEMMA SaveSound ==
  ASSUME Sound, NEW o \in Ops, Save(o)
  PROVE  Sound'
  <1>1. op[o].pc = "save" /\ op[o].pc \in Updating \ {"note"} /\ op[o].pc \in Throwing
    BY DEF Save, At, Updating, Throwing
  <1>2. /\ op[o] \in OpRecords /\ Carries(o, op[o]) /\ op[o].kind \in Updates /\ o \in Ids
        /\ op[o].pc \notin Ended /\ gw[o].at = "none" /\ row \in RowRecords
    BY <1>1, InUpdate
  <1>3. /\ op[o].api \in RowRecords /\ op[o].api.owned \in Owned /\ op[o].api.acl \in BOOLEAN /\ op[o].new \in Plugins
    BY <1>2, Fields DEF RowRecords
  <1> DEFINE r == op[o]
  <1>4. PICK b : b = IF r.new # None THEN r.new ELSE IF r.api.acl THEN None ELSE r.api.owned.acl
    OBVIOUS
  <1>5. PICK owned : owned = IF r.kind = "swap" THEN [r.api.owned EXCEPT !.auth = r.new]
                             ELSE [r.api.owned EXCEPT !.acl = b]
    OBVIOUS
  <1>6. PICK w : w = CASE r.kind = "swap" -> [row EXCEPT !.auth = r.new[2], !.owned = owned]
                       [] r.kind = "gate" -> [row EXCEPT !.acl = ~r.api.acl, !.owned = owned]
                       [] OTHER -> [row EXCEPT !.spec = o]
    OBVIOUS
  <1>7. PICK c : c = IF r.kind = "revise" /\ r.api.state = "repair_required" /\ conv # NoConv
                     THEN [conv EXCEPT !.cspec = o] ELSE conv
    OBVIOUS
  <1>8. /\ UNCHANGED edge /\ faults' \in 0 .. MaxFaults
        /\ \/ Error(o) /\ UNCHANGED <<store, keys>>
           \/ /\ row.there /\ row' = w /\ conv' = c /\ Leave(o, "done") /\ UNCHANGED <<cleanup, reported>>
    BY <1>4, <1>5, <1>6, <1>7, Faulty DEF Save, Commit
  <1>9. CASE Error(o) /\ UNCHANGED <<store, keys>>
    BY <1>1, <1>8, <1>9, ThrowsAtOnce
  <1>10. CASE row.there /\ row' = w /\ conv' = c /\ Leave(o, "done") /\ UNCHANGED <<cleanup, reported>>
    <2>1. owned \in Owned
      <3>1. b \in Plugins
        <4>1. r.api.owned.acl \in Plugins
          BY <1>3 DEF Owned
        <4> QED
          BY <1>3, <1>4, <4>1 DEF Plugins
      <3>2. CASE r.kind = "swap"
        <4>1. owned = [r.api.owned EXCEPT !.auth = r.new]
          BY <1>5, <3>2
        <4> QED
          BY <1>3, <4>1, Zenon DEF Owned
      <3>3. CASE r.kind # "swap"
        <4>1. owned = [r.api.owned EXCEPT !.acl = b]
          BY <1>5, <3>3
        <4> QED
          BY <1>3, <3>1, <4>1, Zenon DEF Owned
      <3> QED
        BY <3>2, <3>3
    <2>2. w \in RowRecords /\ w.there = row.there /\ w.proxy = row.proxy /\ w.state = row.state
      <3>1. CASE r.kind = "swap"
        <4>1. PICK f : f = r.new[2]
          OBVIOUS
        <4>2. f \in Flavours
          BY <1>1, <1>2, <3>1, <4>1 DEF Carries
        <4>3. w = [row EXCEPT !.auth = f, !.owned = owned]
          BY <1>6, <3>1, <4>1
        <4>4. w \in RowRecords
          BY <1>2, <2>1, <4>2, <4>3, Zenon DEF RowRecords
        <4> QED
          BY <1>2, <4>3, <4>4 DEF RowRecords
      <3>2. CASE r.kind = "gate"
        <4>1. PICK d \in BOOLEAN : d = ~ r.api.acl
          BY <1>3
        <4>2. w = [row EXCEPT !.acl = d, !.owned = owned]
          BY <1>6, <3>2, <4>1
        <4>3. w \in RowRecords
          BY <1>2, <2>1, <4>1, <4>2, Zenon DEF RowRecords
        <4> QED
          BY <1>2, <4>2, <4>3 DEF RowRecords
      <3>3. CASE r.kind \notin {"swap", "gate"}
        <4>1. w = [row EXCEPT !.spec = o] /\ o \in Refs
          BY <1>2, <1>6, <3>3 DEF Refs
        <4>2. w \in RowRecords
          BY <1>2, <4>1, Zenon DEF RowRecords
        <4> QED
          BY <1>2, <4>1, <4>2 DEF RowRecords
      <3> QED
        BY <3>1, <3>2, <3>3
    <2>3. /\ c \in ConvRecords \cup {NoConv} /\ c.p = conv.p /\ (c = NoConv <=> conv = NoConv)
      <3>1. conv \in ConvRecords \cup {NoConv} /\ None \notin Ids /\ NoConv.p = None
        BY PublishingAssumption DEF Sound, Base, Types, Ids, NoConv
      <3>2. CASE c = conv
        BY <3>1, <3>2
      <3>3. CASE conv # NoConv /\ c = [conv EXCEPT !.cspec = o]
        <4>1. conv \in ConvRecords /\ conv.p \in Ids
          BY <3>1, <3>3 DEF ConvRecords
        <4>2. c \in ConvRecords /\ c.p = conv.p
          BY <1>2, <3>3, <4>1, ConvUpdates, ConvKeeps DEF Refs
        <4> QED
          BY <3>1, <3>3, <4>1, <4>2
      <3> QED
        BY <1>7, <3>2, <3>3
    <2>4. Kept'
      BY <1>10, <2>2, <2>3 DEF Kept, Sound, Base
    <2>5. Store(o)
      BY <1>10, <2>2, <2>3, <2>4 DEF Store, Sound, Base, Types, Lead
    <2>6. Gateway(o) /\ gw' = gw
      BY <1>8, Unbroken DEF edge
    <2> QED
      BY <1>2, <1>10, <2>5, <2>6, Leaves
  <1> QED
    BY <1>8, <1>9, <1>10

\* The undo of an update, whole or half, leaves a proxy whose plugins in use are among its plugins.
LEMMA UndoneFits ==
  ASSUME NEW g \in Proxies, g.on \subseteq g.cfgs, NEW r \in OpRecords, r.kind \in Updates, r.undo # <<>>,
         \A i \in DOMAIN r.undo : r.undo[i] = "removed" => r.old \in Configs
  PROVE  /\ Undone(g, r) \in Proxies /\ Undone(g, r).on \subseteq Undone(g, r).cfgs
         /\ HalfUndone(g, r) \in Proxies /\ HalfUndone(g, r).on \subseteq HalfUndone(g, r).cfgs
  <1>1. g.cfgs \in SUBSET Configs /\ g.on \in SUBSET Configs /\ r.api.spec \in Refs
    BY ProxyFields, Fields DEF RowRecords
  <1>2. PICK step : step = r.undo[Len(r.undo)]
    OBVIOUS
  <1>3. step = "removed" => r.old \in Configs
    <2>1. r.undo \in Seq({"attached", "removed", "spec"})
      BY Fields
    <2>2. Len(r.undo) \in DOMAIN r.undo
      BY <2>1
    <2> QED
      BY <1>2, <2>2
  <1> DEFINE added == g.cfgs \cup {r.old}
             joined == g.on \cup {r.old}
             kept == g.cfgs \ {r.new}
             left == g.on \ {r.new}
  <1>4. PICK a : a = [g EXCEPT !.cfgs = added, !.on = joined]
    OBVIOUS
  <1>5. PICK b : b = [g EXCEPT !.cfgs = kept, !.on = left]
    OBVIOUS
  <1>6. PICK c : c = [g EXCEPT !.spec = r.api.spec]
    OBVIOUS
  <1>7. PICK d : d = [g EXCEPT !.cfgs = added]
    OBVIOUS
  <1>8. PICK e : e = [g EXCEPT !.on = left]
    OBVIOUS
  <1>9. /\ kept \in SUBSET Configs /\ left \in SUBSET Configs
        /\ step = "removed" => added \in SUBSET Configs /\ joined \in SUBSET Configs
    BY <1>1, <1>3
  <1>10. b \in Proxies /\ c \in Proxies /\ e \in Proxies /\ (step = "removed" => a \in Proxies /\ d \in Proxies)
    <2>1. b \in Proxies /\ c \in Proxies /\ e \in Proxies
      BY <1>1, <1>5, <1>6, <1>8, <1>9, Zenon DEF Proxies
    <2>2. CASE step = "removed"
      BY <1>1, <1>4, <1>7, <1>9, <2>1, <2>2, Zenon DEF Proxies
    <2> QED
      BY <2>1, <2>2
  <1>11. /\ b.on \subseteq b.cfgs /\ c.on \subseteq c.cfgs /\ e.on \subseteq e.cfgs
         /\ a.on \subseteq a.cfgs /\ d.on \subseteq d.cfgs
    BY <1>4, <1>5, <1>6, <1>7, <1>8, ProxyFields
  <1>12. Undone(g, r) = CASE step = "removed" -> a [] step = "attached" -> b [] OTHER -> c
    BY <1>2, <1>4, <1>5, <1>6 DEF Undone
  <1>13. HalfUndone(g, r) = CASE step = "removed" -> d [] step = "attached" -> e [] OTHER -> g
    BY <1>2, <1>7, <1>8 DEF HalfUndone
  <1> QED
    BY <1>10, <1>11, <1>12, <1>13

\* The action Unwind keeps the invariant.
LEMMA UnwindSound ==
  ASSUME Sound, NEW o \in Ops, Unwind(o)
  PROVE  Sound'
  <1>1. op[o].pc = "unwind" /\ op[o].pc \in Updating \ {"note"} /\ op[o].undo # <<>>
    BY DEF Unwind, At, Updating
  <1>2. /\ op[o] \in OpRecords /\ Carries(o, op[o]) /\ op[o].kind \in Updates /\ o \in Ids
        /\ op[o].pc \notin Ended /\ op[o].seen # o
    BY <1>1, InUpdate
  <1>3. op[o].seen # None /\ \A i \in DOMAIN op[o].undo : op[o].undo[i] = "removed" => op[o].old \in Configs
    BY <1>1, <1>2 DEF Carries, Updates
  <1>4. /\ op[o].seen \in Ids /\ proxyKey[op[o].seen] = o
        /\ gw[op[o].seen] \in Proxies /\ gw[op[o].seen].on \subseteq gw[op[o].seen].cfgs
    BY <1>1, <1>3, InUpdate
  <1>5. PICK g : g = Undone(gw[op[o].seen], op[o])
    OBVIOUS
  <1>6. PICK h : h = HalfUndone(gw[op[o].seen], op[o])
    OBVIOUS
  <1>7. g \in Proxies /\ g.on \subseteq g.cfgs /\ h \in Proxies /\ h.on \subseteq h.cfgs
    BY <1>1, <1>2, <1>3, <1>4, <1>5, <1>6, UndoneFits
  <1>8. PICK rest : rest = SubSeq(op[o].undo, 1, Len(op[o].undo) - 1)
    OBVIOUS
  <1>9. /\ rest \in Seq({"attached", "removed", "spec"})
        /\ \A i \in DOMAIN rest : i \in DOMAIN op[o].undo /\ rest[i] = op[o].undo[i]
    <2>1. op[o].undo \in Seq({"attached", "removed", "spec"}) /\ Len(op[o].undo) \in Nat /\ Len(op[o].undo) > 0
      BY <1>1, <1>2, Fields
    <2> QED
      BY <1>8, <2>1
  <1>10. PICK m : m = [op[o] EXCEPT !.undo = rest]
    OBVIOUS
  <1>11. PICK n : n = [op[o] EXCEPT !.undo = rest, !.bad = TRUE]
    OBVIOUS
  <1>12. /\ \/ gw' = gw
            \/ gw' = [gw EXCEPT ![op[o].seen] = g] /\ gw[op[o].seen].at # "none"
            \/ gw' = [gw EXCEPT ![op[o].seen] = h] /\ gw[op[o].seen].at # "none"
         /\ Set(o, m) \/ Set(o, n)
         /\ faults' \in 0 .. MaxFaults /\ UNCHANGED <<store, keys, settling, vanished>>
    BY <1>5, <1>6, <1>8, <1>10, <1>11, Faulty DEF Unwind
  <1>13. Gateway(o) /\ gw'[o] = gw[o]
    <2>1. settling' \subseteq Ids /\ vanished' \subseteq Ids /\ gw \in [Ids -> Proxies]
      BY <1>12 DEF Sound, Base, Types
    <2>2. CASE gw' = gw
      BY <1>12, <2>2, Unbroken DEF edge
    <2>3. ASSUME NEW x \in {g, h}, gw' = [gw EXCEPT ![op[o].seen] = x], gw[op[o].seen].at # "none"
          PROVE  Gateway(o) /\ gw'[o] = gw[o]
      <3>1. x \in Proxies /\ x.on \subseteq x.cfgs
        BY <1>7
      <3>2. Gateway(o)
        BY <1>4, <1>12, <2>1, <2>3, <3>1, Writes
      <3> QED
        BY <1>2, <1>4, <2>1, <2>3, <3>2
    <2> QED
      BY <1>12, <2>2, <2>3
  <1>14. /\ m \in OpRecords /\ m.pc = "unwind" /\ m.kind = op[o].kind /\ m.seen = op[o].seen /\ m.undo = rest
         /\ m.old = op[o].old
    <2>1. m \in OpRecords
      BY <1>2, <1>9, <1>10, Zenon DEF OpRecords
    <2> QED
      BY <1>1, <1>2, <1>10, <2>1 DEF OpRecords
  <1>15. /\ n \in OpRecords /\ n.pc = "unwind" /\ n.kind = op[o].kind /\ n.seen = op[o].seen /\ n.undo = rest
         /\ n.old = op[o].old
    <2>1. n \in OpRecords
      BY <1>2, <1>9, <1>11, Zenon DEF OpRecords
    <2> QED
      BY <1>1, <1>2, <1>11, <2>1 DEF OpRecords
  <1>16. Keen(m, op[o]) /\ Keen(n, op[o])
    BY <1>1, <1>3, <1>9, <1>14, <1>15 DEF Keen
  <1>17. CASE Set(o, m)
    BY <1>1, <1>12, <1>13, <1>14, <1>16, <1>17, Tunes
  <1>18. CASE Set(o, n)
    BY <1>1, <1>12, <1>13, <1>15, <1>16, <1>18, Tunes
  <1> QED
    BY <1>12, <1>17, <1>18

\* The action Unwound keeps the invariant.
LEMMA UnwoundSound ==
  ASSUME Sound, NEW o \in Ops, Unwound(o)
  PROVE  Sound'
  <1>1. op[o].pc = "unwind" /\ op[o].pc \in Updating \ {"note"}
    BY DEF Unwound, At, Updating
  <1>2. /\ op[o] \in OpRecords /\ Carries(o, op[o]) /\ op[o].kind \in Updates /\ o \in Ids
        /\ op[o].pc \notin Ended /\ gw[o].at = "none"
    BY <1>1, InUpdate
  <1>3. UNCHANGED <<edge, store>> /\ faults' \in 0 .. MaxFaults
    BY Faulty DEF Unwound
  <1>4. Gateway(o) /\ Store(o) /\ gw' = gw
    BY <1>3, Unbroken DEF edge
  <1>5. CASE Leave(o, "failed")
    BY <1>2, <1>4, <1>5, Leaves
  <1>6. CASE op[o].bad /\ Goto(o, "note") /\ UNCHANGED keys
    <2>1. PICK n : n = [op[o] EXCEPT !.pc = "note"]
      OBVIOUS
    <2>2. "note" \in Labels /\ "note" \in Updating
      BY DEF Labels, Updating
    <2>3. /\ n \in OpRecords /\ n.pc = "note" /\ n.kind = op[o].kind /\ n.seen = op[o].seen
          /\ n.undo = op[o].undo /\ n.old = op[o].old
      BY <1>2, <2>1, <2>2, Moves
    <2>4. Keen(n, op[o])
      BY <1>1, <1>2, <1>6, <2>2, <2>3 DEF Keen, Carries, Updates
    <2>5. Set(o, n) /\ UNCHANGED <<store, keys>>
      BY <1>3, <1>6, <2>1 DEF Goto
    <2> QED
      BY <1>1, <1>4, <2>3, <2>4, <2>5, Tunes
  <1> QED
    BY <1>5, <1>6 DEF Unwound

-----------------------------------------------------------------------------
(* The world around it.                                                    *)

\* A crash ends the operation and gives back its keys; it changes no row and no proxy.
LEMMA CrashSound ==
  ASSUME Sound, NEW o \in Ops, Crash(o)
  PROVE  Sound'
  <1>1. op[o].pc \notin Ended /\ op[o] \in OpRecords /\ o \in Ids
    BY Knows DEF Crash, Ended
  <1>2. PICK s \in {op[o].seen, o} : s = IF Building(o) THEN o ELSE op[o].seen
    OBVIOUS
  <1>3. PICK n : n = [Idle EXCEPT !.kind = op[o].kind, !.pc = "crashed", !.seen = s]
    OBVIOUS
  <1>4. Set(o, n) /\ Release(o) /\ UNCHANGED <<edge, store>> /\ faults' \in 0 .. MaxFaults
    BY <1>2, <1>3, Faulty DEF Crash
  <1>5. op[o].kind \in AllKinds \cup {"none"} /\ "crashed" \in Labels /\ "crashed" \in Ended /\ s \in Refs
    BY <1>1, Fields DEF Labels, Ended, Refs
  <1>6. n \in OpRecords /\ n.pc = "crashed" /\ n.seen = s
    <2>1. n \in OpRecords
      BY <1>3, <1>5, IdleRecord, Zenon DEF OpRecords
    <2> QED
      BY <1>3, <2>1 DEF Idle
  <1>7. Gateway(o) /\ Store(o) /\ Keys(o)
    BY <1>4, Unbroken, Released
  <1> QED
    BY <1>1, <1>4, <1>5, <1>6, <1>7, Stops

\* Edge applies a removal it had accepted, or an operator deletes a proxy behind the portal's back.
LEMMA VanishSound ==
  ASSUME Sound, NEW p \in Ids, Settle(p) \/ Lose(p)
  PROVE  Sound'
  <1>1. /\ gw' = [gw EXCEPT ![p] = NoProxy] /\ UNCHANGED <<row, conv, cleanup, reported, apiKey, proxyKey, op>>
        /\ settling' \subseteq settling /\ vanished' \subseteq vanished \cup {p} /\ faults' \in 0 .. MaxFaults
    BY Faulty DEF Settle, Lose, store, keys
  <1>2. gw \in [Ids -> Proxies] /\ Gates /\ Kept
    BY DEF Sound, Base, Types
  <1>3. gw' \in [Ids -> Proxies] /\ \A q \in Ids : gw'[q] = gw[q] \/ gw'[q].at = "none"
    BY <1>1, <1>2, NoProxyRecord
  <1>4. Types' /\ Kept' /\ Gates'
    <2>1. Types'
      BY <1>1, <1>3 DEF Sound, Base, Types
    <2>2. Kept'
      BY <1>1, <1>2 DEF Kept
    <2>3. Gates'
      BY <1>1, <1>2, NoProxyRecord DEF Gates
    <2> QED
      BY <2>1, <2>2, <2>3
  <1>5. ASSUME NEW o \in Ops
        PROVE  Fits(o, op'[o]) /\ Own(o, op[o])' /\ Assured(o, op[o])' /\ Tuned(o, op[o])'
    <2>1. /\ op[o] \in OpRecords /\ o \in Ids
          /\ Fits(o, op[o]) /\ Own(o, op[o]) /\ Assured(o, op[o]) /\ Tuned(o, op[o])
      BY Knows
    <2>2. Fits(o, op'[o])
      BY <1>1, <2>1
    <2>3. Own(o, op[o])'
      BY <1>1, <1>3, <2>1 DEF Own
    <2>4. Tuned(o, op[o])'
      <3>1. op[o].seen # None => op[o].seen \in Ids
        BY <2>1, Fields DEF Refs
      <3> QED
        BY <1>1, <1>3, <2>1, <3>1 DEF Tuned
    <2>5. Assured(o, op[o])'
      <3>1. row.proxy # None => row.proxy \in Ids
        BY DEF Sound, Base, Types, RowRecords, Refs
      <3> QED
        BY <1>1, <1>3, <2>1, <3>1 DEF Assured
    <2> QED
      BY <2>2, <2>3, <2>4, <2>5
  <1>6. ProxiesAreAccountedFor'
    BY <1>1, <1>3 DEF Sound, ProxiesAreAccountedFor
  <1> QED
    BY <1>4, <1>5, <1>6 DEF Sound, Base

-----------------------------------------------------------------------------
(* The invariant.                                                          *)

\* The invariant holds at the start.
LEMMA InitSound == Init => Sound
  <1>1. SUFFICES ASSUME Init PROVE Sound
    OBVIOUS
  <1>2. NoRow \in RowRecords /\ NoRow.there = FALSE /\ NoRow.proxy = None
    BY DEF NoRow, RowRecords, States, Flavours, Levels, Refs, Owned, Plugins
  <1>3. /\ row \in RowRecords
        /\ \/ row.there = FALSE /\ row.proxy = None
           \/ row.there /\ row.proxy = Origin /\ row.state = "deployed" /\ OwnedSet(row) \in SUBSET Configs
    <2>1. CASE row = NoRow
      BY <1>2, <2>1
    <2>2. ASSUME NEW s \in Shapes, row = Deployed(Origin, s)
          PROVE  row \in RowRecords /\ row.there /\ row.proxy = Origin /\ row.state = "deployed"
                 /\ OwnedSet(row) \in SUBSET Configs
      <3>1. Origin \in Ids
        BY DEF Ids
      <3> QED
        BY <2>2, <3>1, DeployedRow
    <2> QED
      BY <1>1, <2>1, <2>2 DEF Init
  <1>4. PICK g : g = ServedAs(row)
    OBVIOUS
  <1>5. row.there => g \in Proxies /\ g.on \subseteq g.cfgs
    BY <1>3, <1>4 DEF ServedAs, Proxies, RowRecords, Refs
  <1>6. /\ gw = [p \in Ids |-> IF row.there /\ p = row.proxy THEN g ELSE NoProxy]
        /\ conv = NoConv /\ cleanup = NoCleanup /\ apiKey = None /\ proxyKey = [p \in Ids |-> None]
        /\ op = [o \in Ops |-> Idle] /\ reported = {} /\ settling = {} /\ vanished = {} /\ faults = 0
    BY <1>1, <1>4 DEF Init
  <1>7. gw \in [Ids -> Proxies] /\ Gates /\ \A p \in Ids : gw[p].at # "none" => row.there /\ row.proxy = p
    <2>1. \A p \in Ids : gw[p] \in Proxies /\ gw[p].on \subseteq gw[p].cfgs
                         /\ (gw[p].at # "none" => row.there /\ row.proxy = p)
      BY <1>5, <1>6, NoProxyRecord
    <2> QED
      BY <1>6, <2>1 DEF Gates
  <1>8. NoCleanup \in Cleanups /\ NoCleanup.p = None /\ NoConv.p = None
    BY DEF NoCleanup, Cleanups, Refs, NoConv
  <1>9. Types
    <2>1. op \in [Ops -> OpRecords]
      BY <1>6, IdleRecord
    <2>2. faults \in 0 .. MaxFaults
      BY <1>6, PublishingAssumption
    <2> QED
      BY <1>3, <1>6, <1>7, <1>8, <2>1, <2>2 DEF Types
  <1>10. Kept
    BY <1>3, <1>6, <1>8, PublishingAssumption DEF Kept
  <1>11. ASSUME NEW o \in Ops
         PROVE  Fits(o, op[o]) /\ Own(o, op[o]) /\ Assured(o, op[o]) /\ Tuned(o, op[o])
    <2>1. PICK r : r = Idle
      OBVIOUS
    <2>2. /\ op[o] = r /\ r = Idle /\ r.kind = "none" /\ r.pc = "idle" /\ r.seen = None
          /\ r.undo = <<>> /\ r.bad = FALSE
          /\ r.known = {} /\ \A q \in Ops : op[q].seen = None
      BY <1>6, <2>1 DEF Idle
    <2>3. Fits(o, r)
      <3>1. Home(r) /\ Goal(r)
        BY <2>2 DEF Home, Goal, Updates
      <3>2. Carries(o, r)
        BY <2>2 DEF Carries, Updates
      <3> QED
        BY <3>1, <3>2 DEF Fits
    <2>4. Own(o, r)
      <3>1. row.proxy # o /\ conv.p # o /\ o # None /\ gw[o].at = "none" /\ o \in Ids
        BY <1>3, <1>6, <1>7, <1>8, PublishingAssumption DEF Ids
      <3> QED
        BY <2>2, <3>1 DEF Own
    <2>5. Assured(o, r) /\ Tuned(o, r)
      BY <2>2 DEF Assured, Sole, ByApi, Tuned, Updates
    <2> QED
      BY <2>2, <2>3, <2>4, <2>5
  <1>12. ProxiesAreAccountedFor
    BY <1>7 DEF ProxiesAreAccountedFor
  <1> QED
    BY <1>7, <1>9, <1>10, <1>11, <1>12 DEF Sound, Base

\* It is kept by every step of an operation,
LEMMA StepSound ==
  ASSUME Sound, NEW o \in Ops, Step(o)
  PROVE  Sound'
  <1>1. CASE StartPublish(o) \/ (\E k \in AllKinds : Start(o, k)) \/ TakeApiKey(o) \/ TakeProxyKey(o)
    BY <1>1, StartPublishSound, StartSound, TakeApiKeySound, TakeProxyKeySound
  <1>2. CASE CreateStaged(o) \/ Attach(o) \/ Associate(o) \/ Stamp(o) \/ Cutover(o) \/ Stamped(o) \/ Adopt(o)
    BY <1>2, CreateStagedSound, AttachSound, AssociateSound, StampSound, CutoverSound, AdoptSound
  <1>3. CASE Withdraw(o) \/ Note(o) \/ Salvage(o) \/ Purge(o) \/ Close(o)
    BY <1>3, WithdrawSound, NoteSound, SalvageSound, PurgeSound, CloseSound
  <1>4. CASE Validate(o) \/ Orphan(o) \/ Flag(o)
    BY <1>4, ValidateSound, OrphanSound, FlagSound
  <1>5. CASE Enter(o) \/ Plug(o) \/ Join(o) \/ Detach(o) \/ Drop(o) \/ Respec(o) \/ Save(o) \/ Unwind(o) \/ Unwound(o)
    BY <1>5, EnterSound, PlugSound, JoinSound, DetachSound, RespecSound, SaveSound, UnwindSound, UnwoundSound
  <1>6. CASE Plan(o) \/ Authority(o) \/ Strike(o) \/ Send(o) \/ Ack(o) \/ Attempt(o) \/ Build(o) \/ Look(o)
    BY <1>6, PlanSound, AuthoritySound, StrikeSound, SendSound, AckSound, AttemptSound, BuildSound, LookSound
  <1>7. CASE Reattach(o) \/ Rejoin(o) \/ Recut(o) \/ Finish(o) \/ Judge(o) \/ Partial(o) \/ Report(o)
             \/ Recover(o) \/ Relapse(o)
    BY <1>7, ReattachSound, RejoinSound, RecutSound, FinishSound, JudgeSound, PartialSound, ReportSound, RecoverSound
  <1>8. CASE Custody(o) \/ Delete(o) \/ Erase(o) \/ Fail(o) \/ Crash(o)
    BY <1>8, CustodySound, DeleteSound, EraseSound, FailSound, CrashSound
  <1> QED
    BY <1>1, <1>2, <1>3, <1>4, <1>5, <1>6, <1>7, <1>8 DEF Step

\* and by a step that changes nothing.
LEMMA StutterSound ==
  ASSUME Sound, UNCHANGED vars
  PROVE  Sound'
  <1>1. UNCHANGED <<gw, row, conv, cleanup, apiKey, proxyKey, op, reported, settling, vanished, faults>>
    BY DEF vars
  <1>2. Types' /\ Kept' /\ Gates' /\ ProxiesAreAccountedFor'
    BY <1>1 DEF Sound, Base, Types, Kept, Gates, ProxiesAreAccountedFor
  <1>3. ASSUME NEW o \in Ops
        PROVE  Fits(o, op'[o]) /\ Own(o, op[o])' /\ Assured(o, op[o])' /\ Tuned(o, op[o])'
    BY <1>1, Knows DEF Own, Assured, Tuned
  <1> QED
    BY <1>2, <1>3 DEF Sound, Base

\* Every behaviour keeps the invariant.
LEMMA AlwaysSound == Spec => []Sound
  <1>1. Sound /\ [Next]_vars => Sound'
    <2>1. SUFFICES ASSUME Sound, [Next]_vars PROVE Sound'
      OBVIOUS
    <2>2. CASE \E o \in Ops : Step(o)
      BY <2>1, <2>2, StepSound
    <2>3. CASE \E p \in Ids : Settle(p) \/ Lose(p)
      BY <2>1, <2>3, VanishSound
    <2>4. CASE UNCHANGED vars
      BY <2>1, <2>4, StutterSound
    <2> QED
      BY <2>1, <2>2, <2>3, <2>4 DEF Next
  <1> QED
    BY <1>1, InitSound, PTL DEF Spec

(***************************************************************************)
(* Type correctness.  The plugins in use on a proxy are among its plugins, *)
(* a row without a proxy is one for repair, and a conversion journal is    *)
(* about the proxy of a row that is there, whatever fails and however      *)
(* often.                                                                  *)
(***************************************************************************)
THEOREM TypeCorrect == Spec => []PublishingTypeOK
  <1>1. Sound => PublishingTypeOK
    <2>1. SUFFICES ASSUME Sound PROVE PublishingTypeOK
      OBVIOUS
    <2>2. Types /\ Kept /\ Gates
      BY <2>1 DEF Sound, Base
    <2>3. \A p \in Ids : /\ gw[p].at \in {"none", "staged", "public"} /\ gw[p].level \in Levels
                         /\ gw[p].spec \in Ids \cup {None}
                         /\ gw[p].cfgs \subseteq Configs /\ gw[p].on \subseteq gw[p].cfgs
      BY <2>2, ProxyFields DEF Types, Gates, Refs
    <2>4. /\ row.there \in BOOLEAN /\ row.proxy \in Ids \cup {None} /\ row.spec \in Ids \cup {None}
          /\ row.state \in {"deployed", "repair_required"} /\ row.auth \in Flavours /\ row.acl \in BOOLEAN
          /\ row.level \in Levels /\ row.owned \in Owned
      BY <2>2 DEF Types, RowRecords, States, Refs
    <2>5. OwnedSet(row) \subseteq Configs
      BY <2>4 DEF OwnedSet, Owned, Plugins
    <2>6. conv.p \in Ids \cup {None}
      BY <2>2 DEF Types, ConvRecords, NoConv
    <2>7. cleanup.p \in Ids \cup {None} /\ cleanup.acked \in BOOLEAN
      BY <2>2 DEF Types, Cleanups, Refs
    <2> QED
      BY <2>2, <2>3, <2>4, <2>5, <2>6, <2>7 DEF PublishingTypeOK, Types, Kept
  <1> QED
    BY <1>1, AlwaysSound, PTL

(***************************************************************************)
(* No proxy is lost.  A proxy that a publish or a restore has built on the *)
(* gateway is in the API's row, in one of the two recovery                 *)
(* journals or in an audit row, or the operation that built it is still    *)
(* under way, died with its process or could only log, whatever fails and  *)
(* however often.  An operation that returns or throws has given its proxy *)
(* to the row, seen it deleted, or left it in a journal or a report.       *)
(***************************************************************************)
THEOREM ProxiesStayAccountedFor == Spec => []ProxiesAreAccountedFor
  <1>1. Sound => ProxiesAreAccountedFor
    BY DEF Sound
  <1> QED
    BY <1>1, AlwaysSound, PTL
=============================================================================
