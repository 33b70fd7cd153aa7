----------------------------- MODULE Publishing -----------------------------
(***************************************************************************)
(* One API of the portal and the proxy that serves it on Ferrum Edge:      *)
(* publishing/service.ts with edge-plugins.ts and the repair of            *)
(* admin/gateway-reconciliation.ts.                                        *)
(*                                                                         *)
(* The store keeps the API's row and two recovery journals, one for an     *)
(* enforcement conversion and one for the clean-up of a failed restore.    *)
(* The gateway keeps proxies and their plugin configurations.  No          *)
(* transaction spans the two, so every operation is a sequence of gateway  *)
(* writes and store transactions, each a step here, with compensation when *)
(* one of them fails.                                                      *)
(*                                                                         *)
(* An operation runs once and is named by a member of Ops; the proxy it    *)
(* creates, the revision it uploads and the configurations it mints are    *)
(* named after it, which makes every minted id fresh.  A configuration is  *)
(* <<id, plugin>>: two of one plugin on a proxy stay apart, as the ids of  *)
(* api_gateway_plugins keep them apart.  Rate limits, CORS, the palette,   *)
(* agents and the backend are left out: they take the same steps as the    *)
(* two plugins that gate the API and none of the properties tells them     *)
(* apart.  The `proxy:<id>` and API restore keys are ideal here; module    *)
(* KeyedSerializer is about the keys themselves.                           *)
(***************************************************************************)
EXTENDS Naturals, Sequences, FiniteSets

CONSTANTS
  Ops,          \* the operations of a behaviour
  Origin,       \* the operation that published the API before it
  None,         \* no id
  Shapes,       \* the settings an API may be published with: [auth, acl, level]
  Kinds,        \* the kinds of operation that may run
  FaultKinds,   \* which faults may happen
  MaxFaults     \* and how many of them in one behaviour

AllKinds == {"publish", "swap", "gate", "revise", "convert", "restore", "remove", "flag"}
AllFaults == {"refuse", "lost", "late", "unsent", "tx", "crash", "loss"}

ASSUME PublishingAssumption ==
  /\ Origin \notin Ops /\ None \notin Ops \cup {Origin}
  /\ None \notin (Ops \cup {Origin}) \X {"key", "basic", "acl"}
  /\ Shapes \subseteq [auth : {"key", "basic"}, acl : BOOLEAN, level : {"docs", "routes"}]
  /\ Kinds \subseteq AllKinds /\ FaultKinds \subseteq AllFaults
  /\ MaxFaults \in Nat

VARIABLES
  gw,         \* the proxies Edge holds
  row,        \* the row of the API with its ownership record and current revision
  conv,       \* the conversion's recovery journal
  cleanup,    \* the journal of a restore's cutover or clean-up
  apiKey,     \* the holder of the API restore key
  proxyKey,   \* the holder of each proxy's key
  op,         \* what every operation is doing
  reported,   \* proxies an audit row names as possibly not what the portal says
  settling,   \* proxies with an unanswered removal Edge may still apply
  vanished,   \* proxies an operator deleted behind the portal's back
  faults

vars == <<gw, row, conv, cleanup, apiKey, proxyKey, op, reported, settling, vanished, faults>>

Ids == Ops \cup {Origin}
Flavours == {"key", "basic"}
Configs == Ids \X (Flavours \cup {"acl"})
Levels == {"docs", "routes"}

NoProxy == [at |-> "none", level |-> "docs", spec |-> None, cfgs |-> {}, on |-> {}]
NoRow == [there |-> FALSE, proxy |-> None, state |-> "deployed", auth |-> "key", acl |-> FALSE,
          level |-> "docs", spec |-> None, owned |-> [auth |-> None, acl |-> None]]
NoConv == [p |-> None]
NoCleanup == [p |-> None, acked |-> FALSE]

\* Everything about the row that shapes the proxy a restore builds.
deploymentShape(r) == <<r.auth, r.acl, r.level>>

\* What the gateway runs for a role: a configuration it holds and the proxy names.
Running(g) == g.cfgs \cap g.on

\* The deployment a row describes is on the gateway, complete, at path `at`.
deploymentMatches(r, g, at) ==
  /\ g.at = at /\ g.level = r.level
  /\ r.level = "routes" => g.spec = r.spec
  /\ r.owned.auth \in Running(g) /\ r.owned.auth[2] = r.auth
  /\ r.acl <=> r.owned.acl \in Running(g)

\* The configurations a row of this shape owns when operation o builds its proxy.
OwnedBy(o, auth, acl) == [auth |-> <<o, auth>>, acl |-> IF acl THEN <<o, "acl">> ELSE None]
OwnedSet(r) == {r.owned.auth, r.owned.acl} \ {None}

Idle == [kind |-> "none", pc |-> "idle", seen |-> None, api |-> NoRow, level |-> "docs",
         goal |-> "none", act |-> "none", left |-> {}, known |-> {}, new |-> None, old |-> None,
         undo |-> <<>>, bad |-> FALSE, made |-> FALSE, cut |-> "no", stranded |-> None]

\* The row of an API published by o with settings s.
Deployed(o, s) ==
  [there |-> TRUE, proxy |-> o, state |-> "deployed", auth |-> s.auth, acl |-> s.acl,
   level |-> s.level, spec |-> o, owned |-> OwnedBy(o, s.auth, s.acl)]

\* The proxy of a deployed row.
ServedAs(r) == [at |-> "public", level |-> r.level,
                spec |-> IF r.level = "routes" THEN r.spec ELSE None,
                cfgs |-> OwnedSet(r), on |-> OwnedSet(r)]

Init ==
  /\ \/ row = NoRow
     \/ \E s \in Shapes : row = Deployed(Origin, s)
  /\ gw = [p \in Ids |-> IF row.there /\ p = row.proxy THEN ServedAs(row) ELSE NoProxy]
  /\ conv = NoConv /\ cleanup = NoCleanup
  /\ apiKey = None /\ proxyKey = [p \in Ids |-> None]
  /\ op = [o \in Ops |-> Idle]
  /\ reported = {} /\ settling = {} /\ vanished = {} /\ faults = 0

-----------------------------------------------------------------------------
(***************************************************************************)
(* Steps.                                                                  *)
(***************************************************************************)
Fault(k) == k \in FaultKinds /\ faults < MaxFaults /\ faults' = faults + 1

store == <<row, conv, cleanup, reported>>
keys == <<apiKey, proxyKey>>
edge == <<gw, settling, vanished>>

Set(o, r) == op' = [op EXCEPT ![o] = r]
At(o, pc) == op[o].pc = pc
Goto(o, pc) == Set(o, [op[o] EXCEPT !.pc = pc])

\* Where the error of a step takes its operation: to the compensation its catch runs.
HandlerOf(r) ==
  CASE r.kind = "publish" -> "withdraw"
    [] r.kind \in {"swap", "gate", "revise"} -> "unwind"
    [] r.kind = "restore" /\ r.goal # "recover" -> "salvage"
    [] r.kind = "restore" /\ r.goal = "recover" -> "relapse"
    [] r.kind = "convert" /\ r.goal = "forward" -> "judge"
    [] r.kind = "convert" /\ r.goal = "back" -> "report"
    [] OTHER -> "fail"

Error(o) == Goto(o, HandlerOf(op[o]))

\* The operation answers its caller and lets go of its keys.
Release(o) ==
  /\ apiKey' = IF apiKey = o THEN None ELSE apiKey
  /\ proxyKey' = [p \in Ids |-> IF proxyKey[p] = o THEN None ELSE proxyKey[p]]
Leave(o, how) == Release(o) /\ Set(o, [Idle EXCEPT !.kind = op[o].kind, !.pc = how])

\* A write to Edge: applied and answered, refused, or applied with its answer lost.  A write
\* to a proxy Edge does not hold is refused.
Call(o, p, after, Done) ==
  /\ \/ gw[p].at # "none" /\ gw' = [gw EXCEPT ![p] = after] /\ Done /\ UNCHANGED faults
     \/ gw[p].at = "none" /\ Error(o) /\ UNCHANGED <<gw, faults>>
     \/ Fault("refuse") /\ UNCHANGED gw /\ Error(o)
     \/ gw[p].at # "none" /\ Fault("lost") /\ gw' = [gw EXCEPT ![p] = after] /\ Error(o)
  /\ UNCHANGED <<settling, vanished>>

\* Creating a proxy.  Edge refuses a second proxy of the API's name.
Create(o, p, g, Done) ==
  /\ \/ /\ \A q \in Ids : gw[q].at = "none"
        /\ \/ gw' = [gw EXCEPT ![p] = g] /\ Done /\ UNCHANGED faults
           \/ Fault("lost") /\ gw' = [gw EXCEPT ![p] = g] /\ Error(o)
     \/ (\E q \in Ids : gw[q].at # "none") /\ Error(o) /\ UNCHANGED <<gw, faults>>
     \/ Fault("refuse") /\ UNCHANGED gw /\ Error(o)
  /\ UNCHANGED <<settling, vanished>>

\* A store transaction that commits Change, or rolls back and throws.
Commit(o, Change) ==
  \/ Change /\ UNCHANGED faults
  \/ Fault("tx") /\ Error(o) /\ UNCHANGED <<store, keys>>

-----------------------------------------------------------------------------
(***************************************************************************)
(* Starting, waiting and the keys.                                         *)
(***************************************************************************)
\* publish resolves a free slug and mints every id before its first gateway write.
StartPublish(o) ==
  /\ At(o, "idle") /\ "publish" \in Kinds /\ ~row.there
  /\ \E s \in Shapes :
       LET r == Deployed(o, s)
       IN Set(o, [op[o] EXCEPT !.kind = "publish", !.pc = "create", !.api = r, !.level = s.level,
                               !.left = OwnedSet(r)])
  /\ UNCHANGED <<edge, store, keys, faults>>

\* The other operations load the row before they wait for a key.
Start(o, k) ==
  /\ At(o, "idle") /\ k \in Kinds \ {"publish"} /\ row.there
  /\ k \in {"swap", "gate", "convert", "flag"} => row.proxy # None
  /\ Set(o, [op[o] EXCEPT !.kind = k, !.seen = row.proxy,
                          !.pc = IF k \in {"convert", "restore", "remove", "flag"} THEN "wait" ELSE "lease"])
  /\ UNCHANGED <<edge, store, keys, faults>>

\* Conversion, restore, delete and repair take the API restore key first; restore and delete
\* load the row again inside it, and restore refuses an API with an unfinished clean-up.
TakeApiKey(o) ==
  /\ At(o, "wait") /\ apiKey = None
  /\ IF op[o].kind \in {"restore", "remove"} /\ (~row.there \/ (op[o].kind = "restore" /\ cleanup # NoCleanup))
     THEN Leave(o, "done")
     ELSE /\ apiKey' = o /\ UNCHANGED proxyKey
          /\ Set(o, [op[o] EXCEPT !.pc = "lease", !.api = row])
  /\ UNCHANGED <<edge, store, faults>>

\* The proxy whose key the operation takes: the one it read, or the one a journal retains.
Target(o) ==
  CASE op[o].kind = "restore" -> IF conv # NoConv THEN conv.p ELSE row.proxy
    [] op[o].kind = "remove" ->
         IF row.proxy # None THEN row.proxy ELSE IF conv # NoConv THEN conv.p ELSE cleanup.p
    [] OTHER -> op[o].seen

Entry(o) ==
  CASE op[o].kind = "restore" -> IF conv # NoConv THEN "recover"
                                 ELSE IF row.proxy # None THEN "validate" ELSE "create"
    [] op[o].kind = "remove" -> "custody"
    [] op[o].kind = "convert" -> "plan"
    [] op[o].kind = "flag" -> "flag"
    [] OTHER -> "enter"

\* What a restore builds: the row as it read it, on a proxy of its own.
Rebuilt(o, r) == [r EXCEPT !.proxy = o, !.state = "deployed", !.owned = OwnedBy(o, r.auth, r.acl)]

Planned(o, r) == LET a == Rebuilt(o, r.api)
                 IN [r EXCEPT !.pc = "create", !.api = a, !.left = OwnedSet(a), !.level = a.level]

TakeProxyKey(o) ==
  /\ At(o, "lease")
  /\ LET t == Target(o)
         r == [op[o] EXCEPT !.pc = Entry(o)]
     IN /\ t # None => proxyKey[t] = None
        /\ proxyKey' = IF t = None THEN proxyKey ELSE [proxyKey EXCEPT ![t] = o]
        /\ Set(o, IF r.pc # "create" THEN r
                  ELSE Planned(o, r))
  /\ UNCHANGED <<edge, store, apiKey, faults>>

-----------------------------------------------------------------------------
(***************************************************************************)
(* publish, and a restore of a missing deployment: build the proxy on a    *)
(* staging path, gate it, and only then move it to the public path.        *)
(***************************************************************************)
Building(o) == op[o].kind = "publish" \/ (op[o].kind = "restore" /\ op[o].goal # "recover")

CreateStaged(o) ==
  /\ At(o, "create")
  /\ LET r == op[o]
         g == [NoProxy EXCEPT !.at = "staged", !.level = r.level,
                              !.spec = IF r.level = "routes" THEN r.api.spec ELSE None]
     IN Create(o, o, g, Set(o, [r EXCEPT !.pc = "attach", !.made = TRUE]))
  /\ UNCHANGED <<store, keys>>

\* Slip: moves to the public path before the configurations are associated.
Attach_PublicFirst(o) ==
  /\ At(o, "attach")
  /\ LET r == op[o]
         c == CHOOSE x \in r.left : x[2] = "acl" => r.left = {x}
     IN Call(o, o, [gw[o] EXCEPT !.cfgs = @ \cup {c}],
             Set(o, [r EXCEPT !.left = @ \ {c}, !.known = @ \cup {c},
                              !.pc = IF r.left = {c} THEN "cutover" ELSE "attach"]))
  /\ UNCHANGED <<store, keys>>

\* The authentication plugin, then access control; an answered create is remembered.
Attach(o) ==
  /\ At(o, "attach")
  /\ LET r == op[o]
         c == CHOOSE x \in r.left : x[2] = "acl" => r.left = {x}
     IN Call(o, o, [gw[o] EXCEPT !.cfgs = @ \cup {c}],
             Set(o, [r EXCEPT !.left = @ \ {c}, !.known = @ \cup {c},
                              !.pc = IF r.left = {c} THEN "associate" ELSE "attach"]))
  /\ UNCHANGED <<store, keys>>

\* One write names every configuration on the proxy; until it lands they are inert.
Associate(o) ==
  /\ At(o, "associate")
  /\ LET r == op[o]
     IN Call(o, o, [gw[o] EXCEPT !.on = @ \cup r.known],
             Set(o, IF r.kind = "restore"
                    THEN [r EXCEPT !.cut = "started", !.pc = IF r.level = "routes" THEN "stamp" ELSE "cutover"]
                    ELSE [r EXCEPT !.pc = "cutover"]))
  /\ UNCHANGED <<store, keys>>

\* The row still is what the restore is building from.
StillMissing(o) ==
  /\ row.there /\ row.proxy = None
  /\ deploymentShape(row) = deploymentShape(op[o].api) /\ row.spec = op[o].api.spec

\* A restore of a routes API journals its cutover before the write and again after the answer.
Stamp(o) ==
  /\ At(o, "stamp")
  /\ IF StillMissing(o) /\ cleanup = NoCleanup
     THEN Commit(o, /\ cleanup' = [p |-> o, acked |-> FALSE] /\ Goto(o, "cutover")
                    /\ UNCHANGED <<row, conv, reported, keys>>)
     ELSE Error(o) /\ UNCHANGED <<store, keys, faults>>
  /\ UNCHANGED edge

Cutover(o) ==
  /\ At(o, "cutover")
  /\ LET r == op[o]
     IN Call(o, o, [gw[o] EXCEPT !.at = "public"],
             Set(o, IF r.kind = "restore" /\ r.level = "routes" THEN [r EXCEPT !.pc = "stamped"]
                    ELSE [r EXCEPT !.pc = "adopt", !.cut = "acked"]))
  /\ UNCHANGED <<store, keys>>

Stamped(o) ==
  /\ At(o, "stamped")
  /\ IF StillMissing(o)
     THEN Commit(o, /\ cleanup' = [cleanup EXCEPT !.acked = TRUE]
                    /\ Set(o, [op[o] EXCEPT !.pc = "adopt", !.cut = "acked"])
                    /\ UNCHANGED <<row, conv, reported, keys>>)
     ELSE Error(o) /\ UNCHANGED <<store, keys, faults>>
  /\ UNCHANGED edge

\* The rows commit last.  A restore reads the row again first: nothing leases a proxy that is
\* not recorded, so a revision or a delete may have come in between.
Adopt(o) ==
  /\ At(o, "adopt")
  /\ LET r == op[o]
     IN IF IF r.kind = "publish" THEN ~row.there
           ELSE StillMissing(o) /\ conv = NoConv /\ (cleanup = NoCleanup \/ cleanup.acked)
        THEN Commit(o, /\ row' = IF r.kind = "publish" THEN r.api
                                 ELSE [row EXCEPT !.proxy = o, !.state = "deployed", !.owned = r.api.owned]
                       /\ cleanup' = NoCleanup /\ Leave(o, "done") /\ UNCHANGED <<conv, reported>>)
        ELSE Error(o) /\ UNCHANGED <<store, keys, faults>>
  /\ UNCHANGED edge

\* Slip: a refused deletion is forgotten.
Withdraw_ForgetsRefusal(o) ==
  /\ At(o, "withdraw")
  /\ \/ gw' = [gw EXCEPT ![o] = NoProxy] /\ Leave(o, "failed") /\ UNCHANGED faults
     \/ Fault("refuse") /\ UNCHANGED gw /\ Leave(o, "failed")
     \/ Fault("lost") /\ gw' = [gw EXCEPT ![o] = NoProxy] /\ UNCHANGED keys /\ Goto(o, "note")
  /\ UNCHANGED <<store, settling, vanished>>

\* A failed publish deletes the proxy first, which takes its configurations along; when that
\* is not confirmed the proxy keeps its plugins and an audit row names it.
Withdraw(o) ==
  /\ At(o, "withdraw")
  /\ \/ gw' = [gw EXCEPT ![o] = NoProxy] /\ Leave(o, "failed") /\ UNCHANGED faults
     \/ Fault("refuse") /\ UNCHANGED <<gw, keys>> /\ Goto(o, "note")
     \/ Fault("lost") /\ gw' = [gw EXCEPT ![o] = NoProxy] /\ UNCHANGED keys /\ Goto(o, "note")
  /\ UNCHANGED <<store, settling, vanished>>

\* The audit row of a stranded proxy or of a failed compensation, itself best-effort: when it
\* fails as well there is only a line in the log.
Note(o) ==
  /\ At(o, "note")
  /\ LET p == IF op[o].kind = "publish" THEN o ELSE op[o].seen
     IN \/ reported' = reported \cup {p} /\ Leave(o, "failed") /\ UNCHANGED faults
        \/ /\ Fault("tx") /\ Release(o) /\ UNCHANGED reported
           /\ Set(o, [Idle EXCEPT !.kind = op[o].kind, !.pc = "logged", !.seen = p])
  /\ UNCHANGED <<edge, row, conv, cleanup>>

\* A failed restore withdraws its proxy only when it knows what it would withdraw: the cutover
\* answered or never begun, the create answered, no configuration it does not recognise.
Salvage(o) ==
  /\ At(o, "salvage")
  /\ LET r == op[o]
         Keep == Set(o, [r EXCEPT !.pc = "close", !.stranded = o]) /\ UNCHANGED <<cleanup, faults>>
         Knows == r.cut # "started" /\ r.made /\ gw[o].cfgs \subseteq r.known
         Free == cleanup = NoCleanup \/ cleanup.acked
     IN \/ /\ r.cut # "started" /\ gw[o].at = "none"
           /\ Set(o, [r EXCEPT !.pc = "close", !.stranded = None]) /\ UNCHANGED <<cleanup, faults>>
        \/ /\ gw[o].at # "none" /\ Knows /\ Free
           /\ cleanup' = [p |-> o, acked |-> FALSE] /\ Goto(o, "purge") /\ UNCHANGED faults
        \/ r.cut = "started" /\ Keep
        \/ gw[o].at # "none" /\ ~(Knows /\ Free) /\ Keep
        \/ /\ \/ Fault("refuse")
              \/ gw[o].at # "none" /\ Knows /\ Free /\ Fault("tx")
           /\ Set(o, [r EXCEPT !.pc = "close", !.stranded = o]) /\ UNCHANGED cleanup
  /\ UNCHANGED <<edge, row, conv, reported, keys>>

\* Edge's conditional removal, which may still be applied after its caller gave up on it.
Purge(o) ==
  /\ At(o, "purge")
  /\ LET To(s) == Set(o, [op[o] EXCEPT !.pc = "close", !.stranded = s])
     IN \/ gw' = [gw EXCEPT ![o] = NoProxy] /\ To(None) /\ UNCHANGED <<settling, faults>>
        \/ (Fault("refuse") \/ Fault("unsent")) /\ To(o) /\ UNCHANGED <<gw, settling>>
        \/ Fault("lost") /\ gw' = [gw EXCEPT ![o] = NoProxy] /\ To(o) /\ UNCHANGED settling
        \/ Fault("late") /\ settling' = settling \cup {o} /\ To(o) /\ UNCHANGED gw
  /\ UNCHANGED <<store, keys, vanished>>

\* A proxy that may still be there is adopted as in need of repair.  The start row of the
\* restore names it even when this last transaction fails.
Close(o) ==
  /\ At(o, "close")
  /\ LET s == op[o].stranded
     IN /\ \/ /\ row' = IF row.there /\ row.proxy \in {None, s}
                         THEN [row EXCEPT !.proxy = s, !.state = "repair_required"] ELSE row
              /\ cleanup' = IF s = None THEN NoCleanup ELSE cleanup
              /\ UNCHANGED faults
           \/ Fault("tx") /\ UNCHANGED <<row, cleanup>>
        /\ reported' = reported \cup ({s} \ {None})
  /\ Leave(o, "failed")
  /\ UNCHANGED <<edge, conv>>

-----------------------------------------------------------------------------
(***************************************************************************)
(* A restore of an API that has a reference, and the operator's repair.    *)
(***************************************************************************)
\* Under the proxy's key: the row must be the one read inside the API key and no conversion
\* may own the deployment.  A proxy that is there and matches clears the flag; one that is
\* gone is rebuilt; anything else is left to the operator.
Validate(o) ==
  /\ At(o, "validate")
  /\ LET r == op[o]
         same == row.proxy = r.api.proxy /\ row.spec = r.api.spec
                   /\ deploymentShape(row) = deploymentShape(r.api)
         live == gw[row.proxy]
     IN IF ~row.there \/ ~same \/ conv # NoConv
        THEN Leave(o, "failed") /\ UNCHANGED <<row, faults>>
        ELSE IF live.at = "none"
             THEN /\ proxyKey' = [proxyKey EXCEPT ![row.proxy] = None] /\ UNCHANGED <<apiKey, row, faults>>
                  /\ Goto(o, "orphan")
             ELSE \/ /\ deploymentMatches(row, live, "public") /\ row.state = "repair_required"
                     /\ row' = [row EXCEPT !.state = "deployed"] /\ Leave(o, "done") /\ UNCHANGED faults
                  \/ /\ ~(deploymentMatches(row, live, "public") /\ row.state = "repair_required")
                     /\ Leave(o, "failed") /\ UNCHANGED <<row, faults>>
                  \/ (Fault("refuse") \/ Fault("tx")) /\ Leave(o, "failed") /\ UNCHANGED row
  /\ UNCHANGED <<edge, conv, cleanup, reported>>

\* The confirmed 404 clears the reference, if it still is the one that was checked, and the
\* restore goes on to build; its start row names the proxy before it exists.
Orphan(o) ==
  /\ At(o, "orphan")
  /\ IF row.there /\ row.proxy = op[o].api.proxy /\ conv = NoConv
     THEN \/ /\ row' = [row EXCEPT !.proxy = None, !.state = "repair_required"]
             /\ Set(o, Planned(o, op[o])) /\ UNCHANGED <<keys, faults>>
          \/ Fault("tx") /\ Leave(o, "failed") /\ UNCHANGED row
     ELSE Leave(o, "failed") /\ UNCHANGED <<row, faults>>
  /\ UNCHANGED <<edge, conv, cleanup, reported>>

\* Slip: does not look for a conversion's journal.
Flag_IgnoresJournal(o) ==
  /\ At(o, "flag")
  /\ LET gone == row.there /\ row.proxy = op[o].seen /\ gw[row.proxy].at = "none"
     IN \/ gone /\ row' = [row EXCEPT !.proxy = None, !.state = "repair_required"] /\ UNCHANGED faults
        \/ ~gone /\ UNCHANGED <<row, faults>>
        \/ gone /\ (Fault("tx") \/ Fault("refuse")) /\ UNCHANGED row
  /\ Leave(o, "done")
  /\ UNCHANGED <<edge, conv, cleanup, reported>>

\* Repair asks the gateway again under both keys and clears the reference of a proxy that is
\* gone, unless a conversion's journal owns it.
Flag(o) ==
  /\ At(o, "flag")
  /\ LET gone == row.there /\ row.proxy = op[o].seen /\ gw[row.proxy].at = "none" /\ conv = NoConv
     IN \/ gone /\ row' = [row EXCEPT !.proxy = None, !.state = "repair_required"] /\ UNCHANGED faults
        \/ ~gone /\ UNCHANGED <<row, faults>>
        \/ gone /\ (Fault("tx") \/ Fault("refuse")) /\ UNCHANGED row
  /\ Leave(o, "done")
  /\ UNCHANGED <<edge, conv, cleanup, reported>>

-----------------------------------------------------------------------------
(***************************************************************************)
(* update: swapping the authentication plugin, dropping or adding the ACL  *)
(* gate, and uploading a revision.  One proxy operation under its key, an  *)
(* undo registered before every write.                                     *)
(***************************************************************************)
Other(flavour) == IF flavour = "key" THEN "basic" ELSE "key"

\* The configuration the portal owns in the role, if the gateway still has it.
Live(c, p) == IF c \in gw[p].cfgs THEN c ELSE None

\* The row is read again under the key.  Settings need a deployed API; a revision does not,
\* and leaves the gateway of an undeployed one alone.  Of a deployed one whose document Edge
\* does not enforce it asks only whether the proxy is there.
Enter(o) ==
  /\ At(o, "enter")
  /\ LET r == op[o]
         p == r.seen
         refused == \/ ~row.there \/ row.proxy # p
                    \/ r.kind # "revise" /\ row.state = "repair_required"
                    \/ /\ r.kind = "revise" /\ row.state = "repair_required" /\ conv # NoConv
                       /\ conv.cshape # deploymentShape(row)
                    \/ /\ r.kind = "revise" /\ row.state = "deployed" /\ row.level # "routes"
                       /\ p # None /\ gw[p].at = "none"
         acl == Live(row.owned.acl, p)
         a == [r EXCEPT !.api = row]
     IN IF refused THEN Leave(o, "failed")
        ELSE /\ UNCHANGED keys
             /\ Set(o, CASE r.kind = "swap" -> [a EXCEPT !.pc = "plug", !.new = <<o, Other(row.auth)>>,
                                        !.undo = <<"attached">>, !.old = Live(row.owned.auth, p)]
                         [] r.kind = "gate" /\ ~row.acl /\ acl = None
                              -> [a EXCEPT !.pc = "plug", !.new = <<o, "acl">>, !.undo = <<"attached">>]
                         [] r.kind = "gate" /\ row.acl /\ acl # None
                              -> [a EXCEPT !.pc = "detach", !.old = acl, !.undo = <<"removed">>]
                         [] r.kind = "revise" /\ p # None /\ row.state = "deployed" /\ row.level = "routes"
                              -> [a EXCEPT !.pc = "respec"]
                         [] OTHER -> [a EXCEPT !.pc = "save"])
  /\ UNCHANGED <<edge, store, faults>>

\* The replacement is attached and associated before the incumbent goes.
Plug(o) ==
  /\ At(o, "plug")
  /\ Call(o, op[o].seen, [gw[op[o].seen] EXCEPT !.cfgs = @ \cup {op[o].new}], Goto(o, "join"))
  /\ UNCHANGED <<store, keys>>

Join(o) ==
  /\ At(o, "join")
  /\ LET r == op[o]
     IN Call(o, r.seen, [gw[r.seen] EXCEPT !.on = @ \cup {r.new}],
             Set(o, IF r.old = None THEN [r EXCEPT !.pc = "save"]
                    ELSE [r EXCEPT !.pc = "detach", !.undo = Append(@, "removed")]))
  /\ UNCHANGED <<store, keys>>

Detach(o) ==
  /\ At(o, "detach")
  /\ Call(o, op[o].seen, [gw[op[o].seen] EXCEPT !.on = @ \ {op[o].old}], Goto(o, "drop"))
  /\ UNCHANGED <<store, keys>>

Drop(o) ==
  /\ At(o, "drop")
  /\ LET r == op[o]
     IN Call(o, r.seen, [gw[r.seen] EXCEPT !.cfgs = @ \ {r.old}, !.on = @ \ {r.old}], Goto(o, "save"))
  /\ UNCHANGED <<store, keys>>

\* A revision of a deployed routes API replaces the document Edge enforces.
Respec(o) ==
  /\ At(o, "respec")
  /\ LET r == [op[o] EXCEPT !.undo = <<"spec">>]
     IN \/ /\ gw[r.seen].at # "none" /\ gw' = [gw EXCEPT ![r.seen].spec = o]
           /\ \/ Set(o, [r EXCEPT !.pc = "save"]) /\ UNCHANGED faults
              \/ Fault("lost") /\ Set(o, [r EXCEPT !.pc = "unwind"])
        \/ gw[r.seen].at = "none" /\ Error(o) /\ UNCHANGED <<gw, faults>>
        \/ Fault("refuse") /\ Set(o, [r EXCEPT !.pc = "unwind"]) /\ UNCHANGED gw
  /\ UNCHANGED <<store, keys, settling, vanished>>

\* The row and its ownership record move together; a revision of an API with a conversion to
\* recover keeps the journal in step.
Save(o) ==
  /\ At(o, "save")
  /\ LET r == op[o]
         owned == IF r.kind = "swap" THEN [r.api.owned EXCEPT !.auth = r.new]
                  ELSE [r.api.owned EXCEPT !.acl = IF r.new # None THEN r.new
                                                   ELSE IF r.api.acl THEN None ELSE @]
         written == CASE r.kind = "swap" -> [row EXCEPT !.auth = r.new[2], !.owned = owned]
                      [] r.kind = "gate" -> [row EXCEPT !.acl = ~r.api.acl, !.owned = owned]
                      [] OTHER -> [row EXCEPT !.spec = o]
     IN IF ~row.there THEN Error(o) /\ UNCHANGED <<store, keys, faults>>
        ELSE Commit(o, /\ row' = written
                       /\ conv' = IF r.kind = "revise" /\ r.api.state = "repair_required" /\ conv # NoConv
                                  THEN [conv EXCEPT !.cspec = o] ELSE conv
                       /\ Leave(o, "done") /\ UNCHANGED <<cleanup, reported>>)
  /\ UNCHANGED edge

\* Slip: the configuration is created again and not associated.
Undone_Inert(g, r) ==
  LET step == r.undo[Len(r.undo)]
  IN CASE step = "removed" -> [g EXCEPT !.cfgs = @ \cup {r.old}]
       [] step = "attached" -> [g EXCEPT !.cfgs = @ \ {r.new}, !.on = @ \ {r.new}]
       [] OTHER -> [g EXCEPT !.spec = r.api.spec]

\* What an undo step writes: the removed configuration created again under its id and
\* associated, the attached one dissociated and deleted, the previous document.
Undone(g, r) ==
  LET step == r.undo[Len(r.undo)]
  IN CASE step = "removed" -> [g EXCEPT !.cfgs = @ \cup {r.old}, !.on = @ \cup {r.old}]
       [] step = "attached" -> [g EXCEPT !.cfgs = @ \ {r.new}, !.on = @ \ {r.new}]
       [] OTHER -> [g EXCEPT !.spec = r.api.spec]

\* The first of the two writes of such a step.
HalfUndone(g, r) ==
  LET step == r.undo[Len(r.undo)]
  IN CASE step = "removed" -> [g EXCEPT !.cfgs = @ \cup {r.old}]
       [] step = "attached" -> [g EXCEPT !.on = @ \ {r.new}]
       [] OTHER -> g

\* The undo steps run in reverse, each whatever became of the one before it.
Unwind(o) ==
  /\ At(o, "unwind") /\ op[o].undo # <<>>
  /\ LET r == op[o]
         rest == SubSeq(r.undo, 1, Len(r.undo) - 1)
         Missed == Set(o, [r EXCEPT !.undo = rest, !.bad = TRUE])
     IN \/ /\ gw[r.seen].at # "none"
           /\ gw' = [gw EXCEPT ![r.seen] = Undone(@, r)]
           /\ \/ Set(o, [r EXCEPT !.undo = rest]) /\ UNCHANGED faults
              \/ Fault("lost") /\ Missed
        \/ gw[r.seen].at = "none" /\ Missed /\ UNCHANGED <<gw, faults>>
        \/ gw[r.seen].at # "none" /\ Fault("refuse") /\ Missed
             /\ gw' \in {gw, [gw EXCEPT ![r.seen] = HalfUndone(@, r)]}
  /\ UNCHANGED <<store, keys, settling, vanished>>

\* A compensation that failed is recorded before the caller gets its error.
Unwound(o) ==
  /\ At(o, "unwind") /\ op[o].undo = <<>>
  /\ IF op[o].bad THEN Goto(o, "note") /\ UNCHANGED keys ELSE Leave(o, "failed")
  /\ UNCHANGED <<edge, store, faults>>

-----------------------------------------------------------------------------
(***************************************************************************)
(* The conversion between docs_only and routes deletes the proxy and       *)
(* creates it again under its own id.  Its journal holds the original      *)
(* deployment and every unanswered conditional write, and outlives a       *)
(* crash; a restore recovers from it.                                      *)
(***************************************************************************)
\* The journal is written only while the row is the one it was taken from.
Journalled == row.there /\ row.proxy = conv.p /\ conv.cshape = deploymentShape(row)
                /\ conv.cspec = row.spec

\* Before any teardown: repair_required, the journal and the start row in one transaction.
Plan(o) ==
  /\ At(o, "plan")
  /\ LET p == op[o].seen
     IN IF \/ ~row.there \/ row.proxy # p \/ row.state = "repair_required"
           \/ gw[p].at = "none" \/ conv # NoConv
        THEN Leave(o, "failed") /\ UNCHANGED <<store, faults>>
        ELSE \/ /\ conv' = [p |-> p, base |-> gw[p], cshape |-> deploymentShape(row), spec |-> row.spec,
                            cspec |-> row.spec, authority |-> FALSE, acked |-> TRUE, removed |-> FALSE,
                            attempt |-> "none", obs |-> NoProxy]
                /\ row' = [row EXCEPT !.state = "repair_required"]
                /\ Set(o, [op[o] EXCEPT !.pc = "authority", !.api = row, !.goal = "forward",
                                        !.level = IF row.level = "docs" THEN "routes" ELSE "docs"])
                /\ UNCHANGED <<cleanup, reported, keys, faults>>
             \/ (Fault("tx") \/ Fault("refuse")) /\ Leave(o, "failed") /\ UNCHANGED store
  /\ UNCHANGED edge

\* The deployment must match its row before its authority is taken.
Authority(o) ==
  /\ At(o, "authority")
  /\ LET g == gw[conv.p]
     IN IF g = conv.base /\ deploymentMatches(op[o].api, g, "public") /\ Journalled
        THEN Commit(o, /\ conv' = [conv EXCEPT !.authority = TRUE]
                       /\ Set(o, [op[o] EXCEPT !.pc = "strike", !.act = "remove"])
                       /\ UNCHANGED <<row, cleanup, reported, keys>>)
        ELSE Error(o) /\ UNCHANGED <<store, keys, faults>>
  /\ UNCHANGED edge

\* A conditional write is journalled as unconfirmed before it is sent ...
Strike(o) ==
  /\ At(o, "strike")
  /\ IF conv.acked /\ Journalled
     THEN Commit(o, /\ conv' = [conv EXCEPT !.acked = FALSE] /\ Goto(o, "send")
                    /\ UNCHANGED <<row, cleanup, reported, keys>>)
     ELSE Error(o) /\ UNCHANGED <<store, keys, faults>>
  /\ UNCHANGED edge

\* ... against the deployment it was admitted for ...
Admitted(o) == IF op[o].act = "fix" \/ conv.attempt = "none" THEN conv.base ELSE conv.obs

\* ... and writes the removal, a corrected document, or the document at the public path.
Written(o, g) ==
  LET document == IF op[o].goal = "recover" THEN row.spec ELSE conv.spec
  IN CASE op[o].act = "remove" -> NoProxy
       [] op[o].act = "cutover" -> [g EXCEPT !.spec = document, !.at = "public"]
       [] OTHER -> [g EXCEPT !.spec = document]

\* Only a write that was never sent is taken out of the journal again.  A refusal or a lost
\* answer leaves it unconfirmed, and a removal may still be applied later.
Send(o) ==
  /\ At(o, "send")
  /\ LET p == conv.p
         after == [gw EXCEPT ![p] = Written(o, @)]
     IN \/ gw[p] = Admitted(o) /\ gw' = after /\ Goto(o, "ack") /\ UNCHANGED <<conv, settling, faults>>
        \/ gw[p] # Admitted(o) /\ Error(o) /\ UNCHANGED <<gw, conv, settling, faults>>
        \/ Fault("refuse") /\ Error(o) /\ UNCHANGED <<gw, conv, settling>>
        \/ Fault("unsent") /\ conv' = [conv EXCEPT !.acked = TRUE] /\ Error(o) /\ UNCHANGED <<gw, settling>>
        \/ gw[p] = Admitted(o) /\ Fault("lost") /\ gw' = after /\ Error(o) /\ UNCHANGED <<conv, settling>>
        \/ /\ gw[p] = Admitted(o) /\ op[o].act = "remove" /\ Fault("late")
           /\ settling' = settling \cup {p} /\ Error(o) /\ UNCHANGED <<gw, conv>>
  /\ UNCHANGED <<row, cleanup, reported, keys, vanished>>

Ack(o) ==
  /\ At(o, "ack")
  /\ LET act == op[o].act
     IN Commit(o, /\ conv' = [conv EXCEPT !.acked = TRUE, !.removed = @ \/ act = "remove"]
                  /\ Goto(o, CASE act = "remove" -> "attempt" [] act = "fix" -> "finish" [] OTHER -> "look")
                  /\ UNCHANGED <<row, cleanup, reported, keys>>)
  /\ UNCHANGED edge

\* The rebuild: the attempt is journalled, the proxy created at a staging path, and every
\* answered write observed and frozen in the journal before the next one.
Attempt(o) ==
  /\ At(o, "attempt")
  /\ IF Journalled
     THEN Commit(o, /\ conv' = [conv EXCEPT !.attempt = "unseen"]
                    /\ Set(o, [op[o] EXCEPT !.pc = "build", !.left = conv.base.cfgs])
                    /\ UNCHANGED <<row, cleanup, reported, keys>>)
     ELSE Error(o) /\ UNCHANGED <<store, keys, faults>>
  /\ UNCHANGED edge

Build(o) ==
  /\ At(o, "build")
  /\ LET level == op[o].level
     IN Create(o, conv.p, [NoProxy EXCEPT !.at = "staged", !.level = level,
                                          !.spec = IF level = "routes" THEN conv.spec ELSE None],
               Goto(o, "look"))
  /\ UNCHANGED <<store, keys>>

\* What follows the observation of g.
NextOf(o, g) ==
  LET r == op[o]
      stale == r.goal = "recover" /\ g.level = "routes" /\ g.spec # row.spec
  IN CASE r.left # {} -> [r EXCEPT !.pc = "reattach"]
       [] r.left = {} /\ g.on # g.cfgs -> [r EXCEPT !.pc = "rejoin"]
       [] r.left = {} /\ g.on = g.cfgs /\ g.at = "public" -> [r EXCEPT !.pc = "finish"]
       [] r.left = {} /\ g.on = g.cfgs /\ g.at # "public" /\ stale -> [r EXCEPT !.pc = "strike", !.act = "correct"]
       [] r.goal = "recover" /\ ~deploymentMatches(row, g, "staged") -> [r EXCEPT !.pc = HandlerOf(r)]
       [] r.level = "routes" -> [r EXCEPT !.pc = "strike", !.act = "cutover"]
       [] OTHER -> [r EXCEPT !.pc = "recut"]

Look(o) ==
  /\ At(o, "look")
  /\ LET g == gw[conv.p]
     IN IF g.at # "none" /\ Journalled
        THEN Commit(o, /\ conv' = [conv EXCEPT !.attempt = "seen", !.obs = g]
                       /\ Set(o, NextOf(o, g)) /\ UNCHANGED <<row, cleanup, reported, keys>>)
        ELSE Error(o) /\ UNCHANGED <<store, keys, faults>>
  /\ UNCHANGED edge

Reattach(o) ==
  /\ At(o, "reattach")
  /\ \E c \in op[o].left :
       Call(o, conv.p, [gw[conv.p] EXCEPT !.cfgs = @ \cup {c}],
            Set(o, [op[o] EXCEPT !.pc = "look", !.left = @ \ {c}]))
  /\ UNCHANGED <<store, keys>>

\* Every configuration put back is associated, in one write.
Rejoin(o) ==
  /\ At(o, "rejoin")
  /\ Call(o, conv.p, [gw[conv.p] EXCEPT !.on = gw[conv.p].cfgs], Goto(o, "look"))
  /\ UNCHANGED <<store, keys>>

Recut(o) ==
  /\ At(o, "recut")
  /\ Call(o, conv.p, [gw[conv.p] EXCEPT !.at = "public"], Goto(o, "look"))
  /\ UNCHANGED <<store, keys>>

\* The journal goes with the transaction that makes the row true again: the converted row, or
\* the original one once its deployment is verified.
Finish(o) ==
  /\ At(o, "finish")
  /\ LET r == op[o]
         right == CASE r.goal = "forward" -> Journalled /\ conv.acked
                    [] r.goal = "back" -> Journalled /\ conv.acked /\ row.spec = conv.spec
                                            /\ deploymentMatches(r.api, gw[conv.p], "public")
                    [] OTHER -> Journalled /\ conv.acked /\ deploymentMatches(row, gw[conv.p], "public")
     IN IF right
        THEN Commit(o, /\ row' = [row EXCEPT !.state = "deployed",
                                             !.level = IF r.goal = "forward" THEN r.level ELSE @]
                       /\ conv' = NoConv
                       /\ Leave(o, IF r.goal = "back" THEN "failed" ELSE "done")
                       /\ UNCHANGED <<cleanup, reported>>)
        ELSE Error(o) /\ UNCHANGED <<store, keys, faults>>
  /\ UNCHANGED edge

\* A failed conversion goes back only when nothing it sent is unconfirmed and it did remove
\* the original.
Judge(o) ==
  /\ At(o, "judge")
  /\ Set(o, IF conv.acked /\ conv.removed
            THEN [op[o] EXCEPT !.goal = "back", !.level = op[o].api.level,
                               !.pc = IF gw[conv.p] = conv.base THEN "finish" ELSE "partial"]
            ELSE [op[o] EXCEPT !.pc = "report"])
  /\ UNCHANGED <<edge, store, keys, faults>>

\* What the attempt left may be removed only when it is exactly what was last observed.
Partial(o) ==
  /\ At(o, "partial")
  /\ \/ /\ Set(o, CASE ~conv.acked -> [op[o] EXCEPT !.pc = HandlerOf(op[o])]
                   [] conv.acked /\ gw[conv.p].at = "none" -> [op[o] EXCEPT !.pc = "attempt"]
                   [] conv.acked /\ gw[conv.p].at # "none" /\ conv.attempt = "seen" /\ gw[conv.p] = conv.obs
                        -> [op[o] EXCEPT !.pc = "strike", !.act = "remove"]
                   [] OTHER -> [op[o] EXCEPT !.pc = HandlerOf(op[o])])
        /\ UNCHANGED faults
     \/ Fault("refuse") /\ Error(o)
  /\ UNCHANGED <<edge, store, keys>>

\* The API stays in need of repair, its journal kept.
Report(o) ==
  /\ At(o, "report")
  /\ \/ row' = [row EXCEPT !.state = "repair_required"] /\ reported' = reported \cup {conv.p} /\ UNCHANGED faults
     \/ Fault("tx") /\ UNCHANGED <<row, reported>>
  /\ Leave(o, "failed")
  /\ UNCHANGED <<edge, conv, cleanup>>

\* A restore of an API whose conversion left its journal.
Recover(o) ==
  /\ At(o, "recover")
  /\ LET g == gw[conv.p]
         r == [op[o] EXCEPT !.goal = "recover", !.api = row, !.seen = conv.p, !.level = row.level]
     IN IF ~row.there \/ conv = NoConv \/ row.proxy \notin {None, conv.p} \/ row.spec # op[o].api.spec
           \/ conv.cshape # deploymentShape(row)
        THEN Leave(o, "failed") /\ UNCHANGED faults
        ELSE /\ UNCHANGED keys
             /\ \/ /\ UNCHANGED faults
                   /\ Set(o, CASE ~conv.acked -> [r EXCEPT !.pc = "relapse"]
                               [] conv.acked /\ deploymentMatches(row, g, "public") -> [r EXCEPT !.pc = "finish"]
                               [] OTHER -> IF g # conv.base THEN [r EXCEPT !.pc = "partial"]
                                           ELSE IF conv.authority /\ g.level = "routes"
                                                THEN [r EXCEPT !.pc = "strike", !.act = "fix"]
                                                ELSE [r EXCEPT !.pc = "relapse"])
                \/ Fault("refuse") /\ Set(o, [r EXCEPT !.pc = "relapse"])
  /\ UNCHANGED <<edge, store>>

Relapse(o) ==
  /\ At(o, "relapse")
  /\ \/ row' = [row EXCEPT !.state = "repair_required"] /\ UNCHANGED faults
     \/ Fault("tx") /\ UNCHANGED row
  /\ Leave(o, "failed")
  /\ UNCHANGED <<edge, conv, cleanup, reported>>

-----------------------------------------------------------------------------
(***************************************************************************)
(* Deleting the API.                                                       *)
(***************************************************************************)
\* Slip: deletes an API with an unconfirmed write.
Custody_Unconfirmed(o) ==
  /\ At(o, "custody")
  /\ IF ~row.there \/ row.proxy # op[o].seen \/ cleanup # NoCleanup
     THEN Leave(o, "failed")
     ELSE Goto(o, IF row.proxy = None THEN "erase" ELSE "delete") /\ UNCHANGED keys
  /\ UNCHANGED <<edge, store, faults>>

\* The reference must not have moved, and an unconfirmed journal refuses the deletion.
Custody(o) ==
  /\ At(o, "custody")
  /\ IF \/ ~row.there \/ row.proxy # op[o].seen \/ cleanup # NoCleanup
        \/ conv # NoConv /\ ~(conv.acked /\ conv.attempt # "unseen" /\ Journalled)
     THEN Leave(o, "failed")
     ELSE Goto(o, IF row.proxy = None THEN "erase" ELSE "delete") /\ UNCHANGED keys
  /\ UNCHANGED <<edge, store, faults>>

\* The proxy goes first, with its configurations; a 404 is as good.
Delete(o) ==
  /\ At(o, "delete")
  /\ LET after == [gw EXCEPT ![op[o].seen] = NoProxy]
     IN \/ gw' = after /\ Goto(o, "erase") /\ UNCHANGED faults
        \/ Fault("refuse") /\ Error(o) /\ UNCHANGED gw
        \/ Fault("lost") /\ gw' = after /\ Error(o)
  /\ UNCHANGED <<store, keys, settling, vanished>>

Erase(o) ==
  /\ At(o, "erase")
  /\ Commit(o, /\ row' = NoRow /\ conv' = NoConv /\ Leave(o, "done") /\ UNCHANGED <<cleanup, reported>>)
  /\ UNCHANGED edge

\* The start row of the deletion stays, and names the proxy.
Fail(o) ==
  /\ At(o, "fail")
  /\ reported' = reported \cup ({op[o].seen} \ {None})
  /\ Leave(o, "failed")
  /\ UNCHANGED <<edge, row, conv, cleanup, faults>>

-----------------------------------------------------------------------------
(***************************************************************************)
(* The world around it.                                                    *)
(***************************************************************************)
\* The process dies; the keys come free when their leases run out.
Crash(o) ==
  /\ op[o].pc \notin {"idle", "done", "failed", "logged", "crashed"} /\ Fault("crash")
  /\ Release(o)
  /\ Set(o, [Idle EXCEPT !.kind = op[o].kind, !.pc = "crashed",
                         !.seen = IF Building(o) THEN o ELSE op[o].seen])
  /\ UNCHANGED <<edge, store>>

\* Edge applies a removal it had accepted.
Settle(p) ==
  /\ p \in settling
  /\ gw' = [gw EXCEPT ![p] = NoProxy] /\ settling' = settling \ {p}
  /\ UNCHANGED <<store, keys, op, vanished, faults>>

\* An operator deletes a proxy.
Lose(p) ==
  /\ gw[p].at # "none" /\ Fault("loss")
  /\ gw' = [gw EXCEPT ![p] = NoProxy] /\ vanished' = vanished \cup {p}
  /\ UNCHANGED <<store, keys, op, settling>>

Step(o) ==
  \/ StartPublish(o) \/ \E k \in AllKinds : Start(o, k)
  \/ TakeApiKey(o) \/ TakeProxyKey(o)
  \/ CreateStaged(o) \/ Attach(o) \/ Associate(o) \/ Stamp(o) \/ Cutover(o) \/ Stamped(o) \/ Adopt(o)
  \/ Withdraw(o) \/ Note(o) \/ Salvage(o) \/ Purge(o) \/ Close(o)
  \/ Validate(o) \/ Orphan(o) \/ Flag(o)
  \/ Enter(o) \/ Plug(o) \/ Join(o) \/ Detach(o) \/ Drop(o) \/ Respec(o) \/ Save(o)
  \/ Unwind(o) \/ Unwound(o)
  \/ Plan(o) \/ Authority(o) \/ Strike(o) \/ Send(o) \/ Ack(o) \/ Attempt(o) \/ Build(o) \/ Look(o)
  \/ Reattach(o) \/ Rejoin(o) \/ Recut(o) \/ Finish(o) \/ Judge(o) \/ Partial(o) \/ Report(o)
  \/ Recover(o) \/ Relapse(o)
  \/ Custody(o) \/ Delete(o) \/ Erase(o) \/ Fail(o)
  \/ Crash(o)

Next == (\E o \in Ops : Step(o)) \/ \E p \in Ids : Settle(p) \/ Lose(p)

Spec == Init /\ [][Next]_vars

-----------------------------------------------------------------------------
(***************************************************************************)
(* Properties.                                                             *)
(***************************************************************************)
\* Every variable keeps to its type.
PublishingTypeOK ==
  /\ \A p \in Ids : /\ gw[p].at \in {"none", "staged", "public"} /\ gw[p].level \in Levels
                    /\ gw[p].spec \in Ids \cup {None}
                    /\ gw[p].cfgs \subseteq Configs /\ gw[p].on \subseteq gw[p].cfgs
  /\ row.there \in BOOLEAN /\ row.proxy \in Ids \cup {None} /\ row.spec \in Ids \cup {None}
  /\ row.state \in {"deployed", "repair_required"} /\ row.auth \in Flavours /\ row.acl \in BOOLEAN
  /\ row.level \in Levels /\ OwnedSet(row) \subseteq Configs
  /\ row.there /\ row.proxy = None => row.state = "repair_required"
  /\ conv.p \in Ids \cup {None} /\ cleanup.p \in Ids \cup {None} /\ cleanup.acked \in BOOLEAN
  /\ conv # NoConv => row.there /\ row.proxy = conv.p
  /\ apiKey \in Ops \cup {None} /\ proxyKey \in [Ids -> Ops \cup {None}]
  /\ reported \subseteq Ids /\ settling \subseteq Ids /\ vanished \subseteq Ids
  /\ faults \in 0 .. MaxFaults

\* A proxy on the public path runs an authentication plugin: the order of publish, of the swap,
\* of the conversion and of every compensation is chosen for it.  The one way it does not is a
\* swap whose unwinding fails part of the way; then the failure is on record, or about to be.
OpenIsReported ==
  \A p \in Ids :
    gw[p].at = "public" /\ (\A c \in Running(gw[p]) : c[2] \notin Flavours)
      => p \in reported \/ \E o \in Ops : op[o].seen = p /\ op[o].pc \in {"unwind", "note", "logged"}

\* No proxy is left on the gateway that neither the row, nor a journal, nor an audit row, nor
\* an operation under way (or one whose process died or could only log) leads to.
ProxiesAreAccountedFor ==
  \A p \in Ids :
    gw[p].at # "none" => \/ row.there /\ row.proxy = p
                         \/ p \in {conv.p, cleanup.p} \cup reported
                         \/ p \in Ops /\ op[p].pc \notin {"idle", "done", "failed"}

\* Operations that stopped half-way on p without a word.
Interrupted(p) == \E o \in Ops : op[o].pc \in {"crashed", "logged"} /\ op[o].seen = p

\* The row of an API that is deployed, with nobody at work on its proxy.
Settled == /\ row.there /\ row.state = "deployed" /\ proxyKey[row.proxy] = None
           /\ row.proxy \notin reported \cup vanished /\ ~Interrupted(row.proxy)

\* What the portal calls deployed is served, and never with less than the portal shows: at the
\* public path, at the row's level, authenticating with the row's plugin and no other, behind
\* the ACL when the row asks for it.  Once an operator has deleted a proxy, an update that was
\* at work on it may commit over a restore and leave a second plugin of the portal's running.
DeployedRunsItsGate ==
  Settled => LET g == gw[row.proxy]
                 running == {c[2] : c \in Running(g)}
             IN /\ g.at = "public" /\ g.level = row.level
                /\ row.auth \in running /\ (vanished = {} => Other(row.auth) \notin running)
                /\ (row.acl => "acl" \in running)

\* A journal with a write that its sender no longer waits for.
Unconfirmed == \/ conv # NoConv /\ ~conv.acked /\ \A o \in Ops : op[o].pc \notin {"send", "ack"}
               \/ cleanup # NoCleanup /\ op[cleanup.p].pc \in {"failed", "crashed"}

\* Another API's publish under the same slug, which fails on the slug when it commits.
Rival(p) == p \in Ops /\ op[p].kind = "publish" /\ row.proxy # p

\* While a write is unconfirmed nobody touches the gateway for this API, restores it, deletes
\* it or drops the journal: the removal may still be applied to whatever is put there.
UnconfirmedIsLeftAlone ==
  [][Unconfirmed => /\ \A p \in Ids : \/ gw'[p] = gw[p] \/ Rival(p)
                                     \/ settling' # settling \/ vanished' # vanished
                    /\ conv'.p = conv.p /\ cleanup' = cleanup /\ row'.there]_vars
=============================================================================
