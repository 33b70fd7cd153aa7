------------------------------ MODULE Accounts ------------------------------
(***************************************************************************)
(* Portal accounts and the ways into them: registration and the founder's  *)
(* seat, password sign-in, reset links, password changes, role and status  *)
(* transitions, single sign-on and its settings (auth/service.ts,          *)
(* users/service.ts, admin/god-service.ts, sso/service.ts).                *)
(*                                                                         *)
(* Every operation reads with nothing held, waits for its keys, reads      *)
(* again inside its transaction and commits.  Transactions of two          *)
(* instances overlap (READ COMMITTED), so what a transaction read may have *)
(* changed by its commit unless a key or the predicate of a conditional    *)
(* write forbids it: Start, Begin and Commit are separate steps.  OneStore *)
(* is the supported topology, one serving instance, whose store object     *)
(* runs one transaction body at a time.  Keys are taken all at once; their *)
(* order and the fence are KeyedSerializer's.                              *)
(*                                                                         *)
(* An operation runs once.  Its id names the account, password, link or    *)
(* session it creates.  CAPTCHA, address verification, throttling and the  *)
(* organisation mapping refuse an operation or leave it alone: Abort.  The *)
(* break-glass switch is on, and every account has an address of its own.  *)
(* A settings save changes one setting, and never the role mappings.       *)
(***************************************************************************)
EXTENDS Naturals, FiniteSets

CONSTANTS
  Ops,        \* the operations of a behaviour
  Founders,   \* the super admins there are at the start
  Members,    \* and the members
  Providers,  \* the identity providers
  Synced,     \* those that re-apply the role on every sign-in (sync_roles)
  Trusted,    \* and, among them, those with a mapping to admin (grantsAdmin)
  Origin,     \* names what there was before the behaviour
  None,
  Workloads   \* what may run together: kinds of operation, how many of them, and
              \* whether one instance serves them or several do

AllKinds == {"register", "login", "logout", "request", "reset", "change", "update",
             "god", "sso", "deprovision", "unlink", "save"}

ASSUME AccountsAssumption ==
  /\ Trusted \subseteq Synced /\ Synced \subseteq Providers
  /\ Founders \cap Members = {} /\ (Founders \cup Members) \cap Ops = {}
  /\ Origin \notin Ops /\ None \notin Ops \cup Founders \cup Members \cup {Origin}
  /\ Workloads \subseteq [kinds : SUBSET AllKinds, size : 0 .. Cardinality(Ops),
                           stores : {"one", "many"}]

VARIABLES
  acc,       \* users, with the trusted e-mail proof and the password lock
  links,     \* user_identities
  reset,     \* the live password_reset row of each account
  sessions,
  settings,  \* the stored single sign-on settings
  claim,     \* the account recorded under SUPER_ADMIN_CLAIM_KEY
  op,        \* what every operation is doing
  redeemed,  \* history: which link set which password
  load       \* the workload of this behaviour

vars == <<acc, links, reset, sessions, settings, claim, op, redeemed, load>>

Seeds == Founders \cup Members
Accounts == Seeds \cup Ops
Ids == Ops \cup {Origin}
Roles == {"member", "admin", "super"}
Rank(r) == CASE r = "super" -> 3 [] r = "admin" -> 2 [] r = "member" -> 1 [] OTHER -> 0

Absent == [role |-> "none", status |-> "none", pw |-> None, proof |-> FALSE,
           locked |-> FALSE, era |-> Origin, off |-> Origin]

Blank == [kind |-> "none", at |-> "idle", user |-> None, prov |-> None,
          role |-> "none", status |-> "none", link |-> None, session |-> None,
          seen |-> Absent, conf |-> None, keys |-> {}]
Done == [Blank EXCEPT !.at = "done"]

----------------------------------------------------------------------------
(* What the operations read.                                               *)

Active(u) == acc[u].status = "active"
Super(u) == Active(u) /\ acc[u].role = "super"
Seated == \E u \in Accounts : Super(u)
LastSuper(u) == \A v \in Accounts \ {u} : ~Super(v)

LinksOf(u) == {l \in links : l.user = u}
SessionsOf(u) == {s \in sessions : s.user = u}

\* localPasswordBlocked: never a super admin's, always a provisioned account's,
\* else while a link to a strict provider in force exists.
Blocked(u) ==
  /\ acc[u].role # "super"
  /\ acc[u].locked \/ \E l \in LinksOf(u) : l.prov \in settings.force \cap settings.strict

\* What login asks of the account and the policies, before and in its transaction.
MayUsePassword(u) ==
  /\ Active(u) /\ ~Blocked(u)
  /\ settings.ssoOnly => acc[u].role = "super"

MayReset(u) == Active(u) /\ ~Blocked(u)

\* A browser that may act: its session is there and its account is active.
SignedIn(s) == s \in sessions /\ Active(s.user)

\* The keys of KeyedSerializer an operation waits for and holds.
Policy == <<"policy">>
SuperAdmin == <<"super">>
Password(u) == <<"password", u>>
Lifecycle(u) == <<"lifecycle", u>>
Provider(p) == <<"provider", p>>
SsoSettings == <<"sso">>

Held(o) == IF op[o].at \in {"begun", "issue"} THEN op[o].keys ELSE {}
Free(keys) == \A o \in Ops : Held(o) \cap keys = {}

\* One instance serves, over one store object.
OneStore == load.stores = "one"

\* Slip: a body starts while another is open.
StoreFree_Unqueued == TRUE

\* The transaction queue of a store object.  Independent stores have one each.
StoreFree == OneStore => \A o \in Ops : op[o].at # "begun"

----------------------------------------------------------------------------
\* Nobody yet, or every seeded account signed in with its password; an identity is
\* linked only where the address was proven.
Init ==
  /\ \E seeded \in {{}, Seeds}, proven \in BOOLEAN :
       /\ acc = [u \in Accounts |->
                   IF u \notin seeded THEN Absent
                   ELSE [Absent EXCEPT !.role = IF u \in Founders THEN "super" ELSE "member",
                                       !.status = "active", !.pw = Origin, !.proof = proven]]
       /\ sessions = {[user |-> u, id |-> Origin, how |-> "password", pw |-> Origin,
                       era |-> Origin, link |-> None] : u \in seeded}
       /\ \/ links = {}
          \/ \E u \in seeded, p \in Providers :
               proven /\ links = {[user |-> u, prov |-> p, id |-> Origin, how |-> "explicit"]}
  /\ reset = [u \in Accounts |-> None]
  /\ settings = [force |-> Providers, enabled |-> Providers, strict |-> {},
                 ssoOnly |-> FALSE, offboard |-> TRUE]
  /\ claim = None
  /\ op = [o \in Ops |-> Blank]
  /\ redeemed = {}
  /\ load \in Workloads

\* The bound on a behaviour: the operations of its workload.
Fresh(o, kind) ==
  /\ kind \in load.kinds /\ op[o].at = "idle"
  /\ Cardinality({q \in Ops : op[q].at # "idle"}) < load.size

\* The operation's first reads, with nothing held.
Start(o, kind, rec) ==
  /\ op' = [op EXCEPT ![o] = [rec EXCEPT !.kind = kind, !.at = "start"]]
  /\ UNCHANGED <<acc, links, reset, sessions, settings, claim, redeemed, load>>

\* The keys are free, the body is at the head of the store's queue and its own
\* reads admit the operation.
Begin(o, kind, admitted, rec) ==
  /\ op[o].kind = kind /\ op[o].at = "start"
  /\ Free(op[o].keys) /\ StoreFree
  /\ admitted
  /\ op' = [op EXCEPT ![o] = [rec EXCEPT !.at = "begun"]]
  /\ UNCHANGED <<acc, links, reset, sessions, settings, claim, redeemed, load>>

Commits(o, kind) == op[o].kind = kind /\ op[o].at = "begun"
Ends(o) == op' = [op EXCEPT ![o] = Done]

\* A refusal, a lost lease or a crash: the transaction rolls back.  (An operation
\* that is refused or gives up before it holds its keys stays at its start.)
Abort(o) ==
  /\ op[o].at \in {"begun", "issue"}
  /\ Ends(o)
  /\ UNCHANGED <<acc, links, reset, sessions, settings, claim, redeemed, load>>

\* `a` is the account as the transaction that admits the session read it.
Session(o, u, how, a, link) ==
  [user |-> u, id |-> o, how |-> how, pw |-> a.pw, era |-> a.era, link |-> link]

\* A write to the account that ends its sessions and its reset link.
CutOff(u, a) ==
  /\ acc' = [acc EXCEPT ![u] = a]
  /\ sessions' = sessions \ SessionsOf(u)
  /\ reset' = [reset EXCEPT ![u] = None]

----------------------------------------------------------------------------
(* Registration and the founder's seat.                                    *)

StartRegister(o) ==
  /\ Fresh(o, "register")
  /\ Seated => ~settings.ssoOnly
  /\ Start(o, "register", [Blank EXCEPT
             !.keys = IF Seated THEN {Policy} ELSE {SuperAdmin, Policy}])

\* seatFounder decides again under the key; a candidate that lost the seat is an
\* ordinary registration and answers to the policy.
BeginRegister(o) ==
  LET founder == SuperAdmin \in op[o].keys /\ ~Seated
  IN  Begin(o, "register", founder \/ ~settings.ssoOnly,
            [op[o] EXCEPT !.role = IF founder THEN "super" ELSE "member"])

CommitRegister(o) ==
  LET a == [Absent EXCEPT !.role = op[o].role, !.status = "active", !.pw = o]
  IN  /\ Commits(o, "register")
      /\ acc' = [acc EXCEPT ![o] = a]
      /\ claim' = IF a.role = "super" THEN o ELSE claim
      /\ op' = [op EXCEPT ![o] = [@ EXCEPT !.at = "issue", !.user = o, !.seen = a, !.keys = {}]]
      /\ UNCHANGED <<links, reset, sessions, settings, redeemed, load>>

\* Outside any key, from the record the transaction returned.
IssueRegister(o) ==
  /\ op[o].kind = "register" /\ op[o].at = "issue"
  /\ sessions' = sessions \cup {Session(o, o, "register", op[o].seen, None)}
  /\ Ends(o)
  /\ UNCHANGED <<acc, links, reset, settings, claim, redeemed, load>>

----------------------------------------------------------------------------
(* Password sign-in, sign-out and the session hook.                        *)

StartLogin(o) ==
  /\ Fresh(o, "login")
  /\ \E u \in Accounts :
       /\ acc[u].pw # None /\ MayUsePassword(u)
       /\ Start(o, "login", [Blank EXCEPT !.user = u, !.seen = acc[u],
                             !.keys = {Password(u), Lifecycle(u), Policy}])

BeginLogin(o) ==
  LET u == op[o].user
  IN  Begin(o, "login", acc[u].pw = op[o].seen.pw /\ MayUsePassword(u),
            [op[o] EXCEPT !.seen = acc[u]])

CommitLogin(o) ==
  LET u == op[o].user
  IN  /\ Commits(o, "login")
      /\ Active(u) /\ acc[u].pw = op[o].seen.pw
      /\ sessions' = sessions \cup {Session(o, u, "password", op[o].seen, None)}
      /\ Ends(o)
      /\ UNCHANGED <<acc, links, reset, settings, claim, redeemed, load>>

Logout(o) ==
  /\ Fresh(o, "logout")
  /\ \E s \in sessions : sessions' = sessions \ {s}
  /\ Ends(o)
  /\ UNCHANGED <<acc, links, reset, settings, claim, redeemed, load>>

\* The onRequest hook finds a session of an account that is not active.
Visit ==
  \E s \in sessions :
    /\ ~Active(s.user)
    /\ sessions' = sessions \ SessionsOf(s.user)
    /\ UNCHANGED <<acc, links, reset, settings, claim, op, redeemed, load>>

----------------------------------------------------------------------------
(* Reset links and password changes.                                       *)

\* Slip: the link is minted outside the account's lifecycle key.
StartRequest_NoKey(o) ==
  /\ Fresh(o, "request")
  /\ \E u \in Accounts :
       /\ acc[u].role # "none"
       /\ Start(o, "request", [Blank EXCEPT !.user = u])

StartRequest(o) ==
  /\ Fresh(o, "request")
  /\ \E u \in Accounts :
       /\ acc[u].role # "none"
       /\ Start(o, "request", [Blank EXCEPT !.user = u, !.keys = {Lifecycle(u)}])

BeginRequest(o) ==
  LET u == op[o].user
  IN  Begin(o, "request", MayReset(u), [op[o] EXCEPT !.seen = acc[u]])

\* Supersedes an earlier link; `off` is the disable the decision was taken after.
CommitRequest(o) ==
  LET u == op[o].user
  IN  /\ Commits(o, "request")
      /\ reset' = [reset EXCEPT ![u] = [id |-> o, off |-> op[o].seen.off]]
      /\ Ends(o)
      /\ UNCHANGED <<acc, links, sessions, settings, claim, redeemed, load>>

StartReset(o) ==
  /\ Fresh(o, "reset")
  /\ \E u \in Accounts :
       /\ reset[u] # None /\ MayReset(u)
       /\ Start(o, "reset", [Blank EXCEPT !.user = u, !.link = reset[u],
                             !.keys = {Password(u), Policy}])

BeginReset(o) ==
  LET u == op[o].user
  IN  Begin(o, "reset", reset[u] = op[o].link /\ MayReset(u), op[o])

\* markUsed and the write guarded by `status: active`, then every other link and
\* session of the account; redeeming the link proves the mailbox.
CommitReset(o) ==
  LET u == op[o].user
  IN  /\ Commits(o, "reset")
      /\ reset[u] = op[o].link /\ Active(u)
      /\ CutOff(u, [acc[u] EXCEPT !.pw = o, !.proof = TRUE])
      /\ redeemed' = redeemed \cup
           {[link |-> op[o].link.id, by |-> o, off |-> op[o].link.off, at |-> acc[u].off]}
      /\ Ends(o)
      /\ UNCHANGED <<links, settings, claim, load>>

\* updateMe: the current password was checked against the request's own record.
StartChange(o) ==
  /\ Fresh(o, "change")
  /\ \E s \in sessions :
       /\ SignedIn(s) /\ acc[s.user].pw # None
       /\ Start(o, "change", [Blank EXCEPT !.user = s.user, !.seen = acc[s.user],
                              !.keys = {Password(s.user)}])

BeginChange(o) == Begin(o, "change", acc[op[o].user].pw = op[o].seen.pw, op[o])

CommitChange(o) ==
  LET u == op[o].user
      a == [acc[u] EXCEPT !.pw = o]
  IN  /\ Commits(o, "change")
      /\ CutOff(u, a)
      /\ op' = [op EXCEPT ![o] = [@ EXCEPT !.at = "issue", !.seen = a]]
      /\ UNCHANGED <<links, settings, claim, redeemed, load>>

\* A transaction of its own, still under the password key.
IssueChange(o) ==
  /\ op[o].kind = "change" /\ op[o].at = "issue" /\ StoreFree
  /\ sessions' = sessions \cup {Session(o, op[o].user, "change", op[o].seen, None)}
  /\ Ends(o)
  /\ UNCHANGED <<acc, links, reset, settings, claim, redeemed, load>>

----------------------------------------------------------------------------
(* Role and status: updateUser and the god-mode disable.                   *)

Guarded(seen, role, status) ==
  /\ seen.role = "super" /\ seen.status = "active"
  /\ role # "super" \/ status = "disabled"

\* Slip: the recount is only ordered within one process.
TransitionKeys_LifecycleOnly(u, seen, role, status) == {Lifecycle(u)}

TransitionKeys(u, seen, role, status) ==
  {Lifecycle(u)} \cup (IF Guarded(seen, role, status) THEN {SuperAdmin} ELSE {})

StartUpdate(o) ==
  /\ Fresh(o, "update")
  /\ \E s \in sessions, u \in Accounts, role \in Roles, status \in {"active", "disabled"} :
       LET t == acc[u]
           by == acc[s.user]
       IN  /\ SignedIn(s) /\ Rank(by.role) >= 2
           /\ t.role # "none" /\ <<role, status>> # <<t.role, t.status>>
           /\ Rank(role) >= 2 \/ Rank(t.role) >= 2 => by.role = "super"
           /\ Guarded(t, role, status) => ~LastSuper(u)
           /\ status = "disabled" /\ t.status = "active" => u # s.user
           /\ Start(o, "update", [Blank EXCEPT !.user = u, !.role = role,
                                  !.status = status, !.seen = t,
                                  !.keys = TransitionKeys(u, t, role, status)])

\* assertManualAdminPromotionAllowed: a raise to an administrator's role meets
\* every identity on the account.
PromotionAllowed(u, from, to) ==
  Rank(to) >= 2 /\ Rank(to) > Rank(from) =>
    \A l \in LinksOf(u) : l.prov \in Trusted \cap settings.force

BeginUpdate(o) ==
  LET u == op[o].user
  IN  Begin(o, "update",
            /\ Guarded(op[o].seen, op[o].role, op[o].status) => ~LastSuper(u)
            /\ PromotionAllowed(u, op[o].seen.role, op[o].role),
            op[o])

\* The conditional update, and what goes with it: a disable and a raise of the
\* role end the sessions, a change of the status ends the reset link.
CommitUpdate(o) ==
  LET u == op[o].user
      was == op[o].seen
      off == op[o].status = "disabled" /\ was.status = "active"
      on == op[o].status = "active" /\ was.status = "disabled"
      raised == Rank(op[o].role) > Rank(was.role)
  IN  /\ Commits(o, "update")
      /\ acc[u].role = was.role /\ acc[u].status = was.status
      /\ acc' = [acc EXCEPT ![u] =
                   [@ EXCEPT !.role = op[o].role, !.status = op[o].status,
                             !.era = IF off \/ raised THEN o ELSE acc[u].era,
                             !.off = IF off THEN o ELSE acc[u].off]]
      /\ sessions' = IF off \/ raised THEN sessions \ SessionsOf(u) ELSE sessions
      /\ reset' = IF off \/ on THEN [reset EXCEPT ![u] = None] ELSE reset
      /\ Ends(o)
      /\ UNCHANGED <<links, settings, claim, redeemed, load>>

StartGod(o) ==
  /\ Fresh(o, "god")
  /\ \E s \in sessions, u \in Accounts :
       /\ SignedIn(s) /\ acc[s.user].role = "super" /\ u # s.user
       /\ acc[u].role # "none"
       /\ Super(u) => ~LastSuper(u)
       /\ Start(o, "god", [Blank EXCEPT !.user = u, !.seen = acc[u],
                           !.keys = TransitionKeys(u, acc[u], acc[u].role, "disabled")])

SameTarget(o) ==
  LET u == op[o].user
  IN  acc[u].role = op[o].seen.role /\ acc[u].status = op[o].seen.status

BeginGod(o) == Begin(o, "god", SameTarget(o) /\ (Super(op[o].user) => ~LastSuper(op[o].user)), op[o])

CommitGod(o) ==
  LET u == op[o].user
  IN  /\ Commits(o, "god")
      /\ SameTarget(o)
      /\ CutOff(u, [acc[u] EXCEPT !.status = "disabled", !.era = o, !.off = o])
      /\ Ends(o)
      /\ UNCHANGED <<links, settings, claim, redeemed, load>>

----------------------------------------------------------------------------
(* Single sign-on.                                                         *)

\* The role planClaimsChange leaves the account with.
Mapped(u, p, role) == IF acc[u].role # "super" /\ p \in Synced THEN role ELSE acc[u].role

\* A provider that re-applies roles and is not trusted maps nothing to admin.
Mappings(p) == IF p \in Synced \ Trusted THEN {"member"} ELSE {"member", "admin"}

PrivilegedAutoLink(u, p, role) == Rank(acc[u].role) >= 2 \/ Rank(Mapped(u, p, role)) >= 2

\* currentSettings: the provider is in force, enabled and as the callback read it.
CurrentSettings(p, conf) ==
  /\ p \in settings.force \cap settings.enabled
  /\ p \in settings.strict <=> p \in conf.strict

\* planSignIn and planExplicitLink: the plan and the account it reaches.  `session`
\* is the one an explicit link returned to.
Plans(p, role, session) ==
  LET own == IF session = None THEN {} ELSE {session.user}
      linked == {l \in links : l.prov = p /\ Active(l.user) /\
                               (session = None \/ l.user \in own)}
      open == {u \in Accounts : Active(u) /\ \A l \in LinksOf(u) : l.prov # p}
  IN  {[how |-> "returning", user |-> l.user, link |-> l] : l \in linked}
      \cup {[how |-> "explicit", user |-> u, link |-> None] :
              u \in {v \in open \cap own :
                       acc[v].proof \/ (acc[v].role = "super" /\ claim = v)}}
      \cup {[how |-> "auto", user |-> u, link |-> None] :
              u \in {v \in open : session = None /\ acc[v].proof
                                  /\ ~PrivilegedAutoLink(v, p, role)}}
      \cup (IF session = None THEN {[how |-> "provision", user |-> None, link |-> None]} ELSE {})

\* Slip: a sign-in into an existing account takes the provider's key only.
SignInKeys_ProviderOnly(p, plan) == IF plan.how = "returning" THEN {} ELSE {Provider(p)}

SignInKeys(p, plan) ==
  (IF plan.how = "returning" THEN {} ELSE {Provider(p)})
  \cup (IF plan.how = "provision" THEN {} ELSE {Lifecycle(plan.user)})

StartSignIn(o) ==
  /\ Fresh(o, "sso")
  /\ \E p \in settings.force \cap settings.enabled, s \in sessions \cup {None} :
       \E role \in Mappings(p) : \E plan \in Plans(p, role, s) :
         /\ s # None => SignedIn(s)
         /\ Start(o, "sso", [Blank EXCEPT !.prov = p, !.session = s, !.role = role,
                             !.status = plan.how, !.user = plan.user, !.link = plan.link,
                             !.conf = settings, !.keys = SignInKeys(p, plan)])

\* The role this sign-in leaves: a raise to admin is withheld while a provider of
\* lower trust can open the account (lowerTrustProviders).
Granted(u, p, role) ==
  LET to == Mapped(u, p, role)
      lower == {l \in LinksOf(u) : l.prov # p /\ l.prov \notin Trusted \cap settings.force}
  IN  IF Rank(to) >= 2 /\ Rank(acc[u].role) < 2 /\ lower # {} THEN acc[u].role ELSE to

\* Slip: an automatic link trusts the role its plan was made with.
BeginSignIn_TrustsPlan(o) ==
  LET u == op[o].user
      p == op[o].prov
      new == op[o].status = "provision"
  IN  Begin(o, "sso",
            /\ CurrentSettings(p, op[o].conf)
            /\ ~new => Active(u)
            /\ op[o].session # None => op[o].session \in sessions,
            IF new THEN op[o]
            ELSE [op[o] EXCEPT !.role = Granted(u, p, op[o].role), !.seen = acc[u]])

BeginSignIn(o) ==
  LET u == op[o].user
      p == op[o].prov
      new == op[o].status = "provision"
  IN  Begin(o, "sso",
            /\ CurrentSettings(p, op[o].conf)
            /\ ~new => Active(u)
            /\ op[o].session # None => op[o].session \in sessions
            /\ op[o].status = "auto" => ~PrivilegedAutoLink(u, p, op[o].role),
            IF new THEN op[o]
            ELSE [op[o] EXCEPT !.role = Granted(u, p, op[o].role), !.seen = acc[u]])

\* Provisioning: the account, its link, the password lock and the session.
CommitProvision(o) ==
  LET a == [Absent EXCEPT !.role = op[o].role, !.status = "active", !.locked = TRUE]
      l == [user |-> o, prov |-> op[o].prov, id |-> o, how |-> "provision"]
  IN  /\ Commits(o, "sso") /\ op[o].status = "provision"
      /\ \E proof \in BOOLEAN : acc' = [acc EXCEPT ![o] = [a EXCEPT !.proof = proof]]
      /\ links' = links \cup {l}
      /\ sessions' = sessions \cup {Session(o, o, "sso", a, l)}
      /\ Ends(o)
      /\ UNCHANGED <<reset, settings, claim, redeemed, load>>

\* Slip: nothing keeps an account to one identity at a provider.
Attach_NotUnique(o) ==
  IF op[o].status = "returning"
  THEN /\ op[o].link \in links
       /\ UNCHANGED links
  ELSE links' = links \cup
         {[user |-> op[o].user, prov |-> op[o].prov, id |-> o, how |-> op[o].status]}

\* The identity row: created under its unique (user, provider), or touched, which
\* fails when it was unlinked meanwhile.
Attach(o) ==
  LET l == [user |-> op[o].user, prov |-> op[o].prov, id |-> o, how |-> op[o].status]
  IN  IF op[o].status = "returning"
      THEN /\ op[o].link \in links
           /\ UNCHANGED links
      ELSE /\ \A k \in LinksOf(l.user) : k.prov # l.prov
           /\ links' = links \cup {l}

CommitSignIn(o) ==
  LET u == op[o].user
      was == op[o].seen
      raised == Rank(op[o].role) > Rank(was.role)
      a == [acc[u] EXCEPT !.role = IF op[o].role # was.role THEN op[o].role ELSE @,
                          !.proof = @ \/ op[o].status = "auto",
                          !.era = IF raised THEN o ELSE @]
      l == IF op[o].status = "returning" THEN op[o].link
           ELSE [user |-> u, prov |-> op[o].prov, id |-> o, how |-> op[o].status]
  IN  /\ Commits(o, "sso") /\ op[o].status # "provision"
      /\ Attach(o)
      /\ op[o].role # was.role => acc[u].role = was.role /\ Active(u)
      /\ acc' = [acc EXCEPT ![u] = a]
      /\ sessions' = (IF raised THEN sessions \ SessionsOf(u) ELSE sessions)
                     \cup {Session(o, u, "sso", [was EXCEPT !.era = IF raised THEN o ELSE @], l)}
      /\ Ends(o)
      /\ UNCHANGED <<reset, settings, claim, redeemed, load>>

\* A returning sign-in whose claims map to no role.
StartDeprovision(o) ==
  /\ Fresh(o, "deprovision")
  /\ \E l \in links :
       /\ l.prov \in settings.force \cap settings.enabled /\ settings.offboard
       /\ Active(l.user) /\ acc[l.user].role # "super"
       /\ Start(o, "deprovision", [Blank EXCEPT !.user = l.user, !.prov = l.prov,
                                   !.conf = settings,
                                   !.keys = {Provider(l.prov), Lifecycle(l.user)}])

BeginDeprovision(o) ==
  LET u == op[o].user
  IN  Begin(o, "deprovision",
            /\ CurrentSettings(op[o].prov, op[o].conf) /\ settings.offboard
            /\ Active(u) /\ acc[u].role # "super",
            [op[o] EXCEPT !.seen = acc[u]])

CommitDeprovision(o) ==
  LET u == op[o].user
  IN  /\ Commits(o, "deprovision")
      /\ SameTarget(o)
      /\ CutOff(u, [acc[u] EXCEPT !.status = "disabled", !.era = o, !.off = o])
      /\ Ends(o)
      /\ UNCHANGED <<links, settings, claim, redeemed, load>>

\* One transaction and no key: the identity's row orders it.
Unlink(o) ==
  /\ Fresh(o, "unlink") /\ StoreFree
  /\ \E l \in links, s \in sessions :
       /\ SignedIn(s)
       /\ Rank(acc[s.user].role) >= (IF Rank(acc[l.user].role) >= 2 THEN 3 ELSE 2)
       /\ links' = links \ {l}
       /\ sessions' = sessions \ SessionsOf(l.user)
  /\ Ends(o)
  /\ UNCHANGED <<acc, reset, settings, claim, redeemed, load>>

----------------------------------------------------------------------------
(* The single sign-on settings.                                            *)

Toggle(S, x) == IF x \in S THEN S \ {x} ELSE S \cup {x}

\* One setting changed: a provider removed or added, disabled or enabled, its
\* password rule, the login policy, the offboarding rule.
Saves(s) ==
  {[s EXCEPT !.force = Toggle(@, p), !.enabled = IF p \in s.force THEN @ \ {p} ELSE @ \cup {p},
             !.strict = @ \ {p}] : p \in Providers}
  \cup {[s EXCEPT !.enabled = Toggle(@, p)] : p \in s.force}
  \cup {[s EXCEPT !.strict = Toggle(@, p)] : p \in s.force}
  \cup {[s EXCEPT !.ssoOnly = ~@], [s EXCEPT !.offboard = ~@]}

StartSave(o) ==
  /\ Fresh(o, "save")
  /\ \E s \in sessions, next \in Saves(settings) :
       /\ SignedIn(s) /\ acc[s.user].role = "super"
       /\ next.ssoOnly => \E l \in LinksOf(s.user) : l.prov \in next.enabled
       /\ Start(o, "save", [Blank EXCEPT !.conf = settings, !.link = next,
                            !.keys = {SsoSettings, Policy} \cup
                                     {Provider(p) : p \in settings.force \cup next.force}])

\* A compare-and-swap against the settings the save was worked out from.
BeginSave(o) == Begin(o, "save", settings = op[o].conf, op[o])

\* Removed providers lose their links; the accounts linked to a provider removed
\* or disabled lose their sessions.
CommitSave(o) ==
  LET next == op[o].link
      cut == settings.enabled \ next.enabled
      gone == settings.force \ next.force
      hit == {l.user : l \in {k \in links : k.prov \in cut \cup gone}}
  IN  /\ Commits(o, "save")
      /\ settings' = next
      /\ links' = {l \in links : l.prov \notin gone}
      /\ sessions' = {s \in sessions : s.user \notin hit}
      /\ Ends(o)
      /\ UNCHANGED <<acc, reset, claim, redeemed, load>>

----------------------------------------------------------------------------
Next ==
  \/ Visit
  \/ \E o \in Ops :
       \/ StartRegister(o) \/ BeginRegister(o) \/ CommitRegister(o) \/ IssueRegister(o)
       \/ StartLogin(o) \/ BeginLogin(o) \/ CommitLogin(o) \/ Logout(o)
       \/ StartRequest(o) \/ BeginRequest(o) \/ CommitRequest(o)
       \/ StartReset(o) \/ BeginReset(o) \/ CommitReset(o)
       \/ StartChange(o) \/ BeginChange(o) \/ CommitChange(o) \/ IssueChange(o)
       \/ StartUpdate(o) \/ BeginUpdate(o) \/ CommitUpdate(o)
       \/ StartGod(o) \/ BeginGod(o) \/ CommitGod(o)
       \/ StartSignIn(o) \/ BeginSignIn(o) \/ CommitProvision(o) \/ CommitSignIn(o)
       \/ StartDeprovision(o) \/ BeginDeprovision(o) \/ CommitDeprovision(o)
       \/ Unlink(o)
       \/ StartSave(o) \/ BeginSave(o) \/ CommitSave(o)
       \/ Abort(o)

Spec == Init /\ [][Next]_vars

----------------------------------------------------------------------------
AccountRecords ==
  [role : Roles \cup {"none"}, status : {"none", "active", "disabled"}, pw : Ids \cup {None},
   proof : BOOLEAN, locked : BOOLEAN, era : Ids, off : Ids]

\* Types, and the unique constraint of user_identities: an account holds one
\* identity at a provider, whatever two sign-ins link at once.
AccountsTypeOK ==
  /\ acc \in [Accounts -> AccountRecords]
  /\ links \subseteq [user : Accounts, prov : Providers, id : Ids,
                      how : {"explicit", "auto", "provision"}]
  /\ \A l, k \in links : l.user = k.user /\ l.prov = k.prov => l = k
  /\ reset \in [Accounts -> [id : Ops, off : Ids] \cup {None}]
  /\ \A s \in sessions :
       /\ s.user \in Accounts /\ acc[s.user].role # "none"
       /\ s.how \in {"password", "change", "register", "sso"}
  /\ settings.enabled \cup settings.strict \subseteq settings.force
  /\ settings.force \subseteq Providers
  /\ claim \in Accounts \cup {None}
  /\ \A o \in Ops : op[o].kind \in AllKinds \cup {"none"}

\* A portal that has an active super admin always keeps one, whatever
\* transitions run at once, and a founder is seated only while there is none.
SeatIsKept ==
  [][ /\ Seated => Seated'
      /\ claim' # claim => ~Seated ]_vars

\* A session opened with a password, or by changing it, dies with that password;
\* one opened by a sign-in of either kind dies when the account is disabled or
\* raised; and one opened through an identity dies with the identity, because
\* unlinkIdentity and a save that removes the provider delete the sessions of the
\* account in the transaction that deletes the link.  (docs/security.md:757 and 794
\* say that neither ends a session.)
SessionsAreCurrent ==
  \A s \in sessions :
    /\ s.how \in {"password", "change"} => s.pw = acc[s.user].pw
    /\ s.how \in {"password", "sso"} => s.era = acc[s.user].era
    /\ s.how = "sso" => s.link \in links

\* A reset link belongs to an active account and was decided on after its last
\* disable, even when a re-enable followed; it sets one password at most, and
\* none across a disable.
ResetLinksAreFresh ==
  /\ \A u \in Accounts : reset[u] # None => Active(u) /\ reset[u].off = acc[u].off
  /\ \A r \in redeemed : r.off = r.at
  /\ \A r, q \in redeemed : r.link = q.link => r.by = q.by

\* What a commit hands out is justified by the state it commits to, not by what
\* the operation read before: a password opens a session only where the policies
\* and the account's identities let it, an account is raised to an administrator's
\* role only with trusted identities on it, and an identity lands on an
\* administrator's account only when its holder linked it explicitly.
AuthorityIsCurrent ==
  [][ /\ \A s \in sessions' \ sessions : s.how = "password" => MayUsePassword(s.user)
      /\ \A u \in Accounts :
           acc[u].role # "none" /\ Rank(acc'[u].role) > Rank(acc[u].role) =>
             \A l \in links' : l.user = u => l.prov \in Trusted
      /\ \A l \in links' \ links : l.how = "auto" => acc'[l.user].role = "member" ]_vars

\* A session opened through a provider does not outlive a save that disables or
\* removes it: the save deletes the sessions it finds ("end with it", sso/service.ts),
\* and a sign-in that read the settings before the save does not commit after it.
\* A returning sign-in has no key for that; it rests on the store's queue, so this
\* is a property of the supported topology, one instance (docs/security.md:745-756).
CutOffEndsSessions ==
  OneStore => \A s \in sessions : s.how = "sso" => s.link.prov \in settings.enabled
=============================================================================
