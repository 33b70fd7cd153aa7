---------------------------- MODULE AccountsProofs ----------------------------

(***************************************************************************)
(* Theorems about Accounts, for any operations, accounts and providers.    *)
(***************************************************************************)
EXTENDS Accounts, TLAPS

Stages == {"idle", "start", "begun", "issue", "done"}
Plan == {"returning", "explicit", "auto", "provision"}
Hows == {"password", "change", "register", "sso"}
AllKeys == {Policy, SuperAdmin, SsoSettings} \cup {Provider(p) : p \in Providers}
             \cup {Password(u) : u \in Accounts} \cup {Lifecycle(u) : u \in Accounts}

LinkRecords == [user : Accounts, prov : Providers, id : Ids,
                how : {"explicit", "auto", "provision"}]
ResetRecords == [id : Ops, off : Ids]
SettingsRecords == [force : SUBSET Providers, enabled : SUBSET Providers,
                    strict : SUBSET Providers, ssoOnly : BOOLEAN, offboard : BOOLEAN]
SessionRecords == [user : Accounts, id : Ids, how : Hows, pw : Ids \cup {None}, era : Ids,
                   link : LinkRecords \cup {None}]
Statuses == Plan \cup {"none", "active", "disabled"}
Targets == LinkRecords \cup ResetRecords \cup SettingsRecords \cup {None}
OpRecords ==
  [kind : AllKinds \cup {"none"}, at : Stages, user : Accounts \cup {None},
   prov : Providers \cup {None}, role : Roles \cup {"none"},
   status : Statuses, link : Targets,
   session : SessionRecords \cup {None}, seen : AccountRecords,
   conf : SettingsRecords \cup {None}, keys : SUBSET AllKeys]

(* Updating fields of an account gives an account. *)
LEMMA AccountUpdates ==
  ASSUME NEW a \in AccountRecords, NEW r \in Roles \cup {"none"},
         NEW s \in {"none", "active", "disabled"}, NEW w \in Ids \cup {None},
         NEW b \in BOOLEAN, NEW e \in Ids, NEW f \in Ids
  PROVE  /\ [a EXCEPT !.pw = w] \in AccountRecords
         /\ [a EXCEPT !.proof = b] \in AccountRecords
         /\ [a EXCEPT !.era = e] \in AccountRecords
         /\ [a EXCEPT !.pw = w, !.proof = b] \in AccountRecords
         /\ [a EXCEPT !.role = r, !.status = s, !.pw = w] \in AccountRecords
         /\ [a EXCEPT !.role = r, !.status = s, !.pw = w, !.proof = b] \in AccountRecords
         /\ [a EXCEPT !.role = r, !.status = s, !.era = e, !.off = f] \in AccountRecords
         /\ [a EXCEPT !.status = s, !.era = e, !.off = f] \in AccountRecords
         /\ [a EXCEPT !.role = r, !.status = s, !.locked = b] \in AccountRecords
         /\ [a EXCEPT !.role = r, !.proof = b, !.era = e] \in AccountRecords
  BY Zenon DEF AccountRecords

(* And of what an operation is doing. *)
LEMMA OpUpdates ==
  ASSUME NEW r \in OpRecords
  PROVE  /\ \A k \in AllKinds \cup {"none"}, t \in Stages :
              [r EXCEPT !.kind = k, !.at = t] \in OpRecords
         /\ \A t \in Stages :
              [r EXCEPT !.at = t] \in OpRecords
         /\ \A ks \in SUBSET AllKeys :
              [r EXCEPT !.keys = ks] \in OpRecords
         /\ \A u \in Accounts \cup {None}, ks \in SUBSET AllKeys :
              [r EXCEPT !.user = u, !.keys = ks] \in OpRecords
         /\ \A u \in Accounts \cup {None}, a \in AccountRecords, ks \in SUBSET AllKeys :
              [r EXCEPT !.user = u, !.seen = a, !.keys = ks] \in OpRecords
         /\ \A u \in Accounts \cup {None}, l \in Targets, ks \in SUBSET AllKeys :
              [r EXCEPT !.user = u, !.link = l, !.keys = ks] \in OpRecords
         /\ \A u \in Accounts \cup {None}, x \in Roles \cup {"none"}, h \in Statuses,
                a \in AccountRecords, ks \in SUBSET AllKeys :
              [r EXCEPT !.user = u, !.role = x, !.status = h, !.seen = a, !.keys = ks] \in OpRecords
         /\ \A p \in Providers \cup {None}, s \in SessionRecords \cup {None},
                x \in Roles \cup {"none"}, h \in Statuses, u \in Accounts \cup {None},
                l \in Targets, c \in SettingsRecords \cup {None}, ks \in SUBSET AllKeys :
              [r EXCEPT !.prov = p, !.session = s, !.role = x, !.status = h, !.user = u,
                  !.link = l, !.conf = c, !.keys = ks] \in OpRecords
         /\ \A u \in Accounts \cup {None}, p \in Providers \cup {None},
                c \in SettingsRecords \cup {None}, ks \in SUBSET AllKeys :
              [r EXCEPT !.user = u, !.prov = p, !.conf = c, !.keys = ks] \in OpRecords
         /\ \A c \in SettingsRecords \cup {None}, l \in Targets, ks \in SUBSET AllKeys :
              [r EXCEPT !.conf = c, !.link = l, !.keys = ks] \in OpRecords
         /\ \A x \in Roles \cup {"none"} :
              [r EXCEPT !.role = x] \in OpRecords
         /\ \A a \in AccountRecords :
              [r EXCEPT !.seen = a] \in OpRecords
         /\ \A x \in Roles \cup {"none"}, a \in AccountRecords :
              [r EXCEPT !.role = x, !.seen = a] \in OpRecords
         /\ \A t \in Stages, u \in Accounts \cup {None}, a \in AccountRecords,
                ks \in SUBSET AllKeys :
              [r EXCEPT !.at = t, !.user = u, !.seen = a, !.keys = ks] \in OpRecords
         /\ \A t \in Stages, a \in AccountRecords :
              [r EXCEPT !.at = t, !.seen = a] \in OpRecords
  <1>1. ASSUME NEW k \in AllKinds \cup {"none"}, NEW t \in Stages
        PROVE  [r EXCEPT !.kind = k, !.at = t] \in OpRecords
    BY Zenon DEF OpRecords
  <1>2. ASSUME NEW t \in Stages
        PROVE  [r EXCEPT !.at = t] \in OpRecords
    BY Zenon DEF OpRecords
  <1>3. ASSUME NEW ks \in SUBSET AllKeys
        PROVE  [r EXCEPT !.keys = ks] \in OpRecords
    BY Zenon DEF OpRecords
  <1>4. ASSUME NEW u \in Accounts \cup {None}, NEW ks \in SUBSET AllKeys
        PROVE  [r EXCEPT !.user = u, !.keys = ks] \in OpRecords
    BY Zenon DEF OpRecords
  <1>5. ASSUME NEW u \in Accounts \cup {None}, NEW a \in AccountRecords, NEW ks \in SUBSET AllKeys
        PROVE  [r EXCEPT !.user = u, !.seen = a, !.keys = ks] \in OpRecords
    BY Zenon DEF OpRecords
  <1>6. ASSUME NEW u \in Accounts \cup {None}, NEW l \in Targets, NEW ks \in SUBSET AllKeys
        PROVE  [r EXCEPT !.user = u, !.link = l, !.keys = ks] \in OpRecords
    BY Zenon DEF OpRecords
  <1>7. ASSUME NEW u \in Accounts \cup {None}, NEW x \in Roles \cup {"none"}, NEW h \in Statuses,
               NEW a \in AccountRecords, NEW ks \in SUBSET AllKeys
        PROVE  [r EXCEPT !.user = u, !.role = x, !.status = h, !.seen = a,
                   !.keys = ks] \in OpRecords
    BY ZenonT(90) DEF OpRecords
  <1>8. ASSUME NEW p \in Providers \cup {None}, NEW s \in SessionRecords \cup {None},
               NEW x \in Roles \cup {"none"}, NEW h \in Statuses, NEW u \in Accounts \cup {None},
               NEW l \in Targets, NEW c \in SettingsRecords \cup {None},
                       NEW ks \in SUBSET AllKeys
        PROVE  [r EXCEPT !.prov = p, !.session = s, !.role = x, !.status = h, !.user = u,
                   !.link = l, !.conf = c, !.keys = ks] \in OpRecords
    BY ZenonT(90) DEF OpRecords
  <1>9. ASSUME NEW u \in Accounts \cup {None}, NEW p \in Providers \cup {None},
               NEW c \in SettingsRecords \cup {None}, NEW ks \in SUBSET AllKeys
        PROVE  [r EXCEPT !.user = u, !.prov = p, !.conf = c, !.keys = ks] \in OpRecords
    BY ZenonT(90) DEF OpRecords
  <1>10. ASSUME NEW c \in SettingsRecords \cup {None}, NEW l \in Targets, NEW ks \in SUBSET AllKeys
        PROVE  [r EXCEPT !.conf = c, !.link = l, !.keys = ks] \in OpRecords
    BY Zenon DEF OpRecords
  <1>11. ASSUME NEW x \in Roles \cup {"none"}
        PROVE  [r EXCEPT !.role = x] \in OpRecords
    BY Zenon DEF OpRecords
  <1>12. ASSUME NEW a \in AccountRecords
        PROVE  [r EXCEPT !.seen = a] \in OpRecords
    BY Zenon DEF OpRecords
  <1>13. ASSUME NEW x \in Roles \cup {"none"}, NEW a \in AccountRecords
        PROVE  [r EXCEPT !.role = x, !.seen = a] \in OpRecords
    BY Zenon DEF OpRecords
  <1>14. ASSUME NEW t \in Stages, NEW u \in Accounts \cup {None}, NEW a \in AccountRecords,
                NEW ks \in SUBSET AllKeys
        PROVE  [r EXCEPT !.at = t, !.user = u, !.seen = a, !.keys = ks] \in OpRecords
    BY ZenonT(90) DEF OpRecords
  <1>15. ASSUME NEW t \in Stages, NEW a \in AccountRecords
        PROVE  [r EXCEPT !.at = t, !.seen = a] \in OpRecords
    BY Zenon DEF OpRecords
  <1> QED
    BY <1>1, <1>2, <1>3, <1>4, <1>5, <1>6, <1>7, <1>8, <1>9, <1>10, <1>11, <1>12, <1>13, <1>14,
       <1>15

LEMMA Constants == Absent \in AccountRecords /\ Blank \in OpRecords /\ Done \in OpRecords
  <1>1. Absent \in AccountRecords
    BY DEF Absent, AccountRecords, Ids
  <1>2. Blank \in OpRecords
    BY <1>1 DEF Blank, OpRecords, Stages, Statuses, Targets
  <1>3. Done \in OpRecords
    BY <1>2 DEF Done, OpRecords, Stages
  <1> QED
    BY <1>1, <1>2, <1>3

-----------------------------------------------------------------------------

(* Somebody holds the account. *)
Born(u) == acc[u].role # "none"

(* What an operation q of id o carries, by its kind: whom it is about and  *)
(* the keys it waits for.                                                  *)
AboutSomebody == {"login", "request", "reset", "change", "update", "god", "deprovision"}
Fits(o, q) ==
  /\ q.kind = "none" <=> q.at \in {"idle", "done"}
  /\ q.at = "issue" => q.kind \in {"register", "change"}
  /\ q.at \in {"idle", "start", "begun"} => ~Born(o)
  /\ q.kind \in AboutSomebody => q.user \in Accounts /\ Born(q.user)
  /\ q.kind = "register" =>
       /\ q.at = "begun" => q.role \in {"super", "member"}
       /\ q.at = "begun" /\ q.role = "super" => SuperAdmin \in q.keys
       /\ q.at = "issue" => q.user = o /\ Born(o)
  /\ q.kind = "login" => {Password(q.user), Lifecycle(q.user), Policy} \subseteq q.keys
  /\ q.kind = "request" => Lifecycle(q.user) \in q.keys
  /\ q.kind = "reset" =>
       q.link \in ResetRecords /\ q.link # None /\ Password(q.user) \in q.keys
  /\ q.kind = "change" => Password(q.user) \in q.keys
  /\ q.kind = "update" =>
       /\ q.role \in Roles /\ q.status \in {"active", "disabled"}
       /\ q.seen.role # "none" /\ q.seen.status # "none"
       /\ q.keys = TransitionKeys(q.user, q.seen, q.role, q.status)
  /\ q.kind = "god" => q.keys = TransitionKeys(q.user, q.seen, q.seen.role, "disabled")
  /\ q.kind = "deprovision" => Lifecycle(q.user) \in q.keys
  /\ q.kind = "sso" =>
       /\ q.prov \in Providers /\ q.status \in Plan /\ q.role \in Roles
       /\ q.at = "start" \/ q.status = "provision" => q.role \in Mappings(q.prov)
       /\ q.status # "provision" =>
            q.user \in Accounts /\ Born(q.user) /\ Lifecycle(q.user) \in q.keys
       /\ q.status = "returning" =>
            q.link \in LinkRecords /\ q.link.user = q.user /\ q.link.prov = q.prov
  /\ q.kind = "save" =>
       /\ q.link \in SettingsRecords
       /\ q.link.enabled \cup q.link.strict \subseteq q.link.force
       /\ Policy \in q.keys

People == /\ acc \in [Accounts -> AccountRecords]
          /\ \A u \in Accounts : Born(u) <=> acc[u].status # "none"
Tasks == op \in [Ops -> OpRecords] /\ \A o \in Ops : Fits(o, op[o])
Doors == /\ links \subseteq LinkRecords
         /\ \A l, k \in links : l.user = k.user /\ l.prov = k.prov => l = k
         /\ \A l \in links : Born(l.user)
         /\ sessions \subseteq SessionRecords
         /\ \A s \in sessions : Born(s.user)
         /\ \A s \in sessions : s.how = "sso" => s.link \in LinkRecords /\ s.link.user = s.user
Papers == /\ reset \in [Accounts -> ResetRecords \cup {None}]
          /\ settings \in SettingsRecords
          /\ settings.enabled \cup settings.strict \subseteq settings.force
          /\ claim \in Accounts \cup {None}
WellFormed == People /\ Tasks /\ Doors /\ Papers

(* The keys an operation holds are its own. *)
Exclusive == \A o, q \in Ops : o # q => Held(o) \cap Held(q) = {}

(* Whoever moves a super admin out of the seat has counted another one; a  *)
(* founder has counted none; and a super admin is made by one.             *)
OtherSuper(u) == \E v \in Accounts : v # u /\ Super(v)
Counted(q) ==
  /\ q.kind = "update" /\ q.at = "begun" /\ Guarded(q.seen, q.role, q.status) =>
       OtherSuper(q.user)
  /\ q.kind = "god" /\ q.at = "begun" /\ q.seen.role = "super" /\ q.seen.status = "active" =>
       OtherSuper(q.user)
  /\ q.kind = "register" /\ q.at = "begun" /\ q.role = "super" => ~Seated
  /\ q.kind = "update" /\ q.role = "super" => Seated
  /\ q.kind = "deprovision" /\ q.at = "begun" => q.seen.role # "super"
  /\ q.kind = "sso" /\ q.at = "begun" /\ q.status # "provision" =>
       (q.role = "super" <=> q.seen.role = "super")
SeatIsCounted == \A o \in Ops : Counted(op[o])

(* What was read of an account under its lifecycle key holds until commit. *)
UnderLifecycle(q) ==
  /\ q.at = "begun"
  /\ q.kind \in {"login", "request", "deprovision"} \/ (q.kind = "sso" /\ q.status # "provision")
Seen(q) ==
  LET a == acc[q.user]
  IN  UnderLifecycle(q) =>
        /\ a.role = q.seen.role /\ a.status = q.seen.status
        /\ a.era = q.seen.era /\ a.off = q.seen.off
        /\ a.status = "active"
LifecycleIsKept == \A o \in Ops : Seen(op[o])

(* And its password under the password key. *)
PasswordIsKept ==
  \A o \in Ops :
    op[o].kind = "change" /\ op[o].at = "issue" => acc[op[o].user].pw = op[o].seen.pw

(* A link is minted once and redeemed once. *)
LinksAreMintedOnce ==
  /\ \A u \in Accounts : reset[u] # None => op[reset[u].id].at = "done"
  /\ \A u, v \in Accounts :
       reset[u] # None /\ reset[v] # None /\ reset[u].id = reset[v].id => u = v
  /\ \A r \in redeemed :
       /\ op[r.link].at = "done" /\ r.link \in Ops
       /\ \A u \in Accounts : reset[u] # None => reset[u].id # r.link

(* What a login and a promotion were admitted for holds until they commit. *)
Admitted(q) ==
  q.at = "begun" =>
    /\ q.kind = "login" => MayUsePassword(q.user)
    /\ q.kind = "update" => PromotionAllowed(q.user, q.seen.role, q.role)
    /\ q.kind = "sso" /\ q.status # "provision" /\ Rank(q.role) >= 2 /\ q.role # q.seen.role =>
         /\ q.prov \in Trusted
         /\ \A l \in LinksOf(q.user) : l.prov \in Trusted
    /\ q.kind = "sso" /\ q.status = "auto" => q.role = "member" /\ q.seen.role = "member"
AdmissionsHold == \A o \in Ops : Admitted(op[o])

-----------------------------------------------------------------------------

(* Only the record of one operation changes. *)
OpStep(o) == op'[o] \in OpRecords /\ op' = [op EXCEPT ![o] = op'[o]]

LEMMA OpStepIs ==
  ASSUME WellFormed, NEW o \in Ops, NEW r \in OpRecords, op' = [op EXCEPT ![o] = r]
  PROVE  OpStep(o) /\ op'[o] = r /\ \A q \in Ops : q # o => op'[q] = op[q]
  BY DEF WellFormed, Tasks, OpStep

Still == UNCHANGED <<acc, links, reset, sessions, settings, claim, redeemed, load>>

(* The first reads of the operations. *)
Starting(o) == op[o].at = "idle" /\ op'[o].at = "start" /\ OpStep(o) /\ Still

LEMMA RegisterStarts ==
  ASSUME WellFormed, NEW o \in Ops, StartRegister(o)
  PROVE  /\ Starting(o) /\ op'[o].kind = "register" /\ Fits(o, op'[o])
  <1>1. Start(o, "register", [Blank EXCEPT !.keys =
            IF Seated THEN {Policy} ELSE {SuperAdmin, Policy}])
    BY Zenon DEF StartRegister
  <1> DEFINE b == [Blank EXCEPT !.keys = IF Seated THEN {Policy} ELSE {SuperAdmin, Policy}]
             r == [b EXCEPT !.kind = "register", !.at = "start"]
  <1>2. (IF Seated THEN {Policy} ELSE {SuperAdmin, Policy}) \in SUBSET AllKeys
    BY <1>1 DEF AllKeys
  <1>3. b \in OpRecords
    BY <1>2, Constants, OpUpdates, Zenon
  <1>4. "register" \in AllKinds \cup {"none"} /\ "start" \in Stages
    BY DEF AllKinds, Stages
  <1>5. r \in OpRecords
    BY <1>3, <1>4, OpUpdates, Zenon
  <1>6. op' = [op EXCEPT ![o] = r] /\ Still /\ op[o].at = "idle"
    BY <1>1 DEF StartRegister, Start, Still, Fresh
  <1>7. r.kind = "register" /\ r.at = "start"
        /\ r.keys = IF Seated THEN {Policy} ELSE {SuperAdmin, Policy}
    BY DEF Blank
  <1>8. ~Born(o)
    BY <1>6 DEF WellFormed, Tasks, Fits
  <1>9. Fits(o, r)
    <2> HIDE DEF r
    <2> QED
      BY <1>1, <1>2, <1>7, <1>8 DEF Fits, AboutSomebody
  <1> QED
    BY <1>5, <1>6, <1>7, <1>9, OpStepIs DEF Starting

LEMMA LoginStarts ==
  ASSUME WellFormed, NEW o \in Ops, StartLogin(o)
  PROVE  /\ Starting(o) /\ op'[o].kind = "login" /\ Fits(o, op'[o])
  <1>1. PICK u \in Accounts :
          /\ acc[u].pw # None /\ MayUsePassword(u)
          /\ Start(o, "login", [Blank EXCEPT !.user = u, !.seen = acc[u],
                 !.keys = {Password(u), Lifecycle(u), Policy}])
    BY Zenon DEF StartLogin
  <1> DEFINE b == [Blank EXCEPT !.user = u, !.seen = acc[u],
                 !.keys = {Password(u), Lifecycle(u), Policy}]
             r == [b EXCEPT !.kind = "login", !.at = "start"]
  <1>2. acc[u] \in AccountRecords /\ {Password(u), Lifecycle(u), Policy} \in SUBSET AllKeys
        /\ Born(u)
    BY <1>1 DEF WellFormed, People, AllKeys, MayUsePassword, Active
  <1>3. b \in OpRecords
    BY <1>2, Constants, OpUpdates, Zenon
  <1>4. "login" \in AllKinds \cup {"none"} /\ "start" \in Stages
    BY DEF AllKinds, Stages
  <1>5. r \in OpRecords
    BY <1>3, <1>4, OpUpdates, Zenon
  <1>6. op' = [op EXCEPT ![o] = r] /\ Still /\ op[o].at = "idle"
    BY <1>1 DEF StartLogin, Start, Still, Fresh
  <1>7. r.kind = "login" /\ r.at = "start" /\ r.user = u /\ r.seen = acc[u]
        /\ r.keys = {Password(u), Lifecycle(u), Policy}
    BY DEF Blank
  <1>8. ~Born(o)
    BY <1>6 DEF WellFormed, Tasks, Fits
  <1>9. Fits(o, r)
    <2> HIDE DEF r
    <2> QED
      BY <1>1, <1>2, <1>7, <1>8 DEF Fits, AboutSomebody
  <1> QED
    BY <1>5, <1>6, <1>7, <1>9, OpStepIs DEF Starting

LEMMA RequestStarts ==
  ASSUME WellFormed, NEW o \in Ops, StartRequest(o)
  PROVE  /\ Starting(o) /\ op'[o].kind = "request" /\ Fits(o, op'[o])
  <1>1. PICK u \in Accounts :
          /\ acc[u].role # "none"
          /\ Start(o, "request", [Blank EXCEPT !.user = u, !.keys = {Lifecycle(u)}])
    BY Zenon DEF StartRequest
  <1> DEFINE b == [Blank EXCEPT !.user = u, !.keys = {Lifecycle(u)}]
             r == [b EXCEPT !.kind = "request", !.at = "start"]
  <1>2. {Lifecycle(u)} \in SUBSET AllKeys /\ Born(u)
    BY <1>1 DEF AllKeys, Born
  <1>3. b \in OpRecords
    BY <1>2, Constants, OpUpdates, Zenon
  <1>4. "request" \in AllKinds \cup {"none"} /\ "start" \in Stages
    BY DEF AllKinds, Stages
  <1>5. r \in OpRecords
    BY <1>3, <1>4, OpUpdates, Zenon
  <1>6. op' = [op EXCEPT ![o] = r] /\ Still /\ op[o].at = "idle"
    BY <1>1 DEF StartRequest, Start, Still, Fresh
  <1>7. r.kind = "request" /\ r.at = "start" /\ r.user = u /\ r.keys = {Lifecycle(u)}
    BY DEF Blank
  <1>8. ~Born(o)
    BY <1>6 DEF WellFormed, Tasks, Fits
  <1>9. Fits(o, r)
    <2> HIDE DEF r
    <2> QED
      BY <1>1, <1>2, <1>7, <1>8 DEF Fits, AboutSomebody
  <1> QED
    BY <1>5, <1>6, <1>7, <1>9, OpStepIs DEF Starting

LEMMA ResetStarts ==
  ASSUME WellFormed, NEW o \in Ops, StartReset(o)
  PROVE  /\ Starting(o) /\ op'[o].kind = "reset" /\ Fits(o, op'[o])
  <1>1. PICK u \in Accounts :
          /\ reset[u] # None /\ MayReset(u)
          /\ Start(o, "reset", [Blank EXCEPT !.user = u, !.link = reset[u],
                 !.keys = {Password(u), Policy}])
    BY Zenon DEF StartReset
  <1> DEFINE b == [Blank EXCEPT !.user = u, !.link = reset[u], !.keys = {Password(u), Policy}]
             r == [b EXCEPT !.kind = "reset", !.at = "start"]
  <1>2. reset[u] \in ResetRecords /\ reset[u] \in Targets
        /\ {Password(u), Policy} \in SUBSET AllKeys /\ Born(u)
    BY <1>1 DEF WellFormed, People, Papers, Targets, AllKeys, MayReset, Active
  <1>3. b \in OpRecords
    BY <1>2, Constants, OpUpdates, Zenon
  <1>4. "reset" \in AllKinds \cup {"none"} /\ "start" \in Stages
    BY DEF AllKinds, Stages
  <1>5. r \in OpRecords
    BY <1>3, <1>4, OpUpdates, Zenon
  <1>6. op' = [op EXCEPT ![o] = r] /\ Still /\ op[o].at = "idle"
    BY <1>1 DEF StartReset, Start, Still, Fresh
  <1>7. r.kind = "reset" /\ r.at = "start" /\ r.user = u /\ r.link = reset[u]
        /\ r.keys = {Password(u), Policy}
    BY DEF Blank
  <1>8. ~Born(o)
    BY <1>6 DEF WellFormed, Tasks, Fits
  <1>9. Fits(o, r)
    <2> HIDE DEF r
    <2> QED
      BY <1>1, <1>2, <1>7, <1>8 DEF Fits, AboutSomebody
  <1> QED
    BY <1>5, <1>6, <1>7, <1>9, OpStepIs DEF Starting

LEMMA ChangeStarts ==
  ASSUME WellFormed, NEW o \in Ops, StartChange(o)
  PROVE  /\ Starting(o) /\ op'[o].kind = "change" /\ Fits(o, op'[o])
  <1>1. PICK s \in sessions :
          /\ SignedIn(s) /\ acc[s.user].pw # None
          /\ Start(o, "change", [Blank EXCEPT !.user = s.user, !.seen = acc[s.user],
                 !.keys = {Password(s.user)}])
    BY Zenon DEF StartChange
  <1> DEFINE b == [Blank EXCEPT !.user = s.user, !.seen = acc[s.user], !.keys = {Password(s.user)}]
             r == [b EXCEPT !.kind = "change", !.at = "start"]
  <1>2. s.user \in Accounts /\ acc[s.user] \in AccountRecords
        /\ {Password(s.user)} \in SUBSET AllKeys /\ Born(s.user)
    BY <1>1 DEF WellFormed, People, Doors, SessionRecords, AllKeys, SignedIn, Active
  <1>3. b \in OpRecords
    BY <1>2, Constants, OpUpdates, Zenon
  <1>4. "change" \in AllKinds \cup {"none"} /\ "start" \in Stages
    BY DEF AllKinds, Stages
  <1>5. r \in OpRecords
    BY <1>3, <1>4, OpUpdates, Zenon
  <1>6. op' = [op EXCEPT ![o] = r] /\ Still /\ op[o].at = "idle"
    BY <1>1 DEF StartChange, Start, Still, Fresh
  <1>7. r.kind = "change" /\ r.at = "start" /\ r.user = s.user /\ r.seen = acc[s.user]
        /\ r.keys = {Password(s.user)}
    BY DEF Blank
  <1>8. ~Born(o)
    BY <1>6 DEF WellFormed, Tasks, Fits
  <1>9. Fits(o, r)
    <2> HIDE DEF r
    <2> QED
      BY <1>1, <1>2, <1>7, <1>8 DEF Fits, AboutSomebody
  <1> QED
    BY <1>5, <1>6, <1>7, <1>9, OpStepIs DEF Starting

LEMMA UpdateStarts ==
  ASSUME WellFormed, NEW o \in Ops, StartUpdate(o)
  PROVE  /\ Starting(o) /\ op'[o].kind = "update" /\ Fits(o, op'[o])
         /\ op'[o].role = "super" => Seated
  <1>1. PICK s \in sessions, u \in Accounts, role \in Roles, status \in {"active", "disabled"} :
          /\ SignedIn(s) /\ acc[u].role # "none"
          /\ (Rank(role) >= 2 \/ Rank(acc[u].role) >= 2 => acc[s.user].role = "super")
          /\ Start(o, "update", [Blank EXCEPT !.user = u, !.role = role, !.status = status,
                 !.seen = acc[u], !.keys = TransitionKeys(u, acc[u], role, status)])
    BY Zenon DEF StartUpdate
  <1> DEFINE b == [Blank EXCEPT !.user = u, !.role = role, !.status = status, !.seen = acc[u],
                 !.keys = TransitionKeys(u, acc[u], role, status)]
             r == [b EXCEPT !.kind = "update", !.at = "start"]
  <1>2. /\ acc[u] \in AccountRecords /\ acc[u].status # "none" /\ Born(u) /\ s.user \in Accounts
        /\ role \in Roles \cup {"none"} /\ status \in Statuses
        /\ TransitionKeys(u, acc[u], role, status) \in SUBSET AllKeys
    BY <1>1 DEF WellFormed, People, Doors, SessionRecords, Statuses, AllKeys, TransitionKeys, Born
  <1>3. b \in OpRecords
    BY <1>2, Constants, OpUpdates, Zenon
  <1>4. "update" \in AllKinds \cup {"none"} /\ "start" \in Stages
    BY DEF AllKinds, Stages
  <1>5. r \in OpRecords
    BY <1>3, <1>4, OpUpdates, Zenon
  <1>6. op' = [op EXCEPT ![o] = r] /\ Still /\ op[o].at = "idle"
    BY <1>1 DEF StartUpdate, Start, Still, Fresh
  <1>7. r.kind = "update" /\ r.at = "start" /\ r.user = u /\ r.role = role /\ r.status = status
        /\ r.seen = acc[u] /\ r.keys = TransitionKeys(u, acc[u], role, status)
    BY DEF Blank
  <1>8. ~Born(o)
    BY <1>6 DEF WellFormed, Tasks, Fits
  <1>9. Fits(o, r)
    <2> HIDE DEF r
    <2> QED
      BY <1>1, <1>2, <1>7, <1>8 DEF Fits, AboutSomebody
  <1>10. r.role = "super" => Seated
    BY <1>1, <1>7, <1>2 DEF Rank, SignedIn, Seated, Super, Active
  <1> QED
    BY <1>5, <1>6, <1>7, <1>9, <1>10, OpStepIs DEF Starting

LEMMA GodStarts ==
  ASSUME WellFormed, NEW o \in Ops, StartGod(o)
  PROVE  /\ Starting(o) /\ op'[o].kind = "god" /\ Fits(o, op'[o])
  <1>1. PICK u \in Accounts :
          /\ acc[u].role # "none"
          /\ Start(o, "god", [Blank EXCEPT !.user = u, !.seen = acc[u],
                 !.keys = TransitionKeys(u, acc[u], acc[u].role, "disabled")])
    BY Zenon DEF StartGod
  <1> DEFINE b == [Blank EXCEPT !.user = u, !.seen = acc[u],
                 !.keys = TransitionKeys(u, acc[u], acc[u].role, "disabled")]
             r == [b EXCEPT !.kind = "god", !.at = "start"]
  <1>2. /\ acc[u] \in AccountRecords /\ Born(u)
        /\ TransitionKeys(u, acc[u], acc[u].role, "disabled") \in SUBSET AllKeys
    BY <1>1 DEF WellFormed, People, AllKeys, TransitionKeys, Born
  <1>3. b \in OpRecords
    BY <1>2, Constants, OpUpdates, Zenon
  <1>4. "god" \in AllKinds \cup {"none"} /\ "start" \in Stages
    BY DEF AllKinds, Stages
  <1>5. r \in OpRecords
    BY <1>3, <1>4, OpUpdates, Zenon
  <1>6. op' = [op EXCEPT ![o] = r] /\ Still /\ op[o].at = "idle"
    BY <1>1 DEF StartGod, Start, Still, Fresh
  <1>7. r.kind = "god" /\ r.at = "start" /\ r.user = u /\ r.seen = acc[u]
        /\ r.keys = TransitionKeys(u, acc[u], acc[u].role, "disabled")
    BY DEF Blank
  <1>8. ~Born(o)
    BY <1>6 DEF WellFormed, Tasks, Fits
  <1>9. Fits(o, r)
    <2> HIDE DEF r
    <2> QED
      BY <1>1, <1>2, <1>7, <1>8 DEF Fits, AboutSomebody
  <1> QED
    BY <1>5, <1>6, <1>7, <1>9, OpStepIs DEF Starting

(* The account a plan of a sign-in reaches, and the identity it returns to. *)
LEMMA PlansReach ==
  ASSUME WellFormed, NEW p \in Providers, NEW role, NEW s \in sessions \cup {None},
         NEW plan \in Plans(p, role, s)
  PROVE  /\ plan.how \in Plan
         /\ plan.how = "provision" => plan.user = None /\ plan.link = None
         /\ plan.how # "provision" => plan.user \in Accounts /\ Born(plan.user)
         /\ plan.how # "returning" => plan.link = None
         /\ plan.how = "returning" =>
              plan.link \in LinkRecords /\ plan.link.user = plan.user /\ plan.link.prov = p
  BY DEF WellFormed, People, Doors, LinkRecords, Plans, Plan, Active

LEMMA SignInStarts ==
  ASSUME WellFormed, NEW o \in Ops, StartSignIn(o)
  PROVE  /\ Starting(o) /\ op'[o].kind = "sso" /\ Fits(o, op'[o])
  <1>1. PICK p \in settings.force \cap settings.enabled, s \in sessions \cup {None} :
          \E role \in Mappings(p) : \E plan \in Plans(p, role, s) :
            Start(o, "sso", [Blank EXCEPT !.prov = p, !.session = s, !.role = role,
                             !.status = plan.how, !.user = plan.user, !.link = plan.link,
                             !.conf = settings, !.keys = SignInKeys(p, plan)])
    BY Zenon DEF StartSignIn
  <1>2. PICK role \in Mappings(p) : \E plan \in Plans(p, role, s) :
            Start(o, "sso", [Blank EXCEPT !.prov = p, !.session = s, !.role = role,
                             !.status = plan.how, !.user = plan.user, !.link = plan.link,
                             !.conf = settings, !.keys = SignInKeys(p, plan)])
    BY <1>1, Zenon
  <1>3. PICK plan \in Plans(p, role, s) :
            Start(o, "sso", [Blank EXCEPT !.prov = p, !.session = s, !.role = role,
                             !.status = plan.how, !.user = plan.user, !.link = plan.link,
                             !.conf = settings, !.keys = SignInKeys(p, plan)])
    BY <1>2, Zenon
  <1> DEFINE b == [Blank EXCEPT !.prov = p, !.session = s, !.role = role,
                                !.status = plan.how, !.user = plan.user, !.link = plan.link,
                                !.conf = settings, !.keys = SignInKeys(p, plan)]
             r == [b EXCEPT !.kind = "sso", !.at = "start"]
  <1>4. p \in Providers /\ s \in SessionRecords \cup {None} /\ settings \in SettingsRecords
        /\ role \in Roles
    BY DEF WellFormed, Doors, Papers, SettingsRecords, Mappings, Roles
  <1>5. /\ plan.how \in Plan
        /\ plan.how = "provision" => plan.user = None /\ plan.link = None
        /\ plan.how # "provision" => plan.user \in Accounts /\ Born(plan.user)
        /\ plan.how # "returning" => plan.link = None
        /\ plan.how = "returning" =>
             plan.link \in LinkRecords /\ plan.link.user = plan.user /\ plan.link.prov = p
    BY <1>4, PlansReach
  <1>6. /\ plan.how \in Statuses /\ plan.user \in Accounts \cup {None} /\ plan.link \in Targets
        /\ role \in Roles \cup {"none"} /\ p \in Providers \cup {None}
        /\ settings \in SettingsRecords \cup {None}
    BY <1>4, <1>5 DEF Statuses, Targets
  <1>7. SignInKeys(p, plan) \in SUBSET AllKeys
    BY <1>4, <1>5 DEF SignInKeys, AllKeys
  <1>8. b \in OpRecords
    BY <1>4, <1>6, <1>7, Constants, ZenonT(120) DEF OpRecords
  <1>9. "sso" \in AllKinds \cup {"none"} /\ "start" \in Stages
    BY DEF AllKinds, Stages
  <1>10. r \in OpRecords
    BY <1>8, <1>9, OpUpdates, Zenon
  <1>11. op' = [op EXCEPT ![o] = r] /\ Still /\ op[o].at = "idle"
    BY <1>3 DEF StartSignIn, Start, Still, Fresh
  <1>12. /\ r.kind = "sso" /\ r.at = "start" /\ r.prov = p /\ r.role = role
         /\ r.status = plan.how /\ r.user = plan.user /\ r.link = plan.link
         /\ r.keys = SignInKeys(p, plan)
    BY DEF Blank
  <1>13. ~Born(o) /\ (plan.how # "provision" => Lifecycle(plan.user) \in SignInKeys(p, plan))
    BY <1>11 DEF WellFormed, Tasks, Fits, SignInKeys
  <1>14. Fits(o, r)
    <2> HIDE DEF r
    <2> QED
      BY <1>4, <1>5, <1>12, <1>13 DEF Fits, AboutSomebody
  <1> QED
    BY <1>10, <1>11, <1>12, <1>14, OpStepIs DEF Starting

LEMMA DeprovisionStarts ==
  ASSUME WellFormed, NEW o \in Ops, StartDeprovision(o)
  PROVE  /\ Starting(o) /\ op'[o].kind = "deprovision" /\ Fits(o, op'[o])
  <1>1. PICK l \in links :
          /\ Active(l.user)
          /\ Start(o, "deprovision", [Blank EXCEPT !.user = l.user, !.prov = l.prov,
                 !.conf = settings, !.keys = {Provider(l.prov), Lifecycle(l.user)}])
    BY Zenon DEF StartDeprovision
  <1> DEFINE b == [Blank EXCEPT !.user = l.user, !.prov = l.prov, !.conf = settings,
                 !.keys = {Provider(l.prov), Lifecycle(l.user)}]
             r == [b EXCEPT !.kind = "deprovision", !.at = "start"]
  <1>2. /\ l.user \in Accounts /\ l.user \in Accounts \cup {None}
        /\ l.prov \in Providers \cup {None} /\ Born(l.user)
        /\ settings \in SettingsRecords \cup {None}
        /\ {Provider(l.prov), Lifecycle(l.user)} \in SUBSET AllKeys
    BY <1>1 DEF WellFormed, Doors, Papers, LinkRecords, AllKeys
  <1>3. b \in OpRecords
    BY <1>2, Constants, OpUpdates, Zenon
  <1>4. "deprovision" \in AllKinds \cup {"none"} /\ "start" \in Stages
    BY DEF AllKinds, Stages
  <1>5. r \in OpRecords
    BY <1>3, <1>4, OpUpdates, Zenon
  <1>6. op' = [op EXCEPT ![o] = r] /\ Still /\ op[o].at = "idle"
    BY <1>1 DEF StartDeprovision, Start, Still, Fresh
  <1>7. r.kind = "deprovision" /\ r.at = "start" /\ r.user = l.user /\ r.prov = l.prov
        /\ r.conf = settings /\ r.keys = {Provider(l.prov), Lifecycle(l.user)}
    BY DEF Blank
  <1>8. ~Born(o)
    BY <1>6 DEF WellFormed, Tasks, Fits
  <1>9. Fits(o, r)
    <2> HIDE DEF r
    <2> QED
      BY <1>1, <1>2, <1>7, <1>8 DEF Fits, AboutSomebody
  <1> QED
    BY <1>5, <1>6, <1>7, <1>9, OpStepIs DEF Starting

(* A save changes the settings to settings. *)
LEMMA SavesAreSettings ==
  ASSUME WellFormed, NEW next \in Saves(settings)
  PROVE  next \in SettingsRecords /\ next.enabled \cup next.strict \subseteq next.force
  <1>0. settings \in SettingsRecords
        /\ settings.enabled \cup settings.strict \subseteq settings.force
    BY DEF WellFormed, Papers
  <1>1. CASE \E p \in Providers :
               next = [settings EXCEPT !.force = Toggle(@, p),
                         !.enabled = IF p \in settings.force THEN @ \ {p} ELSE @ \cup {p},
                         !.strict = @ \ {p}]
    <2> PICK p \in Providers :
               next = [settings EXCEPT !.force = Toggle(@, p),
                         !.enabled = IF p \in settings.force THEN @ \ {p} ELSE @ \cup {p},
                         !.strict = @ \ {p}]
      BY <1>1
    <2> DEFINE f == Toggle(settings.force, p)
               e == IF p \in settings.force THEN settings.enabled \ {p}
                    ELSE settings.enabled \cup {p}
               t == settings.strict \ {p}
    <2>1. f \in SUBSET Providers /\ e \in SUBSET Providers /\ t \in SUBSET Providers
          /\ e \cup t \subseteq f
      BY <1>0 DEF SettingsRecords, Toggle
    <2>2. next = [settings EXCEPT !.force = f, !.enabled = e, !.strict = t]
      OBVIOUS
    <2> HIDE DEF f, e, t
    <2>3. next \in SettingsRecords
      BY <1>0, <2>1, <2>2, Zenon DEF SettingsRecords
    <2>4. next.force = f /\ next.enabled = e /\ next.strict = t
      BY <1>0, <2>2 DEF SettingsRecords
    <2> QED
      BY <2>1, <2>3, <2>4
  <1>2. CASE \E p \in settings.force : next = [settings EXCEPT !.enabled = Toggle(@, p)]
    BY <1>0, <1>2 DEF SettingsRecords, Toggle
  <1>3. CASE \E p \in settings.force : next = [settings EXCEPT !.strict = Toggle(@, p)]
    BY <1>0, <1>3 DEF SettingsRecords, Toggle
  <1>4. CASE next = [settings EXCEPT !.ssoOnly = ~@] \/ next = [settings EXCEPT !.offboard = ~@]
    <2>1. next \in SettingsRecords
      BY <1>0, <1>4, Zenon DEF SettingsRecords
    <2>2. next.force = settings.force /\ next.enabled = settings.enabled
          /\ next.strict = settings.strict
      BY <1>0, <1>4 DEF SettingsRecords
    <2> QED
      BY <1>0, <2>1, <2>2
  <1> QED
    BY <1>1, <1>2, <1>3, <1>4, Zenon DEF Saves

LEMMA SaveStarts ==
  ASSUME WellFormed, NEW o \in Ops, StartSave(o)
  PROVE  /\ Starting(o) /\ op'[o].kind = "save" /\ Fits(o, op'[o])
  <1>1. PICK next \in Saves(settings) :
          /\ Start(o, "save", [Blank EXCEPT !.conf = settings, !.link = next,
                 !.keys = {SsoSettings, Policy} \cup
                                {Provider(p) : p \in settings.force \cup next.force}])
    BY Zenon DEF StartSave
  <1> DEFINE b == [Blank EXCEPT !.conf = settings, !.link = next,
                 !.keys = {SsoSettings, Policy} \cup
                                {Provider(p) : p \in settings.force \cup next.force}]
             r == [b EXCEPT !.kind = "save", !.at = "start"]
  <1>2. /\ next \in SettingsRecords /\ next.enabled \cup next.strict \subseteq next.force
        /\ next \in Targets /\ settings \in SettingsRecords \cup {None}
        /\ {SsoSettings, Policy} \cup {Provider(p) : p \in settings.force \cup next.force}
             \in SUBSET AllKeys
    BY <1>1, SavesAreSettings DEF WellFormed, Papers, SettingsRecords, Targets, AllKeys
  <1>3. b \in OpRecords
    BY <1>2, Constants, OpUpdates, Zenon
  <1>4. "save" \in AllKinds \cup {"none"} /\ "start" \in Stages
    BY DEF AllKinds, Stages
  <1>5. r \in OpRecords
    BY <1>3, <1>4, OpUpdates, Zenon
  <1>6. op' = [op EXCEPT ![o] = r] /\ Still /\ op[o].at = "idle"
    BY <1>1 DEF StartSave, Start, Still, Fresh
  <1>7. r.kind = "save" /\ r.at = "start" /\ r.conf = settings /\ r.link = next
        /\ r.keys = {SsoSettings, Policy} \cup
                                {Provider(p) : p \in settings.force \cup next.force}
    BY DEF Blank
  <1>8. ~Born(o)
    BY <1>6 DEF WellFormed, Tasks, Fits
  <1>9. Fits(o, r)
    <2> HIDE DEF r
    <2> QED
      BY <1>1, <1>2, <1>7, <1>8 DEF Fits, AboutSomebody
  <1> QED
    BY <1>5, <1>6, <1>7, <1>9, OpStepIs DEF Starting

-----------------------------------------------------------------------------

(* The keys are taken and the transaction reads. *)
Beginning(o) ==
  /\ op[o].at = "start" /\ op'[o].at = "begun" /\ op'[o].kind = op[o].kind
  /\ Free(op[o].keys) /\ op'[o].keys = op[o].keys
  /\ OpStep(o) /\ Still

LEMMA RegisterBegins ==
  ASSUME WellFormed, NEW o \in Ops, BeginRegister(o)
  PROVE  /\ Beginning(o) /\ op[o].kind = "register" /\ Fits(o, op'[o])
         /\ op'[o].role = "super" => ~Seated
  <1> DEFINE f == SuperAdmin \in op[o].keys /\ ~Seated
  <1> DEFINE r == [[op[o] EXCEPT !.role = IF f THEN "super" ELSE "member"] EXCEPT !.at = "begun"]
  <1>1. /\ op[o].kind = "register" /\ op[o].at = "start" /\ Free(op[o].keys)
        /\ op' = [op EXCEPT ![o] = r] /\ Still
        /\ f \/ ~settings.ssoOnly
    BY DEF BeginRegister, Begin, Still
  <1>2. /\ op[o] \in OpRecords /\ Fits(o, op[o]) /\ "begun" \in Stages
        /\ (IF f THEN "super" ELSE "member") \in Roles \cup {"none"}
    BY <1>1 DEF WellFormed, Tasks, Stages, Roles
  <1>3. [op[o] EXCEPT !.role = IF f THEN "super" ELSE "member"] \in OpRecords
    BY <1>2, OpUpdates, Zenon
  <1>4. r \in OpRecords
    BY <1>2, <1>3, OpUpdates, Zenon
  <1>5. /\ r.at = "begun" /\ r.kind = op[o].kind /\ r.user = op[o].user /\ r.prov = op[o].prov
        /\ r.role = IF f THEN "super" ELSE "member"
        /\ r.status = op[o].status /\ r.link = op[o].link /\ r.seen = op[o].seen
        /\ r.keys = op[o].keys
    BY <1>2 DEF OpRecords
  <1>6. Fits(o, r)
    <2> HIDE DEF r
    <2> QED
      BY <1>1, <1>2, <1>5 DEF Fits, AboutSomebody
  <1>7. op'[o] = r /\ OpStep(o)
    BY <1>1, <1>4, OpStepIs
  <1>8. (IF f THEN "super" ELSE "member") = "super" => ~Seated
    OBVIOUS
  <1> HIDE DEF r, f
  <1> QED
    BY <1>1, <1>2, <1>5, <1>6, <1>7, <1>8 DEF Beginning

LEMMA LoginBegins ==
  ASSUME WellFormed, NEW o \in Ops, BeginLogin(o)
  PROVE  /\ Beginning(o) /\ op[o].kind = "login" /\ Fits(o, op'[o])
         /\ op'[o].user = op[o].user /\ op'[o].seen = acc[op[o].user]
         /\ MayUsePassword(op[o].user)
  <1> DEFINE r == [[op[o] EXCEPT !.seen = acc[op[o].user]] EXCEPT !.at = "begun"]
  <1>1. /\ op[o].kind = "login" /\ op[o].at = "start" /\ Free(op[o].keys)
        /\ op' = [op EXCEPT ![o] = r] /\ Still
        /\ MayUsePassword(op[o].user)
    BY DEF BeginLogin, Begin, Still
  <1>2. /\ op[o] \in OpRecords /\ Fits(o, op[o]) /\ "begun" \in Stages
        /\ acc[op[o].user] \in AccountRecords
    BY <1>1 DEF WellFormed, Tasks, Stages, People, Fits, AboutSomebody
  <1>3. [op[o] EXCEPT !.seen = acc[op[o].user]] \in OpRecords
    BY <1>2, OpUpdates, Zenon
  <1>4. r \in OpRecords
    BY <1>2, <1>3, OpUpdates, Zenon
  <1>5. /\ r.at = "begun" /\ r.kind = op[o].kind /\ r.user = op[o].user /\ r.prov = op[o].prov
        /\ r.role = op[o].role
        /\ r.status = op[o].status /\ r.link = op[o].link /\ r.seen = acc[op[o].user]
        /\ r.keys = op[o].keys
    BY <1>2 DEF OpRecords
  <1>6. Fits(o, r)
    <2> HIDE DEF r
    <2> QED
      BY <1>1, <1>2, <1>5 DEF Fits, AboutSomebody
  <1>7. op'[o] = r /\ OpStep(o)
    BY <1>1, <1>4, OpStepIs
  <1> QED
    BY <1>1, <1>2, <1>5, <1>6, <1>7 DEF Beginning

LEMMA RequestBegins ==
  ASSUME WellFormed, NEW o \in Ops, BeginRequest(o)
  PROVE  /\ Beginning(o) /\ op[o].kind = "request" /\ Fits(o, op'[o])
         /\ op'[o].user = op[o].user /\ op'[o].seen = acc[op[o].user]
         /\ Active(op[o].user)
  <1> DEFINE r == [[op[o] EXCEPT !.seen = acc[op[o].user]] EXCEPT !.at = "begun"]
  <1>1. /\ op[o].kind = "request" /\ op[o].at = "start" /\ Free(op[o].keys)
        /\ op' = [op EXCEPT ![o] = r] /\ Still
        /\ MayReset(op[o].user)
    BY DEF BeginRequest, Begin, Still
  <1>2. /\ op[o] \in OpRecords /\ Fits(o, op[o]) /\ "begun" \in Stages
        /\ acc[op[o].user] \in AccountRecords
    BY <1>1 DEF WellFormed, Tasks, Stages, People, Fits, AboutSomebody
  <1>3. [op[o] EXCEPT !.seen = acc[op[o].user]] \in OpRecords
    BY <1>2, OpUpdates, Zenon
  <1>4. r \in OpRecords
    BY <1>2, <1>3, OpUpdates, Zenon
  <1>5. /\ r.at = "begun" /\ r.kind = op[o].kind /\ r.user = op[o].user /\ r.prov = op[o].prov
        /\ r.role = op[o].role
        /\ r.status = op[o].status /\ r.link = op[o].link /\ r.seen = acc[op[o].user]
        /\ r.keys = op[o].keys
    BY <1>2 DEF OpRecords
  <1>6. Fits(o, r)
    <2> HIDE DEF r
    <2> QED
      BY <1>1, <1>2, <1>5 DEF Fits, AboutSomebody
  <1>7. op'[o] = r /\ OpStep(o)
    BY <1>1, <1>4, OpStepIs
  <1> QED
    BY <1>1, <1>2, <1>5, <1>6, <1>7 DEF Beginning, MayReset

LEMMA ResetBegins ==
  ASSUME WellFormed, NEW o \in Ops, BeginReset(o)
  PROVE  /\ Beginning(o) /\ op[o].kind = "reset" /\ Fits(o, op'[o])
  <1> DEFINE r == [op[o] EXCEPT !.at = "begun"]
  <1>1. /\ op[o].kind = "reset" /\ op[o].at = "start" /\ Free(op[o].keys)
        /\ op' = [op EXCEPT ![o] = r] /\ Still
    BY DEF BeginReset, Begin, Still
  <1>2. /\ op[o] \in OpRecords /\ Fits(o, op[o]) /\ "begun" \in Stages
    BY <1>1 DEF WellFormed, Tasks, Stages
  <1>4. r \in OpRecords
    BY <1>2, OpUpdates, Zenon
  <1>5. /\ r.at = "begun" /\ r.kind = op[o].kind /\ r.user = op[o].user /\ r.prov = op[o].prov
        /\ r.role = op[o].role
        /\ r.status = op[o].status /\ r.link = op[o].link /\ r.seen = op[o].seen
        /\ r.keys = op[o].keys
    BY <1>2 DEF OpRecords
  <1>6. Fits(o, r)
    <2> HIDE DEF r
    <2> QED
      BY <1>1, <1>2, <1>5 DEF Fits, AboutSomebody
  <1>7. op'[o] = r /\ OpStep(o)
    BY <1>1, <1>4, OpStepIs
  <1> QED
    BY <1>1, <1>2, <1>5, <1>6, <1>7 DEF Beginning

LEMMA ChangeBegins ==
  ASSUME WellFormed, NEW o \in Ops, BeginChange(o)
  PROVE  /\ Beginning(o) /\ op[o].kind = "change" /\ Fits(o, op'[o])
  <1> DEFINE r == [op[o] EXCEPT !.at = "begun"]
  <1>1. /\ op[o].kind = "change" /\ op[o].at = "start" /\ Free(op[o].keys)
        /\ op' = [op EXCEPT ![o] = r] /\ Still
    BY DEF BeginChange, Begin, Still
  <1>2. /\ op[o] \in OpRecords /\ Fits(o, op[o]) /\ "begun" \in Stages
    BY <1>1 DEF WellFormed, Tasks, Stages
  <1>4. r \in OpRecords
    BY <1>2, OpUpdates, Zenon
  <1>5. /\ r.at = "begun" /\ r.kind = op[o].kind /\ r.user = op[o].user /\ r.prov = op[o].prov
        /\ r.role = op[o].role
        /\ r.status = op[o].status /\ r.link = op[o].link /\ r.seen = op[o].seen
        /\ r.keys = op[o].keys
    BY <1>2 DEF OpRecords
  <1>6. Fits(o, r)
    <2> HIDE DEF r
    <2> QED
      BY <1>1, <1>2, <1>5 DEF Fits, AboutSomebody
  <1>7. op'[o] = r /\ OpStep(o)
    BY <1>1, <1>4, OpStepIs
  <1> QED
    BY <1>1, <1>2, <1>5, <1>6, <1>7 DEF Beginning

LEMMA UpdateBegins ==
  ASSUME WellFormed, NEW o \in Ops, BeginUpdate(o)
  PROVE  /\ Beginning(o) /\ op[o].kind = "update" /\ Fits(o, op'[o])
         /\ op'[o].user = op[o].user /\ op'[o].seen = op[o].seen /\ op'[o].role = op[o].role
         /\ op'[o].status = op[o].status
         /\ Guarded(op[o].seen, op[o].role, op[o].status) => ~LastSuper(op[o].user)
         /\ PromotionAllowed(op[o].user, op[o].seen.role, op[o].role)
  <1> DEFINE r == [op[o] EXCEPT !.at = "begun"]
  <1>1. /\ op[o].kind = "update" /\ op[o].at = "start" /\ Free(op[o].keys)
        /\ op' = [op EXCEPT ![o] = r] /\ Still
        /\ Guarded(op[o].seen, op[o].role, op[o].status) => ~LastSuper(op[o].user)
        /\ PromotionAllowed(op[o].user, op[o].seen.role, op[o].role)
    BY DEF BeginUpdate, Begin, Still
  <1>2. /\ op[o] \in OpRecords /\ Fits(o, op[o]) /\ "begun" \in Stages
    BY <1>1 DEF WellFormed, Tasks, Stages
  <1>4. r \in OpRecords
    BY <1>2, OpUpdates, Zenon
  <1>5. /\ r.at = "begun" /\ r.kind = op[o].kind /\ r.user = op[o].user /\ r.prov = op[o].prov
        /\ r.role = op[o].role
        /\ r.status = op[o].status /\ r.link = op[o].link /\ r.seen = op[o].seen
        /\ r.keys = op[o].keys
    BY <1>2 DEF OpRecords
  <1>6. Fits(o, r)
    <2> HIDE DEF r
    <2> QED
      BY <1>1, <1>2, <1>5 DEF Fits, AboutSomebody
  <1>7. op'[o] = r /\ OpStep(o)
    BY <1>1, <1>4, OpStepIs
  <1> QED
    BY <1>1, <1>2, <1>5, <1>6, <1>7 DEF Beginning

LEMMA GodBegins ==
  ASSUME WellFormed, NEW o \in Ops, BeginGod(o)
  PROVE  /\ Beginning(o) /\ op[o].kind = "god" /\ Fits(o, op'[o])
         /\ op'[o].user = op[o].user /\ op'[o].seen = op[o].seen
         /\ SameTarget(o)
         /\ Super(op[o].user) => ~LastSuper(op[o].user)
  <1> DEFINE r == [op[o] EXCEPT !.at = "begun"]
  <1>1. /\ op[o].kind = "god" /\ op[o].at = "start" /\ Free(op[o].keys)
        /\ op' = [op EXCEPT ![o] = r] /\ Still
        /\ SameTarget(o)
        /\ Super(op[o].user) => ~LastSuper(op[o].user)
    BY DEF BeginGod, Begin, Still
  <1>2. /\ op[o] \in OpRecords /\ Fits(o, op[o]) /\ "begun" \in Stages
    BY <1>1 DEF WellFormed, Tasks, Stages
  <1>4. r \in OpRecords
    BY <1>2, OpUpdates, Zenon
  <1>5. /\ r.at = "begun" /\ r.kind = op[o].kind /\ r.user = op[o].user /\ r.prov = op[o].prov
        /\ r.role = op[o].role
        /\ r.status = op[o].status /\ r.link = op[o].link /\ r.seen = op[o].seen
        /\ r.keys = op[o].keys
    BY <1>2 DEF OpRecords
  <1>6. Fits(o, r)
    <2> HIDE DEF r
    <2> QED
      BY <1>1, <1>2, <1>5 DEF Fits, AboutSomebody
  <1>7. op'[o] = r /\ OpStep(o)
    BY <1>1, <1>4, OpStepIs
  <1> QED
    BY <1>1, <1>2, <1>5, <1>6, <1>7 DEF Beginning

LEMMA DeprovisionBegins ==
  ASSUME WellFormed, NEW o \in Ops, BeginDeprovision(o)
  PROVE  /\ Beginning(o) /\ op[o].kind = "deprovision" /\ Fits(o, op'[o])
         /\ op'[o].user = op[o].user /\ op'[o].seen = acc[op[o].user]
         /\ Active(op[o].user) /\ acc[op[o].user].role # "super"
  <1> DEFINE r == [[op[o] EXCEPT !.seen = acc[op[o].user]] EXCEPT !.at = "begun"]
  <1>1. /\ op[o].kind = "deprovision" /\ op[o].at = "start" /\ Free(op[o].keys)
        /\ op' = [op EXCEPT ![o] = r] /\ Still
        /\ Active(op[o].user) /\ acc[op[o].user].role # "super"
    BY DEF BeginDeprovision, Begin, Still
  <1>2. /\ op[o] \in OpRecords /\ Fits(o, op[o]) /\ "begun" \in Stages
        /\ acc[op[o].user] \in AccountRecords
    BY <1>1 DEF WellFormed, Tasks, Stages, People, Fits, AboutSomebody
  <1>3. [op[o] EXCEPT !.seen = acc[op[o].user]] \in OpRecords
    BY <1>2, OpUpdates, Zenon
  <1>4. r \in OpRecords
    BY <1>2, <1>3, OpUpdates, Zenon
  <1>5. /\ r.at = "begun" /\ r.kind = op[o].kind /\ r.user = op[o].user /\ r.prov = op[o].prov
        /\ r.role = op[o].role
        /\ r.status = op[o].status /\ r.link = op[o].link /\ r.seen = acc[op[o].user]
        /\ r.keys = op[o].keys
    BY <1>2 DEF OpRecords
  <1>6. Fits(o, r)
    <2> HIDE DEF r
    <2> QED
      BY <1>1, <1>2, <1>5 DEF Fits, AboutSomebody
  <1>7. op'[o] = r /\ OpStep(o)
    BY <1>1, <1>4, OpStepIs
  <1> QED
    BY <1>1, <1>2, <1>5, <1>6, <1>7 DEF Beginning

LEMMA SaveBegins ==
  ASSUME WellFormed, NEW o \in Ops, BeginSave(o)
  PROVE  /\ Beginning(o) /\ op[o].kind = "save" /\ Fits(o, op'[o])
  <1> DEFINE r == [op[o] EXCEPT !.at = "begun"]
  <1>1. /\ op[o].kind = "save" /\ op[o].at = "start" /\ Free(op[o].keys)
        /\ op' = [op EXCEPT ![o] = r] /\ Still
    BY DEF BeginSave, Begin, Still
  <1>2. /\ op[o] \in OpRecords /\ Fits(o, op[o]) /\ "begun" \in Stages
    BY <1>1 DEF WellFormed, Tasks, Stages
  <1>4. r \in OpRecords
    BY <1>2, OpUpdates, Zenon
  <1>5. /\ r.at = "begun" /\ r.kind = op[o].kind /\ r.user = op[o].user /\ r.prov = op[o].prov
        /\ r.role = op[o].role
        /\ r.status = op[o].status /\ r.link = op[o].link /\ r.seen = op[o].seen
        /\ r.keys = op[o].keys
    BY <1>2 DEF OpRecords
  <1>6. Fits(o, r)
    <2> HIDE DEF r
    <2> QED
      BY <1>1, <1>2, <1>5 DEF Fits, AboutSomebody
  <1>7. op'[o] = r /\ OpStep(o)
    BY <1>1, <1>4, OpStepIs
  <1> QED
    BY <1>1, <1>2, <1>5, <1>6, <1>7 DEF Beginning

LEMMA ProvisionBegins ==
  ASSUME WellFormed, NEW o \in Ops, BeginSignIn(o), op[o].status = "provision"
  PROVE  /\ Beginning(o) /\ op[o].kind = "sso" /\ Fits(o, op'[o])
         /\ op'[o].prov = op[o].prov /\ op'[o].status = op[o].status
  <1> DEFINE r == [op[o] EXCEPT !.at = "begun"]
  <1>1. /\ op[o].kind = "sso" /\ op[o].at = "start" /\ Free(op[o].keys)
        /\ op' = [op EXCEPT ![o] = r] /\ Still
    BY DEF BeginSignIn, Begin, Still
  <1>2. /\ op[o] \in OpRecords /\ Fits(o, op[o]) /\ "begun" \in Stages
    BY <1>1 DEF WellFormed, Tasks, Stages
  <1>4. r \in OpRecords
    BY <1>2, OpUpdates, Zenon
  <1>5. /\ r.at = "begun" /\ r.kind = op[o].kind /\ r.user = op[o].user /\ r.prov = op[o].prov
        /\ r.role = op[o].role
        /\ r.status = op[o].status /\ r.link = op[o].link /\ r.seen = op[o].seen
        /\ r.keys = op[o].keys
    BY <1>2 DEF OpRecords
  <1>6. Fits(o, r)
    <2> HIDE DEF r
    <2> QED
      BY <1>1, <1>2, <1>5 DEF Fits, AboutSomebody
  <1>7. op'[o] = r /\ OpStep(o)
    BY <1>1, <1>4, OpStepIs
  <1> QED
    BY <1>1, <1>2, <1>5, <1>6, <1>7 DEF Beginning

LEMMA SignInBegins ==
  ASSUME WellFormed, NEW o \in Ops, BeginSignIn(o), op[o].status # "provision"
  PROVE  /\ Beginning(o) /\ op[o].kind = "sso" /\ Fits(o, op'[o])
         /\ op'[o].user = op[o].user /\ op'[o].seen = acc[op[o].user]
         /\ op'[o].prov = op[o].prov /\ op'[o].status = op[o].status
         /\ op'[o].role = Granted(op[o].user, op[o].prov, op[o].role)
         /\ op[o].role \in Mappings(op[o].prov)
         /\ Active(op[o].user)
         /\ op[o].status = "auto" => ~PrivilegedAutoLink(op[o].user, op[o].prov, op[o].role)
  <1> DEFINE r == [[op[o] EXCEPT !.role = Granted(op[o].user, op[o].prov, op[o].role),
                 !.seen = acc[op[o].user]] EXCEPT !.at = "begun"]
  <1>1. /\ op[o].kind = "sso" /\ op[o].at = "start" /\ Free(op[o].keys)
        /\ op' = [op EXCEPT ![o] = r] /\ Still
        /\ Active(op[o].user)
        /\ op[o].status = "auto" => ~PrivilegedAutoLink(op[o].user, op[o].prov, op[o].role)
    BY DEF BeginSignIn, Begin, Still
  <1>2. /\ op[o] \in OpRecords /\ Fits(o, op[o]) /\ "begun" \in Stages
        /\ acc[op[o].user] \in AccountRecords
        /\ Granted(op[o].user, op[o].prov, op[o].role) \in Roles
        /\ Granted(op[o].user, op[o].prov, op[o].role) \in Roles \cup {"none"}
    BY <1>1 DEF WellFormed, Tasks, Stages, People, Fits, AccountRecords, Granted, Mapped, Mappings,
       Roles, Active, Born
  <1>3. [op[o] EXCEPT !.role = Granted(op[o].user, op[o].prov, op[o].role),
            !.seen = acc[op[o].user]] \in OpRecords
    BY <1>2, OpUpdates, Zenon
  <1>4. r \in OpRecords
    BY <1>2, <1>3, OpUpdates, Zenon
  <1>5. /\ r.at = "begun" /\ r.kind = op[o].kind /\ r.user = op[o].user /\ r.prov = op[o].prov
        /\ r.role = Granted(op[o].user, op[o].prov, op[o].role)
        /\ r.status = op[o].status /\ r.link = op[o].link /\ r.seen = acc[op[o].user]
        /\ r.keys = op[o].keys
    BY <1>2 DEF OpRecords
  <1>6. Fits(o, r)
    <2> HIDE DEF r
    <2> QED
      BY <1>1, <1>2, <1>5 DEF Fits, AboutSomebody
  <1>7. op'[o] = r /\ OpStep(o)
    BY <1>1, <1>4, OpStepIs
  <1> QED
    BY <1>1, <1>2, <1>5, <1>6, <1>7 DEF Beginning, Fits

-----------------------------------------------------------------------------

(* Only the record of one account changes, and the account stays or        *)
(* becomes somebody's.                                                     *)
AccStep(u) ==
  /\ acc' = [acc EXCEPT ![u] = acc'[u]] /\ acc'[u] \in AccountRecords
  /\ acc'[u].role # "none" /\ acc'[u].status # "none"

LEMMA AccStepIs ==
  ASSUME WellFormed, NEW u \in Accounts, NEW a \in AccountRecords,
         acc' = [acc EXCEPT ![u] = a], a.role # "none", a.status # "none"
  PROVE  AccStep(u) /\ acc'[u] = a /\ \A v \in Accounts : v # u => acc'[v] = acc[v]
  BY DEF WellFormed, People, AccStep

LEMMA EndsIs ==
  ASSUME WellFormed, NEW o \in Ops, Ends(o)
  PROVE  /\ OpStep(o) /\ op'[o].at = "done" /\ op'[o].kind = "none" /\ op'[o].keys = {}
         /\ \A q \in Ops : q # o => op'[q] = op[q]
  <1>1. Done.at = "done" /\ Done.kind = "none" /\ Done.keys = {}
    BY DEF Done, Blank
  <1> QED
    BY <1>1, Constants, OpStepIs DEF Ends

(* A step of one operation on one account, or on none, keeps the accounts  *)
(* and the operations in form.                                             *)
LEMMA TasksStay ==
  ASSUME WellFormed, NEW o \in Ops, OpStep(o), acc' = acc, Fits(o, op[o])'
  PROVE  People' /\ Tasks'
  <1>1. \A v : Born(v)' <=> Born(v)
    BY DEF Born
  <1>2. \A q \in Ops : q # o => op'[q] = op[q]
    BY DEF WellFormed, Tasks, OpStep
  <1>3. ASSUME NEW q \in Ops, q # o PROVE Fits(q, op[q])'
    <2>1. Fits(q, op[q]) /\ op'[q] = op[q]
      BY <1>2, <1>3 DEF WellFormed, Tasks
    <2> QED
      BY <1>1, <2>1 DEF Fits
  <1>4. op' \in [Ops -> OpRecords]
    BY DEF WellFormed, Tasks, OpStep
  <1> QED
    BY <1>1, <1>3, <1>4 DEF WellFormed, People, Tasks

LEMMA TasksMove ==
  ASSUME WellFormed, NEW o \in Ops, NEW u \in Accounts, Born(u) \/ u = o,
         OpStep(o), AccStep(u), Fits(o, op[o])'
  PROVE  /\ People' /\ Tasks'
         /\ \A v \in Accounts : Born(v) => Born(v)'
  <1>1. \A v \in Accounts : v # u => acc'[v] = acc[v]
    BY DEF WellFormed, People, AccStep
  <1>2. \A v \in Accounts : Born(v) => Born(v)'
    BY <1>1 DEF Born, AccStep
  <1>3. \A q \in Ops : q # o => op'[q] = op[q]
    BY DEF WellFormed, Tasks, OpStep
  <1>4. ASSUME NEW q \in Ops, q # o PROVE Fits(q, op[q])'
    <2>1. Fits(q, op[q]) /\ op'[q] = op[q] /\ q \in Accounts
      BY <1>3, <1>4 DEF WellFormed, Tasks, Accounts
    <2>2. ~Born(q) => ~Born(q)'
      BY <1>1, <1>4, <2>1 DEF Born
    <2> QED
      BY <1>2, <2>1, <2>2 DEF Fits
  <1>5. op' \in [Ops -> OpRecords] /\ acc' \in [Accounts -> AccountRecords]
    BY DEF WellFormed, Tasks, OpStep, People, AccStep
  <1>6. \A v \in Accounts : Born(v)' <=> acc'[v].status # "none"
    BY <1>1 DEF WellFormed, People, Born, AccStep
  <1> QED
    BY <1>2, <1>4, <1>5, <1>6 DEF Tasks, People

LEMMA RegisterCommits ==
  ASSUME WellFormed, NEW o \in Ops, CommitRegister(o)
  PROVE  LET u == o IN
         /\ op[o].kind = "register" /\ op[o].at = "begun" /\ OpStep(o) /\ u \in Accounts
         /\ AccStep(u)
         /\ \A v \in Accounts : v # u => acc'[v] = acc[v]
         /\ op'[o].at = "issue" /\ op'[o].kind = op[o].kind /\ op'[o].user = o /\ op'[o].keys = {}
         /\ acc'[u].role = op[o].role /\ acc'[u].status = "active" /\ acc'[u].pw = o
         /\ acc'[u].locked = Absent.locked /\ acc'[u].era = Absent.era /\ acc'[u].off = Absent.off
  <1> DEFINE u == o
             a == [Absent EXCEPT !.role = op[o].role, !.status = "active", !.pw = o]
  <1>1. /\ op[o].kind = "register" /\ op[o].at = "begun" /\ acc' = [acc EXCEPT ![u] = a]
    BY DEF CommitRegister, Commits
  <1>2. /\ op[o] \in OpRecords /\ Fits(o, op[o]) /\ u \in Accounts
    BY <1>1 DEF WellFormed, Tasks, Fits, AboutSomebody, Accounts
  <1>3. /\ Absent \in AccountRecords
        /\ op[o].role \in Roles \cup {"none"} /\ "active" \in {"none", "active", "disabled"}
        /\ o \in Ids \cup {None}
    BY <1>1, <1>2, Constants DEF OpRecords, Ids
  <1>4. a \in AccountRecords
    <2> HIDE DEF u
    <2> QED
      BY <1>3, Zenon DEF AccountRecords
  <1>5. a.role = op[o].role /\ a.status = "active" /\ a.pw = o /\ a.locked = Absent.locked
        /\ a.era = Absent.era /\ a.off = Absent.off
    BY <1>3 DEF AccountRecords
  <1>6. a.role # "none" /\ a.status # "none"
    BY <1>1, <1>2, <1>3, <1>5 DEF WellFormed, People, Born, Fits, AboutSomebody, Roles, Mappings
  <1>7. AccStep(u) /\ acc'[u] = a /\ \A v \in Accounts : v # u => acc'[v] = acc[v]
    <2> HIDE DEF a, u
    <2> QED
      BY <1>1, <1>2, <1>4, <1>6, AccStepIs
  <1>8. OpStep(o) /\ op'[o].at = "issue" /\ op'[o].kind = op[o].kind /\ op'[o].user = o
        /\ op'[o].seen = a /\ op'[o].keys = {}
    <2> DEFINE r == [op[o] EXCEPT !.at = "issue", !.user = o, !.seen = a, !.keys = {}]
    <2>1. op' = [op EXCEPT ![o] = r]
      BY DEF CommitRegister
    <2>2. {} \in SUBSET AllKeys /\ "issue" \in Stages /\ o \in Accounts \cup {None}
      BY DEF Stages, Accounts
    <2>3. r \in OpRecords
      <3> HIDE DEF a, u
      <3> QED
        BY <1>2, <1>4, <2>2, OpUpdates, Zenon
    <2>4. r.at = "issue" /\ r.kind = op[o].kind /\ r.user = o /\ r.seen = a /\ r.keys = {}
      BY <1>2 DEF OpRecords
    <2> QED
      BY <2>1, <2>3, <2>4, OpStepIs
  <1> HIDE DEF a
  <1> QED
    BY <1>1, <1>2, <1>5, <1>7, <1>8

LEMMA ResetCommits ==
  ASSUME WellFormed, NEW o \in Ops, CommitReset(o)
  PROVE  LET u == op[o].user IN
         /\ op[o].kind = "reset" /\ op[o].at = "begun" /\ OpStep(o) /\ u \in Accounts /\ AccStep(u)
         /\ \A v \in Accounts : v # u => acc'[v] = acc[v]
         /\ op'[o].at = "done" /\ op'[o].kind = "none" /\ op'[o].keys = {}
         /\ acc'[u].role = acc[u].role /\ acc'[u].status = acc[u].status /\ acc'[u].pw = o
         /\ acc'[u].locked = acc[u].locked /\ acc'[u].era = acc[u].era /\ acc'[u].off = acc[u].off
  <1> DEFINE u == op[o].user
             a == [acc[u] EXCEPT !.pw = o, !.proof = TRUE]
  <1>1. /\ op[o].kind = "reset" /\ op[o].at = "begun" /\ acc' = [acc EXCEPT ![u] = a]
        /\ reset[u] = op[o].link /\ acc[u].status = "active"
    BY DEF CommitReset, Commits, CutOff, Active
  <1>2. /\ op[o] \in OpRecords /\ Fits(o, op[o]) /\ u \in Accounts
    BY <1>1 DEF WellFormed, Tasks, Fits, AboutSomebody, Accounts
  <1>3. /\ acc[u] \in AccountRecords
        /\ o \in Ids \cup {None}
    BY <1>1, <1>2 DEF WellFormed, People, Ids
  <1>4. a \in AccountRecords
    <2> HIDE DEF u
    <2> QED
      BY <1>3, Zenon DEF AccountRecords
  <1>5. a.role = acc[u].role /\ a.status = acc[u].status /\ a.pw = o /\ a.locked = acc[u].locked
        /\ a.era = acc[u].era /\ a.off = acc[u].off
    BY <1>3 DEF AccountRecords
  <1>6. a.role # "none" /\ a.status # "none"
    BY <1>1, <1>2, <1>3, <1>5 DEF WellFormed, People, Born, Fits, AboutSomebody, Roles, Mappings
  <1>7. AccStep(u) /\ acc'[u] = a /\ \A v \in Accounts : v # u => acc'[v] = acc[v]
    <2> HIDE DEF a, u
    <2> QED
      BY <1>1, <1>2, <1>4, <1>6, AccStepIs
  <1>8. OpStep(o) /\ op'[o].at = "done" /\ op'[o].kind = "none" /\ op'[o].keys = {}
    BY EndsIs DEF CommitReset
  <1> HIDE DEF a
  <1> QED
    BY <1>1, <1>2, <1>5, <1>7, <1>8

LEMMA ChangeCommits ==
  ASSUME WellFormed, NEW o \in Ops, CommitChange(o)
  PROVE  LET u == op[o].user IN
         /\ op[o].kind = "change" /\ op[o].at = "begun" /\ OpStep(o) /\ u \in Accounts /\ AccStep(u)
         /\ \A v \in Accounts : v # u => acc'[v] = acc[v]
         /\ op'[o].at = "issue" /\ op'[o].kind = op[o].kind /\ op'[o].user = op[o].user
         /\ op'[o].keys = op[o].keys /\ op'[o].seen.pw = o
         /\ acc'[u].role = acc[u].role /\ acc'[u].status = acc[u].status /\ acc'[u].pw = o
         /\ acc'[u].locked = acc[u].locked /\ acc'[u].era = acc[u].era /\ acc'[u].off = acc[u].off
  <1> DEFINE u == op[o].user
             a == [acc[u] EXCEPT !.pw = o]
  <1>1. /\ op[o].kind = "change" /\ op[o].at = "begun" /\ acc' = [acc EXCEPT ![u] = a]
    BY DEF CommitChange, Commits, CutOff
  <1>2. /\ op[o] \in OpRecords /\ Fits(o, op[o]) /\ u \in Accounts
    BY <1>1 DEF WellFormed, Tasks, Fits, AboutSomebody, Accounts
  <1>3. /\ acc[u] \in AccountRecords
        /\ o \in Ids \cup {None}
    BY <1>1, <1>2 DEF WellFormed, People, Ids
  <1>4. a \in AccountRecords
    <2> HIDE DEF u
    <2> QED
      BY <1>3, Zenon DEF AccountRecords
  <1>5. a.role = acc[u].role /\ a.status = acc[u].status /\ a.pw = o /\ a.locked = acc[u].locked
        /\ a.era = acc[u].era /\ a.off = acc[u].off
    BY <1>3 DEF AccountRecords
  <1>6. a.role # "none" /\ a.status # "none"
    BY <1>1, <1>2, <1>3, <1>5 DEF WellFormed, People, Born, Fits, AboutSomebody, Roles, Mappings
  <1>7. AccStep(u) /\ acc'[u] = a /\ \A v \in Accounts : v # u => acc'[v] = acc[v]
    <2> HIDE DEF a, u
    <2> QED
      BY <1>1, <1>2, <1>4, <1>6, AccStepIs
  <1>8. OpStep(o) /\ op'[o].at = "issue" /\ op'[o].kind = op[o].kind /\ op'[o].user = op[o].user
        /\ op'[o].keys = op[o].keys /\ op'[o].seen = a
    <2> DEFINE r == [op[o] EXCEPT !.at = "issue", !.seen = a]
    <2>1. op' = [op EXCEPT ![o] = r]
      BY DEF CommitChange
    <2>2. {} \in SUBSET AllKeys /\ "issue" \in Stages /\ o \in Accounts \cup {None}
      BY DEF Stages, Accounts
    <2>3. r \in OpRecords
      <3> HIDE DEF a, u
      <3> QED
        BY <1>2, <1>4, <2>2, OpUpdates, Zenon
    <2>4. r.at = "issue" /\ r.kind = op[o].kind /\ r.user = op[o].user /\ r.keys = op[o].keys
          /\ r.seen = a
      BY <1>2 DEF OpRecords
    <2> QED
      BY <2>1, <2>3, <2>4, OpStepIs
  <1> HIDE DEF a
  <1> QED
    BY <1>1, <1>2, <1>5, <1>7, <1>8

LEMMA GodCommits ==
  ASSUME WellFormed, NEW o \in Ops, CommitGod(o)
  PROVE  LET u == op[o].user IN
         /\ op[o].kind = "god" /\ op[o].at = "begun" /\ OpStep(o) /\ u \in Accounts /\ AccStep(u)
         /\ \A v \in Accounts : v # u => acc'[v] = acc[v]
         /\ op'[o].at = "done" /\ op'[o].kind = "none" /\ op'[o].keys = {}
         /\ acc[u].role = op[o].seen.role /\ acc[u].status = op[o].seen.status
         /\ acc'[u].role = acc[u].role /\ acc'[u].status = "disabled" /\ acc'[u].pw = acc[u].pw
         /\ acc'[u].locked = acc[u].locked /\ acc'[u].era = o /\ acc'[u].off = o
  <1> DEFINE u == op[o].user
             a == [acc[u] EXCEPT !.status = "disabled", !.era = o, !.off = o]
  <1>1. /\ op[o].kind = "god" /\ op[o].at = "begun" /\ acc' = [acc EXCEPT ![u] = a]
        /\ acc[u].role = op[o].seen.role /\ acc[u].status = op[o].seen.status
    BY DEF CommitGod, Commits, CutOff, SameTarget
  <1>2. /\ op[o] \in OpRecords /\ Fits(o, op[o]) /\ u \in Accounts
    BY <1>1 DEF WellFormed, Tasks, Fits, AboutSomebody, Accounts
  <1>3. /\ acc[u] \in AccountRecords
        /\ o \in Ids /\ "disabled" \in {"none", "active", "disabled"}
    BY <1>1, <1>2 DEF WellFormed, People, Ids
  <1>4. a \in AccountRecords
    <2> HIDE DEF u
    <2> QED
      BY <1>3, Zenon DEF AccountRecords
  <1>5. a.role = acc[u].role /\ a.status = "disabled" /\ a.pw = acc[u].pw
        /\ a.locked = acc[u].locked /\ a.era = o /\ a.off = o
    BY <1>3 DEF AccountRecords
  <1>6. a.role # "none" /\ a.status # "none"
    BY <1>1, <1>2, <1>3, <1>5 DEF WellFormed, People, Born, Fits, AboutSomebody, Roles, Mappings
  <1>7. AccStep(u) /\ acc'[u] = a /\ \A v \in Accounts : v # u => acc'[v] = acc[v]
    <2> HIDE DEF a, u
    <2> QED
      BY <1>1, <1>2, <1>4, <1>6, AccStepIs
  <1>8. OpStep(o) /\ op'[o].at = "done" /\ op'[o].kind = "none" /\ op'[o].keys = {}
    BY EndsIs DEF CommitGod
  <1> HIDE DEF a
  <1> QED
    BY <1>1, <1>2, <1>5, <1>7, <1>8

LEMMA DeprovisionCommits ==
  ASSUME WellFormed, NEW o \in Ops, CommitDeprovision(o)
  PROVE  LET u == op[o].user IN
         /\ op[o].kind = "deprovision" /\ op[o].at = "begun" /\ OpStep(o) /\ u \in Accounts
         /\ AccStep(u)
         /\ \A v \in Accounts : v # u => acc'[v] = acc[v]
         /\ op'[o].at = "done" /\ op'[o].kind = "none" /\ op'[o].keys = {}
         /\ acc[u].role = op[o].seen.role /\ acc[u].status = op[o].seen.status
         /\ acc'[u].role = acc[u].role /\ acc'[u].status = "disabled" /\ acc'[u].pw = acc[u].pw
         /\ acc'[u].locked = acc[u].locked /\ acc'[u].era = o /\ acc'[u].off = o
  <1> DEFINE u == op[o].user
             a == [acc[u] EXCEPT !.status = "disabled", !.era = o, !.off = o]
  <1>1. /\ op[o].kind = "deprovision" /\ op[o].at = "begun" /\ acc' = [acc EXCEPT ![u] = a]
        /\ acc[u].role = op[o].seen.role /\ acc[u].status = op[o].seen.status
    BY DEF CommitDeprovision, Commits, CutOff, SameTarget
  <1>2. /\ op[o] \in OpRecords /\ Fits(o, op[o]) /\ u \in Accounts
    BY <1>1 DEF WellFormed, Tasks, Fits, AboutSomebody, Accounts
  <1>3. /\ acc[u] \in AccountRecords
        /\ o \in Ids /\ "disabled" \in {"none", "active", "disabled"}
    BY <1>1, <1>2 DEF WellFormed, People, Ids
  <1>4. a \in AccountRecords
    <2> HIDE DEF u
    <2> QED
      BY <1>3, Zenon DEF AccountRecords
  <1>5. a.role = acc[u].role /\ a.status = "disabled" /\ a.pw = acc[u].pw
        /\ a.locked = acc[u].locked /\ a.era = o /\ a.off = o
    BY <1>3 DEF AccountRecords
  <1>6. a.role # "none" /\ a.status # "none"
    BY <1>1, <1>2, <1>3, <1>5 DEF WellFormed, People, Born, Fits, AboutSomebody, Roles, Mappings
  <1>7. AccStep(u) /\ acc'[u] = a /\ \A v \in Accounts : v # u => acc'[v] = acc[v]
    <2> HIDE DEF a, u
    <2> QED
      BY <1>1, <1>2, <1>4, <1>6, AccStepIs
  <1>8. OpStep(o) /\ op'[o].at = "done" /\ op'[o].kind = "none" /\ op'[o].keys = {}
    BY EndsIs DEF CommitDeprovision
  <1> HIDE DEF a
  <1> QED
    BY <1>1, <1>2, <1>5, <1>7, <1>8

LEMMA UpdateCommits ==
  ASSUME WellFormed, NEW o \in Ops, CommitUpdate(o)
  PROVE  LET u == op[o].user
             off == op[o].status = "disabled" /\ op[o].seen.status = "active"
             raised == Rank(op[o].role) > Rank(op[o].seen.role)
         IN
         /\ op[o].kind = "update" /\ op[o].at = "begun"
         /\ OpStep(o) /\ op'[o].at = "done" /\ op'[o].kind = "none" /\ op'[o].keys = {}
         /\ u \in Accounts /\ AccStep(u)
         /\ \A v \in Accounts : v # u => acc'[v] = acc[v]
         /\ acc[u].role = op[o].seen.role /\ acc[u].status = op[o].seen.status
         /\ acc'[u].role = op[o].role /\ acc'[u].status = op[o].status
         /\ acc'[u].era = IF off \/ raised THEN o ELSE acc[u].era
         /\ acc'[u].off = IF off THEN o ELSE acc[u].off
         /\ acc'[u].pw = acc[u].pw /\ acc'[u].locked = acc[u].locked
  <1> DEFINE u == op[o].user
             off == op[o].status = "disabled" /\ op[o].seen.status = "active"
             raised == Rank(op[o].role) > Rank(op[o].seen.role)
             e == IF off \/ raised THEN o ELSE acc[u].era
             f == IF off THEN o ELSE acc[u].off
             a == [acc[u] EXCEPT !.role = op[o].role, !.status = op[o].status, !.era = e, !.off = f]
  <1>1. /\ op[o].kind = "update" /\ op[o].at = "begun" /\ Ends(o)
        /\ acc[u].role = op[o].seen.role /\ acc[u].status = op[o].seen.status
    BY DEF CommitUpdate, Commits
  <1>2. acc' = [acc EXCEPT ![u] = a]
    BY Zenon DEF CommitUpdate
  <1>3. /\ u \in Accounts /\ acc[u] \in AccountRecords /\ op[o].role \in Roles
        /\ op[o].status \in {"active", "disabled"}
    BY <1>1 DEF WellFormed, Tasks, People, Fits, AboutSomebody
  <1>4. /\ op[o].role \in Roles \cup {"none"} /\ op[o].status \in {"none", "active", "disabled"}
        /\ op[o].role # "none" /\ op[o].status # "none"
    BY <1>3 DEF Roles
  <1>5. e \in Ids /\ f \in Ids
    BY <1>3 DEF AccountRecords, Ids
  <1> HIDE DEF e, f, u
  <1>6. a \in AccountRecords
    BY <1>3, <1>4, <1>5, Zenon DEF AccountRecords
  <1>7. /\ a.role = op[o].role /\ a.status = op[o].status /\ a.era = e /\ a.off = f
        /\ a.pw = acc[u].pw /\ a.locked = acc[u].locked
    BY <1>3 DEF AccountRecords
  <1> HIDE DEF a
  <1>8. AccStep(u) /\ acc'[u] = a /\ \A v \in Accounts : v # u => acc'[v] = acc[v]
    BY <1>2, <1>3, <1>4, <1>6, <1>7, AccStepIs
  <1> QED
    BY <1>1, <1>3, <1>7, <1>8, EndsIs DEF u, e, f

LEMMA ProvisionCommits ==
  ASSUME WellFormed, NEW o \in Ops, CommitProvision(o)
  PROVE  /\ op[o].kind = "sso" /\ op[o].at = "begun" /\ op[o].status = "provision"
         /\ OpStep(o) /\ op'[o].at = "done" /\ op'[o].kind = "none" /\ op'[o].keys = {}
         /\ o \in Accounts /\ AccStep(o)
         /\ \A v \in Accounts : v # o => acc'[v] = acc[v]
         /\ acc'[o].role = op[o].role /\ acc'[o].role \in {"member", "admin"}
         /\ acc'[o].era = Origin
  <1> DEFINE a == [Absent EXCEPT !.role = op[o].role, !.status = "active", !.locked = TRUE]
  <1>1. PICK proof \in BOOLEAN : acc' = [acc EXCEPT ![o] = [a EXCEPT !.proof = proof]]
    BY DEF CommitProvision
  <1> DEFINE c == [a EXCEPT !.proof = proof]
  <1>2. /\ op[o].kind = "sso" /\ op[o].at = "begun" /\ op[o].status = "provision" /\ Ends(o)
    BY DEF CommitProvision, Commits
  <1>3. /\ Absent \in AccountRecords /\ op[o].role \in {"member", "admin"} /\ o \in Accounts
        /\ op[o].role \in Roles \cup {"none"} /\ "active" \in {"none", "active", "disabled"}
    BY <1>2, Constants DEF WellFormed, Tasks, Fits, Mappings, Roles, Accounts
  <1>4. a \in AccountRecords
    BY <1>3, Zenon DEF AccountRecords
  <1>5. a.role = op[o].role /\ a.status = "active" /\ a.era = Origin
    BY <1>3 DEF AccountRecords, Absent
  <1> HIDE DEF a
  <1>6. c \in AccountRecords
    BY <1>4 DEF AccountRecords
  <1>7. c.role = op[o].role /\ c.status = "active" /\ c.era = Origin
    BY <1>4, <1>5 DEF AccountRecords
  <1> HIDE DEF c
  <1>8. AccStep(o) /\ acc'[o] = c /\ \A v \in Accounts : v # o => acc'[v] = acc[v]
    <2>1. acc' = [acc EXCEPT ![o] = c] /\ c.role # "none" /\ c.status # "none"
      BY <1>1, <1>3, <1>7 DEF c
    <2> QED
      BY <1>3, <1>6, <2>1, AccStepIs
  <1> QED
    BY <1>2, <1>3, <1>7, <1>8, EndsIs

(* A sign-in into an account there is. *)
LEMMA SignInCommits ==
  ASSUME WellFormed, NEW o \in Ops, CommitSignIn(o)
  PROVE  LET u == op[o].user
             raised == Rank(op[o].role) > Rank(op[o].seen.role)
         IN
         /\ op[o].kind = "sso" /\ op[o].at = "begun" /\ op[o].status # "provision"
         /\ OpStep(o) /\ op'[o].at = "done" /\ op'[o].kind = "none" /\ op'[o].keys = {}
         /\ u \in Accounts /\ AccStep(u)
         /\ \A v \in Accounts : v # u => acc'[v] = acc[v]
         /\ op[o].role # op[o].seen.role => acc[u].role = op[o].seen.role
         /\ acc'[u].role = IF op[o].role # op[o].seen.role THEN op[o].role ELSE acc[u].role
         /\ acc'[u].era = IF raised THEN o ELSE acc[u].era
         /\ acc'[u].status = acc[u].status /\ acc'[u].pw = acc[u].pw
         /\ acc'[u].off = acc[u].off /\ acc'[u].locked = acc[u].locked
  <1> DEFINE u == op[o].user
             raised == Rank(op[o].role) > Rank(op[o].seen.role)
             x == IF op[o].role # op[o].seen.role THEN op[o].role ELSE acc[u].role
             e == IF raised THEN o ELSE acc[u].era
             b == acc[u].proof \/ op[o].status = "auto"
             a == [acc[u] EXCEPT !.role = x, !.proof = b, !.era = e]
  <1>1. /\ op[o].kind = "sso" /\ op[o].at = "begun" /\ op[o].status # "provision" /\ Ends(o)
        /\ acc' = [acc EXCEPT ![u] = a]
        /\ op[o].role # op[o].seen.role => acc[u].role = op[o].seen.role
    BY DEF CommitSignIn, Commits
  <1>2. /\ u \in Accounts /\ Born(u) /\ acc[u] \in AccountRecords
        /\ op[o].role \in Roles
    BY <1>1 DEF WellFormed, Tasks, People, Fits
  <1>3. x \in Roles \cup {"none"} /\ x # "none" /\ e \in Ids /\ acc[u].status # "none"
    BY <1>2 DEF WellFormed, People, AccountRecords, Ids, Roles, Born
  <1>4. b \in BOOLEAN
    BY Zenon
  <1> HIDE DEF x, e, b, u
  <1>5. a \in AccountRecords
    BY <1>2, <1>3, <1>4, Zenon DEF AccountRecords
  <1>6. /\ a.role = x /\ a.era = e /\ a.status = acc[u].status /\ a.pw = acc[u].pw
        /\ a.off = acc[u].off /\ a.locked = acc[u].locked
    BY <1>2 DEF AccountRecords
  <1> HIDE DEF a
  <1>7. AccStep(u) /\ acc'[u] = a /\ \A v \in Accounts : v # u => acc'[v] = acc[v]
    BY <1>1, <1>2, <1>3, <1>5, <1>6, AccStepIs
  <1> QED
    BY <1>1, <1>2, <1>6, <1>7, EndsIs DEF u, x, e

-----------------------------------------------------------------------------
LEMMA WellFormedInit == Init => WellFormed
  <1> SUFFICES ASSUME Init PROVE WellFormed
    OBVIOUS
  <1>1. PICK seeded \in {{}, Seeds}, proven \in BOOLEAN :
          /\ acc = [u \in Accounts |->
                      IF u \notin seeded THEN Absent
                      ELSE [Absent EXCEPT !.role = IF u \in Founders THEN "super" ELSE "member",
                                          !.status = "active", !.pw = Origin, !.proof = proven]]
          /\ sessions = {[user |-> u, id |-> Origin, how |-> "password", pw |-> Origin,
                          era |-> Origin, link |-> None] : u \in seeded}
          /\ \/ links = {}
             \/ \E u \in seeded, p \in Providers :
                  proven /\ links = {[user |-> u, prov |-> p, id |-> Origin, how |-> "explicit"]}
    BY Zenon DEF Init
  <1>2. Absent \in AccountRecords /\ Absent.role = "none" /\ Absent.status = "none"
    BY Constants DEF Absent
  <1>3. ASSUME NEW u \in Accounts
        PROVE  /\ acc[u] \in AccountRecords
               /\ Born(u) <=> u \in seeded
               /\ Born(u) <=> acc[u].status # "none"
    <2>1. CASE u \notin seeded
      BY <1>1, <1>2, <2>1 DEF Born
    <2>2. CASE u \in seeded
      <3> DEFINE x == IF u \in Founders THEN "super" ELSE "member"
                 a == [Absent EXCEPT !.role = x, !.status = "active", !.pw = Origin,
                     !.proof = proven]
      <3>1. acc[u] = a
        BY <1>1, <2>2
      <3>2. x \in Roles \cup {"none"} /\ x # "none" /\ "active" \in {"none", "active", "disabled"}
            /\ Origin \in Ids \cup {None}
        BY DEF Roles, Ids
      <3> HIDE DEF x
      <3>3. a \in AccountRecords
        BY <1>2, <3>2, Zenon DEF AccountRecords
      <3>4. a.role = x /\ a.status = "active"
        BY <1>2 DEF AccountRecords
      <3> HIDE DEF a
      <3> QED
        BY <2>2, <3>1, <3>2, <3>3, <3>4 DEF Born
    <2> QED
      BY <2>1, <2>2
  <1>4. seeded \subseteq Accounts /\ (\A o \in Ops : o \in Accounts /\ o \notin seeded)
    BY AccountsAssumption DEF Accounts, Seeds
  <1>5. People
    BY <1>1, <1>3 DEF People
  <1>6. Tasks
    <2>1. ASSUME NEW o \in Ops PROVE Fits(o, Blank)
      BY <1>3, <1>4 DEF Fits, Blank, AboutSomebody
    <2> QED
      BY <2>1, Constants DEF Init, Tasks
  <1>7. Doors
    <2>1. \/ links = {}
          \/ \E u \in seeded, p \in Providers :
               links = {[user |-> u, prov |-> p, id |-> Origin, how |-> "explicit"]}
      BY <1>1
    <2>2. /\ links \subseteq LinkRecords /\ \A l \in links : Born(l.user)
          /\ \A l, k \in links : l = k
      <3>1. CASE links = {}
        BY <3>1
      <3>2. ASSUME NEW u \in seeded, NEW p \in Providers,
                   links = {[user |-> u, prov |-> p, id |-> Origin, how |-> "explicit"]}
            PROVE  /\ links \subseteq LinkRecords /\ \A l \in links : Born(l.user)
                   /\ \A l, k \in links : l = k
        BY <1>3, <1>4, <3>2 DEF LinkRecords, Ids
      <3> QED
        BY <2>1, <3>1, <3>2
    <2>3. ASSUME NEW z \in sessions
          PROVE  z \in SessionRecords /\ Born(z.user) /\ z.how = "password"
      <3>1. PICK u \in seeded :
              z = [user |-> u, id |-> Origin, how |-> "password", pw |-> Origin,
                   era |-> Origin, link |-> None]
        BY <1>1
      <3> QED
        BY <1>3, <1>4, <3>1 DEF SessionRecords, Ids, Hows
    <2> QED
      BY <2>2, <2>3 DEF Doors
  <1>8. Papers
    <2>1. settings \in SettingsRecords
          /\ settings.enabled \cup settings.strict \subseteq settings.force
      BY DEF Init, SettingsRecords
    <2> QED
      BY <2>1 DEF Init, Papers
  <1> QED
    BY <1>5, <1>6, <1>7, <1>8 DEF WellFormed

(* A step that only moves an operation on. *)
LEMMA OpMoves ==
  ASSUME WellFormed, NEW o \in Ops, OpStep(o), Still, Fits(o, op'[o])
  PROVE  WellFormed'
  <1>1. Fits(o, op[o])' /\ acc' = acc
    BY DEF Still, Fits, Born
  <1>2. People' /\ Tasks'
    BY <1>1, TasksStay
  <1>3. Doors' /\ Papers'
    BY DEF WellFormed, Still, Doors, Papers, Born
  <1> QED
    BY <1>2, <1>3 DEF WellFormed

LEMMA EndedFits ==
  ASSUME NEW o \in Ops, op'[o].at = "done", op'[o].kind = "none" PROVE Fits(o, op[o])'
  BY DEF Fits, AboutSomebody

LEMMA EndsKeeps ==
  ASSUME WellFormed, NEW o \in Ops, Ends(o), acc' = acc
  PROVE  People' /\ Tasks' /\ \A v : Born(v)' <=> Born(v)
  BY EndsIs, EndedFits, TasksStay DEF Born

LEMMA WellFormedStep == WellFormed /\ [Next]_vars => WellFormed'
  <1> SUFFICES ASSUME WellFormed, [Next]_vars PROVE WellFormed'
    OBVIOUS
  <1>1. ASSUME NEW o \in Ops, StartRegister(o) PROVE WellFormed'
    BY <1>1, RegisterStarts, OpMoves DEF Starting
  <1>2. ASSUME NEW o \in Ops, StartLogin(o) PROVE WellFormed'
    BY <1>2, LoginStarts, OpMoves DEF Starting
  <1>3. ASSUME NEW o \in Ops, StartRequest(o) PROVE WellFormed'
    BY <1>3, RequestStarts, OpMoves DEF Starting
  <1>4. ASSUME NEW o \in Ops, StartReset(o) PROVE WellFormed'
    BY <1>4, ResetStarts, OpMoves DEF Starting
  <1>5. ASSUME NEW o \in Ops, StartChange(o) PROVE WellFormed'
    BY <1>5, ChangeStarts, OpMoves DEF Starting
  <1>6. ASSUME NEW o \in Ops, StartUpdate(o) PROVE WellFormed'
    BY <1>6, UpdateStarts, OpMoves DEF Starting
  <1>7. ASSUME NEW o \in Ops, StartGod(o) PROVE WellFormed'
    BY <1>7, GodStarts, OpMoves DEF Starting
  <1>8. ASSUME NEW o \in Ops, StartSignIn(o) PROVE WellFormed'
    BY <1>8, SignInStarts, OpMoves DEF Starting
  <1>9. ASSUME NEW o \in Ops, StartDeprovision(o) PROVE WellFormed'
    BY <1>9, DeprovisionStarts, OpMoves DEF Starting
  <1>10. ASSUME NEW o \in Ops, StartSave(o) PROVE WellFormed'
    BY <1>10, SaveStarts, OpMoves DEF Starting
  <1>11. ASSUME NEW o \in Ops, BeginRegister(o) PROVE WellFormed'
    BY <1>11, RegisterBegins, OpMoves DEF Beginning
  <1>12. ASSUME NEW o \in Ops, BeginLogin(o) PROVE WellFormed'
    BY <1>12, LoginBegins, OpMoves DEF Beginning
  <1>13. ASSUME NEW o \in Ops, BeginRequest(o) PROVE WellFormed'
    BY <1>13, RequestBegins, OpMoves DEF Beginning
  <1>14. ASSUME NEW o \in Ops, BeginReset(o) PROVE WellFormed'
    BY <1>14, ResetBegins, OpMoves DEF Beginning
  <1>15. ASSUME NEW o \in Ops, BeginChange(o) PROVE WellFormed'
    BY <1>15, ChangeBegins, OpMoves DEF Beginning
  <1>16. ASSUME NEW o \in Ops, BeginUpdate(o) PROVE WellFormed'
    BY <1>16, UpdateBegins, OpMoves DEF Beginning
  <1>17. ASSUME NEW o \in Ops, BeginGod(o) PROVE WellFormed'
    BY <1>17, GodBegins, OpMoves DEF Beginning
  <1>18. ASSUME NEW o \in Ops, BeginSignIn(o) PROVE WellFormed'
    BY <1>18, ProvisionBegins, SignInBegins, OpMoves DEF Beginning
  <1>19. ASSUME NEW o \in Ops, BeginDeprovision(o) PROVE WellFormed'
    BY <1>19, DeprovisionBegins, OpMoves DEF Beginning
  <1>20. ASSUME NEW o \in Ops, BeginSave(o) PROVE WellFormed'
    BY <1>20, SaveBegins, OpMoves DEF Beginning
  <1>21. ASSUME NEW o \in Ops, Abort(o) PROVE WellFormed'
    <2>1. Doors' /\ Papers'
      BY <1>21 DEF Abort, WellFormed, Doors, Papers, Born
    <2> QED
      BY <1>21, <2>1, EndsKeeps DEF Abort, WellFormed
  <1>22. ASSUME NEW o \in Ops, CommitRegister(o) PROVE WellFormed'
    <2>1. Fits(o, op[o])'
      BY <1>22, RegisterCommits DEF Fits, AboutSomebody, Born, AccStep
    <2>2. People' /\ Tasks' /\ \A v \in Accounts : Born(v) => Born(v)'
      BY <1>22, <2>1, RegisterCommits, TasksMove
    <2>3. Doors'
      BY <1>22, <2>2 DEF CommitRegister, WellFormed, Doors, LinkRecords, SessionRecords
    <2>4. Papers'
      BY <1>22 DEF CommitRegister, WellFormed, Papers, Accounts
    <2> QED
      BY <2>2, <2>3, <2>4 DEF WellFormed
  <1>23. ASSUME NEW o \in Ops, IssueRegister(o) PROVE WellFormed'
    <2>1. op[o] \in OpRecords /\ op[o].seen \in AccountRecords /\ Born(o) /\ o \in Accounts
      BY <1>23 DEF IssueRegister, WellFormed, Tasks, Fits, OpRecords, Accounts
    <2>2. Session(o, o, "register", op[o].seen, None) \in SessionRecords
      BY <2>1 DEF Session, SessionRecords, AccountRecords, Ids, Hows
    <2>3. Doors'
      BY <1>23, <2>1, <2>2 DEF IssueRegister, WellFormed, Doors, Session, Born
    <2>4. Papers'
      BY <1>23 DEF IssueRegister, WellFormed, Papers
    <2> QED
      BY <1>23, <2>3, <2>4, EndsKeeps DEF IssueRegister, WellFormed
  <1>24. ASSUME NEW o \in Ops, CommitLogin(o) PROVE WellFormed'
    <2> DEFINE u == op[o].user
    <2>1. op[o].seen \in AccountRecords /\ Born(u) /\ u \in Accounts
      BY <1>24 DEF CommitLogin, Commits, WellFormed, Tasks, Fits, AboutSomebody, OpRecords
    <2>2. Session(o, u, "password", op[o].seen, None) \in SessionRecords
      BY <2>1 DEF Session, SessionRecords, AccountRecords, Ids, Hows
    <2>3. Doors'
      BY <1>24, <2>1, <2>2 DEF CommitLogin, WellFormed, Doors, Session, Born
    <2>4. Papers'
      BY <1>24 DEF CommitLogin, WellFormed, Papers
    <2> QED
      BY <1>24, <2>3, <2>4, EndsKeeps DEF CommitLogin, WellFormed
  <1>25. ASSUME NEW o \in Ops, Logout(o) \/ Unlink(o) PROVE WellFormed'
    <2>1. sessions' \subseteq sessions /\ links' \subseteq links /\ Ends(o)
          /\ UNCHANGED <<acc, reset, settings, claim>>
      BY <1>25 DEF Logout, Unlink
    <2>2. Doors' /\ Papers'
      BY <2>1 DEF WellFormed, Doors, Papers, Born
    <2> QED
      BY <2>1, <2>2, EndsKeeps DEF WellFormed
  <1>26. ASSUME Visit PROVE WellFormed'
    <2>1. sessions' \subseteq sessions /\ UNCHANGED <<acc, links, reset, settings, claim, op>>
      BY <1>26 DEF Visit
    <2> QED
      BY <2>1 DEF WellFormed, People, Tasks, Doors, Papers, Born, Fits
  <1>27. ASSUME NEW o \in Ops, CommitRequest(o) PROVE WellFormed'
    <2>1. [id |-> o, off |-> op[o].seen.off] \in ResetRecords
      BY <1>27 DEF CommitRequest, WellFormed, Tasks, OpRecords, AccountRecords, ResetRecords
    <2>2. Doors'
      BY <1>27 DEF CommitRequest, WellFormed, Doors, Born
    <2>3. Papers'
      BY <1>27, <2>1 DEF CommitRequest, WellFormed, Papers
    <2> QED
      BY <1>27, <2>2, <2>3, EndsKeeps DEF CommitRequest, WellFormed
  <1>28. ASSUME NEW o \in Ops, CommitReset(o) PROVE WellFormed'
    <2>1. People' /\ Tasks' /\ \A v \in Accounts : Born(v) => Born(v)'
      BY <1>28, ResetCommits, EndedFits, TasksMove DEF WellFormed, Tasks, Fits, AboutSomebody
    <2>2. Doors'
      BY <1>28, <2>1 DEF CommitReset, CutOff, WellFormed, Doors, LinkRecords, SessionRecords
    <2>3. Papers'
      BY <1>28, ResetCommits DEF CommitReset, CutOff, WellFormed, Papers
    <2> QED
      BY <2>1, <2>2, <2>3 DEF WellFormed
  <1>29. ASSUME NEW o \in Ops, CommitGod(o) PROVE WellFormed'
    <2>1. People' /\ Tasks' /\ \A v \in Accounts : Born(v) => Born(v)'
      BY <1>29, GodCommits, EndedFits, TasksMove DEF WellFormed, Tasks, Fits, AboutSomebody
    <2>2. Doors'
      BY <1>29, <2>1 DEF CommitGod, CutOff, WellFormed, Doors, LinkRecords, SessionRecords
    <2>3. Papers'
      BY <1>29, GodCommits DEF CommitGod, CutOff, WellFormed, Papers
    <2> QED
      BY <2>1, <2>2, <2>3 DEF WellFormed
  <1>30. ASSUME NEW o \in Ops, CommitDeprovision(o) PROVE WellFormed'
    <2>1. People' /\ Tasks' /\ \A v \in Accounts : Born(v) => Born(v)'
      BY <1>30, DeprovisionCommits, EndedFits, TasksMove DEF WellFormed, Tasks, Fits, AboutSomebody
    <2>2. Doors'
      BY <1>30, <2>1 DEF CommitDeprovision, CutOff, WellFormed, Doors, LinkRecords, SessionRecords
    <2>3. Papers'
      BY <1>30, DeprovisionCommits DEF CommitDeprovision, CutOff, WellFormed, Papers
    <2> QED
      BY <2>1, <2>2, <2>3 DEF WellFormed
  <1>31. ASSUME NEW o \in Ops, CommitChange(o) PROVE WellFormed'
    <2>1. Born(op[o].user)' /\ Born(op[o].user) /\ op[o].user \in Accounts
      BY <1>31, ChangeCommits DEF WellFormed, Tasks, Fits, AboutSomebody, Born, AccStep
    <2>2. Fits(o, op[o])'
      BY <1>31, <2>1, ChangeCommits DEF Fits, AboutSomebody, WellFormed, Tasks
    <2>3. People' /\ Tasks' /\ \A v \in Accounts : Born(v) => Born(v)'
      BY <1>31, <2>1, <2>2, ChangeCommits, TasksMove
    <2>4. Doors'
      BY <1>31, <2>3 DEF CommitChange, CutOff, WellFormed, Doors, LinkRecords, SessionRecords
    <2>5. Papers'
      BY <1>31, <2>1 DEF CommitChange, CutOff, WellFormed, Papers
    <2> QED
      BY <2>3, <2>4, <2>5 DEF WellFormed
  <1>32. ASSUME NEW o \in Ops, IssueChange(o) PROVE WellFormed'
    <2> DEFINE u == op[o].user
    <2>1. op[o].seen \in AccountRecords /\ Born(u) /\ u \in Accounts
      BY <1>32 DEF IssueChange, WellFormed, Tasks, Fits, AboutSomebody, OpRecords
    <2>2. Session(o, u, "change", op[o].seen, None) \in SessionRecords
      BY <2>1 DEF Session, SessionRecords, AccountRecords, Ids, Hows
    <2>3. Doors'
      BY <1>32, <2>1, <2>2 DEF IssueChange, WellFormed, Doors, Session, Born
    <2>4. Papers'
      BY <1>32 DEF IssueChange, WellFormed, Papers
    <2> QED
      BY <1>32, <2>3, <2>4, EndsKeeps DEF IssueChange, WellFormed
  <1>33. ASSUME NEW o \in Ops, CommitUpdate(o) PROVE WellFormed'
    <2>1. People' /\ Tasks' /\ \A v \in Accounts : Born(v) => Born(v)'
      BY <1>33, UpdateCommits, EndedFits, TasksMove DEF WellFormed, Tasks, Fits, AboutSomebody
    <2>2. sessions' \subseteq sessions /\ UNCHANGED <<links, settings, claim>>
          /\ (reset' = reset \/ reset' = [reset EXCEPT ![op[o].user] = None])
      BY <1>33 DEF CommitUpdate
    <2>3. Doors'
      BY <2>1, <2>2 DEF WellFormed, Doors, LinkRecords, SessionRecords
    <2>4. Papers'
      BY <2>2 DEF WellFormed, Papers
    <2> QED
      BY <2>1, <2>3, <2>4 DEF WellFormed
  <1>34. ASSUME NEW o \in Ops, CommitProvision(o) PROVE WellFormed'
    <2> DEFINE a == [Absent EXCEPT !.role = op[o].role, !.status = "active", !.locked = TRUE]
               l == [user |-> o, prov |-> op[o].prov, id |-> o, how |-> "provision"]
    <2>1. People' /\ Tasks' /\ (\A v \in Accounts : Born(v) => Born(v)') /\ Born(o)'
          /\ o \in Accounts
      BY <1>34, ProvisionCommits, EndedFits, TasksMove DEF AccStep, Born
    <2>2. ~Born(o) /\ op[o].prov \in Providers
      BY <1>34, ProvisionCommits DEF WellFormed, Tasks, Fits
    <2>3. l \in LinkRecords /\ l.user = o
      BY <2>1, <2>2 DEF LinkRecords, Ids
    <2>4. links' = links \cup {l} /\ sessions' = sessions \cup {Session(o, o, "sso", a, l)}
      BY <1>34 DEF CommitProvision
    <2>5. a.pw = None /\ a.era = Origin
      BY DEF Absent
    <2> HIDE DEF l, a
    <2>6. Session(o, o, "sso", a, l) \in SessionRecords
      BY <2>1, <2>3, <2>5 DEF Session, SessionRecords, Ids, Hows
    <2>7. Doors'
      BY <2>1, <2>2, <2>3, <2>4, <2>6 DEF WellFormed, Doors, Session, LinkRecords, SessionRecords
    <2>8. Papers'
      BY <1>34 DEF CommitProvision, WellFormed, Papers
    <2> QED
      BY <2>1, <2>7, <2>8 DEF WellFormed
  <1>35. ASSUME NEW o \in Ops, CommitSignIn(o) PROVE WellFormed'
    <2> DEFINE u == op[o].user
               raised == Rank(op[o].role) > Rank(op[o].seen.role)
               a == [op[o].seen EXCEPT !.era = IF raised THEN o ELSE @]
               n == [user |-> u, prov |-> op[o].prov, id |-> o, how |-> op[o].status]
               l == IF op[o].status = "returning" THEN op[o].link ELSE n
    <2>1. People' /\ Tasks' /\ (\A v \in Accounts : Born(v) => Born(v)') /\ u \in Accounts
          /\ Born(u)
      BY <1>35, SignInCommits, EndedFits, TasksMove DEF WellFormed, Tasks, Fits
    <2>2. /\ op[o].prov \in Providers /\ op[o].status \in Plan \ {"provision"}
          /\ op[o].status = "returning" => op[o].link \in LinkRecords /\ op[o].link.user = u
      BY <1>35, SignInCommits DEF WellFormed, Tasks, Fits
    <2>3. /\ op[o].status # "returning" => n \in LinkRecords
          /\ n.user = u /\ n.prov = op[o].prov
      BY <2>1, <2>2 DEF LinkRecords, Ids, Plan
    <2>4. /\ \/ op[o].status = "returning" /\ links' = links
             \/ /\ op[o].status # "returning" /\ links' = links \cup {n}
                /\ \A k \in links : k.user = u => k.prov # op[o].prov
          /\ \E S \in SUBSET sessions : sessions' = S \cup {Session(o, u, "sso", a, l)}
      BY <1>35 DEF CommitSignIn, Attach, LinksOf
    <2>5. op[o].seen \in AccountRecords
      BY DEF WellFormed, Tasks, OpRecords
    <2>6. a.pw \in Ids \cup {None} /\ a.era \in Ids
      BY <2>5 DEF AccountRecords, Ids
    <2>7. l \in LinkRecords /\ l.user = u
      BY <2>2, <2>3
    <2> HIDE DEF a, n, l, u
    <2>8. Session(o, u, "sso", a, l) \in SessionRecords
      BY <2>1, <2>6, <2>7 DEF Session, SessionRecords, Ids, Hows
    <2>9. links' \subseteq LinkRecords /\ (\A k \in links' : Born(k.user)')
          /\ \A k, m \in links' : k.user = m.user /\ k.prov = m.prov => k = m
      BY <2>1, <2>3, <2>4 DEF WellFormed, Doors, LinkRecords
    <2>10. /\ sessions' \subseteq SessionRecords
           /\ \A z \in sessions' :
                Born(z.user)' /\ (z.how = "sso" => z.link \in LinkRecords /\ z.link.user = z.user)
      BY <2>1, <2>4, <2>7, <2>8 DEF WellFormed, Doors, SessionRecords, Session
    <2>11. Papers'
      BY <1>35 DEF CommitSignIn, WellFormed, Papers
    <2> QED
      BY <2>1, <2>9, <2>10, <2>11 DEF WellFormed, Doors
  <1>36. ASSUME NEW o \in Ops, CommitSave(o) PROVE WellFormed'
    <2>1. links' \subseteq links /\ sessions' \subseteq sessions /\ settings' = op[o].link
          /\ Ends(o) /\ UNCHANGED <<acc, reset, claim>> /\ op[o].kind = "save"
      BY <1>36 DEF CommitSave, Commits
    <2>2. Doors'
      BY <2>1 DEF WellFormed, Doors, Born
    <2>3. Papers'
      BY <2>1 DEF WellFormed, Papers, Tasks, Fits
    <2> QED
      BY <2>1, <2>2, <2>3, EndsKeeps DEF WellFormed
  <1>37. CASE UNCHANGED vars
    BY <1>37 DEF vars, WellFormed, People, Tasks, Doors, Papers, Born, Fits
  <1> QED
    BY <1>1, <1>2, <1>3, <1>4, <1>5, <1>6, <1>7, <1>8, <1>9, <1>10, <1>11, <1>12, <1>13, <1>14,
       <1>15, <1>16, <1>17, <1>18,
       <1>19, <1>20, <1>21, <1>22, <1>23, <1>24, <1>25, <1>26, <1>27, <1>28, <1>29, <1>30, <1>31,
       <1>32, <1>33, <1>34, <1>35, <1>36, <1>37
    DEF Next

(* Types hold, and an account has one identity at a provider: the links of *)
(* two sign-ins that run at once do not both land (user_identities).       *)
THEOREM TypeCorrect == Spec => []AccountsTypeOK
  <1>1. WellFormed => AccountsTypeOK
    BY DEF WellFormed, People, Tasks, Doors, Papers, AccountsTypeOK, Born, LinkRecords,
           ResetRecords, SettingsRecords, SessionRecords, Hows, OpRecords
  <1> QED
    BY <1>1, WellFormedInit, WellFormedStep, PTL DEF Spec

-----------------------------------------------------------------------------

(* What becomes of an operation in one step. *)
AnyBegin(q) ==
  \/ BeginRegister(q) \/ BeginLogin(q) \/ BeginRequest(q) \/ BeginReset(q) \/ BeginChange(q)
  \/ BeginUpdate(q) \/ BeginGod(q) \/ BeginSignIn(q) \/ BeginDeprovision(q) \/ BeginSave(q)

LEMMA OpSteps ==
  ASSUME WellFormed, [Next]_vars, NEW q \in Ops, op'[q] # op[q]
  PROVE  \/ Starting(q) /\ (op'[q].kind = "update" /\ op'[q].role = "super" => Seated)
         \/ Beginning(q) /\ AnyBegin(q)
         \/ op'[q].at = "done" /\ op'[q].kind = "none" /\ op'[q].keys = {}
         \/ CommitRegister(q) \/ CommitChange(q)
  <1>1. ASSUME NEW o \in Ops, OpStep(o) PROVE q = o
    BY <1>1 DEF OpStep, WellFormed, Tasks
  <1>2. ASSUME NEW o \in Ops, Ends(o)
        PROVE  q = o /\ op'[q].at = "done" /\ op'[q].kind = "none" /\ op'[q].keys = {}
    BY <1>1, <1>2, EndsIs
  <1>3. ASSUME NEW o \in Ops, StartRegister(o)
        PROVE  Starting(q) /\ (op'[q].kind = "update" /\ op'[q].role = "super" => Seated)
    BY <1>1, <1>3, RegisterStarts DEF Starting
  <1>4. ASSUME NEW o \in Ops, StartLogin(o)
        PROVE  Starting(q) /\ (op'[q].kind = "update" /\ op'[q].role = "super" => Seated)
    BY <1>1, <1>4, LoginStarts DEF Starting
  <1>5. ASSUME NEW o \in Ops, StartRequest(o)
        PROVE  Starting(q) /\ (op'[q].kind = "update" /\ op'[q].role = "super" => Seated)
    BY <1>1, <1>5, RequestStarts DEF Starting
  <1>6. ASSUME NEW o \in Ops, StartReset(o)
        PROVE  Starting(q) /\ (op'[q].kind = "update" /\ op'[q].role = "super" => Seated)
    BY <1>1, <1>6, ResetStarts DEF Starting
  <1>7. ASSUME NEW o \in Ops, StartChange(o)
        PROVE  Starting(q) /\ (op'[q].kind = "update" /\ op'[q].role = "super" => Seated)
    BY <1>1, <1>7, ChangeStarts DEF Starting
  <1>8. ASSUME NEW o \in Ops, StartUpdate(o)
        PROVE  Starting(q) /\ (op'[q].kind = "update" /\ op'[q].role = "super" => Seated)
    BY <1>1, <1>8, UpdateStarts DEF Starting
  <1>9. ASSUME NEW o \in Ops, StartGod(o)
        PROVE  Starting(q) /\ (op'[q].kind = "update" /\ op'[q].role = "super" => Seated)
    BY <1>1, <1>9, GodStarts DEF Starting
  <1>10. ASSUME NEW o \in Ops, StartSignIn(o)
        PROVE  Starting(q) /\ (op'[q].kind = "update" /\ op'[q].role = "super" => Seated)
    BY <1>1, <1>10, SignInStarts DEF Starting
  <1>11. ASSUME NEW o \in Ops, StartDeprovision(o)
        PROVE  Starting(q) /\ (op'[q].kind = "update" /\ op'[q].role = "super" => Seated)
    BY <1>1, <1>11, DeprovisionStarts DEF Starting
  <1>12. ASSUME NEW o \in Ops, StartSave(o)
        PROVE  Starting(q) /\ (op'[q].kind = "update" /\ op'[q].role = "super" => Seated)
    BY <1>1, <1>12, SaveStarts DEF Starting
  <1>13. ASSUME NEW o \in Ops, BeginRegister(o) PROVE Beginning(q) /\ AnyBegin(q)
    BY <1>1, <1>13, RegisterBegins DEF Beginning, AnyBegin
  <1>14. ASSUME NEW o \in Ops, BeginLogin(o) PROVE Beginning(q) /\ AnyBegin(q)
    BY <1>1, <1>14, LoginBegins DEF Beginning, AnyBegin
  <1>15. ASSUME NEW o \in Ops, BeginRequest(o) PROVE Beginning(q) /\ AnyBegin(q)
    BY <1>1, <1>15, RequestBegins DEF Beginning, AnyBegin
  <1>16. ASSUME NEW o \in Ops, BeginReset(o) PROVE Beginning(q) /\ AnyBegin(q)
    BY <1>1, <1>16, ResetBegins DEF Beginning, AnyBegin
  <1>17. ASSUME NEW o \in Ops, BeginChange(o) PROVE Beginning(q) /\ AnyBegin(q)
    BY <1>1, <1>17, ChangeBegins DEF Beginning, AnyBegin
  <1>18. ASSUME NEW o \in Ops, BeginUpdate(o) PROVE Beginning(q) /\ AnyBegin(q)
    BY <1>1, <1>18, UpdateBegins DEF Beginning, AnyBegin
  <1>19. ASSUME NEW o \in Ops, BeginGod(o) PROVE Beginning(q) /\ AnyBegin(q)
    BY <1>1, <1>19, GodBegins DEF Beginning, AnyBegin
  <1>20. ASSUME NEW o \in Ops, BeginSignIn(o) PROVE Beginning(q) /\ AnyBegin(q)
    BY <1>1, <1>20, ProvisionBegins, SignInBegins DEF Beginning, AnyBegin
  <1>21. ASSUME NEW o \in Ops, BeginDeprovision(o) PROVE Beginning(q) /\ AnyBegin(q)
    BY <1>1, <1>21, DeprovisionBegins DEF Beginning, AnyBegin
  <1>22. ASSUME NEW o \in Ops, BeginSave(o) PROVE Beginning(q) /\ AnyBegin(q)
    BY <1>1, <1>22, SaveBegins DEF Beginning, AnyBegin
  <1>23. ASSUME NEW o \in Ops, CommitRegister(o) \/ CommitChange(o)
        PROVE  CommitRegister(q) \/ CommitChange(q)
    BY <1>1, <1>23, RegisterCommits, ChangeCommits
  <1>24. ASSUME NEW o \in Ops,
               \/ CommitLogin(o) \/ Logout(o) \/ CommitRequest(o) \/ CommitReset(o)
               \/ CommitUpdate(o) \/ CommitGod(o) \/ CommitProvision(o) \/ CommitSignIn(o)
               \/ CommitDeprovision(o) \/ Unlink(o) \/ CommitSave(o) \/ Abort(o)
               \/ IssueRegister(o) \/ IssueChange(o)
        PROVE  op'[q].at = "done" /\ op'[q].kind = "none" /\ op'[q].keys = {}
    <2>1. Ends(o)
      BY <1>24 DEF CommitLogin, Logout, CommitRequest, CommitReset, CommitUpdate, CommitGod,
                CommitProvision, CommitSignIn, CommitDeprovision, Unlink, CommitSave, Abort,
                IssueRegister, IssueChange
    <2> QED
      BY <1>2, <2>1
  <1>25. Visit \/ UNCHANGED vars => op' = op
    BY DEF Visit, vars
  <1> QED
    BY <1>3, <1>4, <1>5, <1>6, <1>7, <1>8, <1>9, <1>10, <1>11, <1>12, <1>13, <1>14, <1>15, <1>16,
       <1>17, <1>18, <1>19, <1>20, <1>21, <1>22, <1>23, <1>24, <1>25
    DEF Next

(* The steps that write anything but what an operation is doing. *)
Writes(o) ==
  \/ CommitRegister(o) \/ CommitReset(o) \/ CommitChange(o) \/ CommitUpdate(o)
  \/ CommitGod(o) \/ CommitDeprovision(o) \/ CommitProvision(o) \/ CommitSignIn(o)
EndsWith(o) ==
  \/ IssueRegister(o) \/ IssueChange(o) \/ CommitLogin(o) \/ Logout(o)
  \/ CommitRequest(o) \/ Unlink(o) \/ CommitSave(o)

LEMMA Steps ==
  ASSUME WellFormed, [Next]_vars
  PROVE  Still \/ Visit \/ \E o \in Ops : Writes(o) \/ EndsWith(o)
  <1>1. ASSUME NEW o \in Ops, StartRegister(o) \/ BeginRegister(o) PROVE Still
    BY <1>1, RegisterStarts, RegisterBegins DEF Starting, Beginning
  <1>2. ASSUME NEW o \in Ops, StartLogin(o) \/ BeginLogin(o) PROVE Still
    BY <1>2, LoginStarts, LoginBegins DEF Starting, Beginning
  <1>3. ASSUME NEW o \in Ops, StartRequest(o) \/ BeginRequest(o) PROVE Still
    BY <1>3, RequestStarts, RequestBegins DEF Starting, Beginning
  <1>4. ASSUME NEW o \in Ops, StartReset(o) \/ BeginReset(o) PROVE Still
    BY <1>4, ResetStarts, ResetBegins DEF Starting, Beginning
  <1>5. ASSUME NEW o \in Ops, StartChange(o) \/ BeginChange(o) PROVE Still
    BY <1>5, ChangeStarts, ChangeBegins DEF Starting, Beginning
  <1>6. ASSUME NEW o \in Ops, StartUpdate(o) \/ BeginUpdate(o) PROVE Still
    BY <1>6, UpdateStarts, UpdateBegins DEF Starting, Beginning
  <1>7. ASSUME NEW o \in Ops, StartGod(o) \/ BeginGod(o) PROVE Still
    BY <1>7, GodStarts, GodBegins DEF Starting, Beginning
  <1>8. ASSUME NEW o \in Ops, StartSignIn(o) \/ BeginSignIn(o) PROVE Still
    BY <1>8, SignInStarts, SignInBegins, ProvisionBegins DEF Starting, Beginning
  <1>9. ASSUME NEW o \in Ops, StartDeprovision(o) \/ BeginDeprovision(o) PROVE Still
    BY <1>9, DeprovisionStarts, DeprovisionBegins DEF Starting, Beginning
  <1>10. ASSUME NEW o \in Ops, StartSave(o) \/ BeginSave(o) PROVE Still
    BY <1>10, SaveStarts, SaveBegins DEF Starting, Beginning
  <1>11. ASSUME NEW o \in Ops, Abort(o) PROVE Still
    BY <1>11 DEF Abort, Still
  <1>12. UNCHANGED vars => Still
    BY DEF vars, Still
  <1> QED
    BY <1>1, <1>2, <1>3, <1>4, <1>5, <1>6, <1>7, <1>8, <1>9, <1>10, <1>11, <1>12
    DEF Next, Writes, EndsWith

(* Accounts are written by the operations that commit a change to one. *)
LEMMA AccSteps ==
  ASSUME WellFormed, [Next]_vars, acc' # acc
  PROVE  \E o \in Ops : Writes(o)
  <1>1. Still \/ Visit => acc' = acc
    BY DEF Still, Visit
  <1>2. ASSUME NEW o \in Ops, EndsWith(o) PROVE acc' = acc
    BY <1>2 DEF EndsWith, IssueRegister, IssueChange, CommitLogin, Logout, CommitRequest, Unlink,
            CommitSave
  <1> QED
    BY <1>1, <1>2, Steps

LEMMA ExclusiveInit == Init => Exclusive
  <1>1. Blank.at = "idle"
    BY DEF Blank
  <1> QED
    BY <1>1 DEF Init, Exclusive, Held

(* A transaction begins when its keys are free and keeps them to its end. *)
LEMMA ExclusiveStep == WellFormed /\ Exclusive /\ [Next]_vars => Exclusive'
  <1> SUFFICES ASSUME WellFormed, Exclusive, [Next]_vars PROVE Exclusive'
    OBVIOUS
  <1>1. ASSUME NEW q \in Ops
        PROVE  Held(q)' \subseteq Held(q) \/ (Free(Held(q)') /\ Beginning(q))
    <2>1. CASE op'[q] = op[q]
      BY <2>1 DEF Held
    <2>2. CASE op'[q] # op[q]
      <3>1. CASE Starting(q) \/ op'[q].at = "done"
        BY <3>1 DEF Starting, Held
      <3>2. CASE Beginning(q)
        BY <3>2 DEF Beginning, Held
      <3>3. CASE CommitRegister(q) \/ CommitChange(q)
        BY <3>3, RegisterCommits, ChangeCommits DEF Held
      <3> QED
        BY <2>2, <3>1, <3>2, <3>3, OpSteps
    <2> QED
      BY <2>1, <2>2
  <1>2. ASSUME NEW q \in Ops, NEW o \in Ops, q # o, Beginning(q) PROVE Held(o)' = Held(o)
    BY <1>2 DEF Beginning, OpStep, Held, WellFormed, Tasks
  <1> QED
    BY <1>1, <1>2 DEF Exclusive, Free

-----------------------------------------------------------------------------

(* The founder's seat. *)

(* A super admin loses the seat to a transition that holds its key and has *)
(* counted another.                                                        *)
LEMMA SeatLost ==
  ASSUME WellFormed, SeatIsCounted, [Next]_vars, NEW v \in Accounts, Super(v), ~Super(v)'
  PROVE  /\ OtherSuper(v)
         /\ \A w \in Accounts : w # v => acc'[w] = acc[w]
         /\ \E o \in Ops : SuperAdmin \in Held(o) /\ op'[o].at = "done"
  <1>1. PICK o \in Ops : Writes(o)
    BY AccSteps DEF Super, Active
  <1>2. Born(v) /\ acc'[v] # acc[v]
    BY DEF Super, Active, WellFormed, People, Born
  <1>3. op[o].at = "begun" => ~Born(o)
    BY DEF WellFormed, Tasks, Fits
  <1>4. CASE CommitRegister(o) \/ CommitProvision(o)
    BY <1>2, <1>3, <1>4, RegisterCommits, ProvisionCommits
  <1>5. CASE CommitReset(o) \/ CommitChange(o)
    BY <1>5, ResetCommits, ChangeCommits DEF Super, Active
  <1>6. CASE CommitUpdate(o)
    <2>1. /\ op[o].user = v /\ op[o].seen.role = "super" /\ op[o].seen.status = "active"
          /\ op[o].kind = "update" /\ op[o].at = "begun" /\ op'[o].at = "done"
          /\ op[o].role # "super" \/ op[o].status # "active"
          /\ \A w \in Accounts : w # v => acc'[w] = acc[w]
      BY <1>2, <1>6, UpdateCommits DEF Super, Active
    <2>2. /\ op[o].status \in {"active", "disabled"}
          /\ op[o].keys = TransitionKeys(op[o].user, op[o].seen, op[o].role, op[o].status)
      BY <2>1 DEF WellFormed, Tasks, Fits
    <2>3. Guarded(op[o].seen, op[o].role, op[o].status)
      BY <2>1, <2>2 DEF Guarded
    <2>4. OtherSuper(v)
      BY <2>1, <2>3 DEF SeatIsCounted, Counted
    <2> QED
      BY <2>1, <2>2, <2>3, <2>4 DEF TransitionKeys, Held
  <1>7. CASE CommitGod(o)
    <2>1. /\ op[o].user = v /\ op[o].seen.role = "super" /\ op[o].seen.status = "active"
          /\ op[o].kind = "god" /\ op[o].at = "begun" /\ op'[o].at = "done"
          /\ \A w \in Accounts : w # v => acc'[w] = acc[w]
      BY <1>2, <1>7, GodCommits DEF Super, Active
    <2>2. op[o].keys = TransitionKeys(op[o].user, op[o].seen, op[o].seen.role, "disabled")
      BY <2>1 DEF WellFormed, Tasks, Fits
    <2>3. OtherSuper(v)
      BY <2>1 DEF SeatIsCounted, Counted
    <2> QED
      BY <2>1, <2>2, <2>3 DEF TransitionKeys, Guarded, Held
  <1>8. CASE CommitDeprovision(o)
    <2>1. op[o].seen.role # "super"
      BY <1>8, DeprovisionCommits DEF SeatIsCounted, Counted
    <2> QED
      BY <1>2, <1>8, <2>1, DeprovisionCommits DEF Super, Active
  <1>9. CASE CommitSignIn(o)
    <2>1. op[o].role = "super" <=> op[o].seen.role = "super"
      BY <1>9, SignInCommits DEF SeatIsCounted, Counted
    <2> QED
      BY <1>9, <2>1, SignInCommits DEF Super, Active
  <1> QED
    BY <1>1, <1>4, <1>5, <1>6, <1>7, <1>8, <1>9 DEF Writes

(* The seat is taken by a founder, or while somebody sits on it. *)
LEMMA SeatTaken ==
  ASSUME WellFormed, SeatIsCounted, [Next]_vars, NEW v \in Accounts, ~Super(v), Super(v)'
  PROVE  Seated \/ \E o \in Ops : CommitRegister(o) /\ op[o].role = "super"
  <1>1. PICK o \in Ops : Writes(o)
    BY AccSteps DEF Super, Active
  <1>2. acc'[v].role = "super" /\ acc'[v].status = "active" /\ acc'[v] # acc[v]
    BY DEF Super, Active
  <1>3. CASE CommitRegister(o)
    BY <1>2, <1>3, RegisterCommits
  <1>4. CASE CommitProvision(o)
    BY <1>2, <1>4, ProvisionCommits
  <1>5. CASE CommitReset(o) \/ CommitChange(o)
    BY <1>5, ResetCommits, ChangeCommits DEF Super, Active
  <1>6. CASE CommitUpdate(o)
    BY <1>2, <1>6, UpdateCommits DEF SeatIsCounted, Counted
  <1>7. CASE CommitGod(o) \/ CommitDeprovision(o)
    BY <1>2, <1>7, GodCommits, DeprovisionCommits
  <1>8. CASE CommitSignIn(o)
    <2>1. op[o].role = "super" <=> op[o].seen.role = "super"
      BY <1>8, SignInCommits DEF SeatIsCounted, Counted
    <2> QED
      BY <1>8, <2>1, SignInCommits DEF Super, Active
  <1> QED
    BY <1>1, <1>3, <1>4, <1>5, <1>6, <1>7, <1>8 DEF Writes

LEMMA SeatKept ==
  ASSUME WellFormed, SeatIsCounted, [Next]_vars, Seated
  PROVE  Seated'
  <1>1. PICK v \in Accounts : Super(v)
    BY DEF Seated
  <1>2. CASE Super(v)'
    BY <1>2 DEF Seated
  <1>3. CASE ~Super(v)'
    <2>1. PICK w \in Accounts : w # v /\ Super(w)
      BY <1>1, <1>3, SeatLost DEF OtherSuper
    <2>2. Super(w)'
      BY <1>1, <1>3, <2>1, SeatLost DEF Super, Active
    <2> QED
      BY <2>2 DEF Seated
  <1> QED
    BY <1>2, <1>3

(* Another super admin is there until the key of the seat is given back. *)
LEMMA OtherSuperStays ==
  ASSUME WellFormed, Exclusive, SeatIsCounted, [Next]_vars,
         NEW q \in Ops, SuperAdmin \in Held(q), op'[q] = op[q], NEW u \in Accounts, OtherSuper(u)
  PROVE  OtherSuper(u)'
  <1>1. PICK v \in Accounts : v # u /\ Super(v)
    BY DEF OtherSuper
  <1>2. ASSUME ~Super(v)' PROVE FALSE
    <2>1. PICK o \in Ops : SuperAdmin \in Held(o) /\ op'[o].at = "done"
      BY <1>1, <1>2, SeatLost
    <2>2. o = q
      BY <2>1 DEF Exclusive
    <2> QED
      BY <2>1, <2>2 DEF Held
  <1> QED
    BY <1>1, <1>2 DEF OtherSuper

LEMMA SeatIsCountedInit == Init => SeatIsCounted
  <1>1. Blank.at = "idle" /\ Blank.kind = "none"
    BY DEF Blank
  <1> QED
    BY <1>1 DEF Init, SeatIsCounted, Counted

(* The count of super admins is decided under one key. *)
LEMMA SeatIsCountedStep ==
  WellFormed /\ Exclusive /\ SeatIsCounted /\ [Next]_vars => SeatIsCounted'
  <1> SUFFICES ASSUME WellFormed, Exclusive, SeatIsCounted, [Next]_vars,
                      NEW o \in Ops, NEW q, q = op'[o]
               PROVE  Counted(q)'
    BY DEF SeatIsCounted, Counted, OtherSuper, Seated, Super, Active
  <1>1. CASE op'[o] = op[o]
    <2>1. ASSUME q.kind = "update", q.at = "begun", Guarded(q.seen, q.role, q.status)
          PROVE  OtherSuper(q.user)'
      <3>1. SuperAdmin \in Held(o) /\ OtherSuper(q.user) /\ q.user \in Accounts
        BY <1>1, <2>1 DEF WellFormed, Tasks, Fits, AboutSomebody, TransitionKeys, Held,
           SeatIsCounted, Counted
      <3> QED
        BY <1>1, <3>1, OtherSuperStays
    <2>2. ASSUME q.kind = "god", q.at = "begun", q.seen.role = "super", q.seen.status = "active"
          PROVE  OtherSuper(q.user)'
      <3>1. SuperAdmin \in Held(o) /\ OtherSuper(q.user) /\ q.user \in Accounts
        BY <1>1, <2>2 DEF WellFormed, Tasks, Fits, AboutSomebody, TransitionKeys, Guarded, Held,
                SeatIsCounted, Counted
      <3> QED
        BY <1>1, <3>1, OtherSuperStays
    <2>3. ASSUME q.kind = "register", q.at = "begun", q.role = "super", Seated' PROVE FALSE
      <3>1. SuperAdmin \in Held(o) /\ ~Seated
        BY <1>1, <2>3 DEF WellFormed, Tasks, Fits, Held, SeatIsCounted, Counted
      <3>2. PICK v \in Accounts : Super(v)' /\ ~Super(v)
        BY <2>3, <3>1 DEF Seated
      <3>3. PICK p \in Ops : CommitRegister(p) /\ op[p].role = "super"
        BY <3>1, <3>2, SeatTaken
      <3>4. SuperAdmin \in Held(p) /\ op'[p].at = "issue"
        BY <3>3, RegisterCommits DEF WellFormed, Tasks, Fits, Held
      <3>5. p = o
        BY <3>1, <3>4 DEF Exclusive
      <3> QED
        BY <1>1, <2>3, <3>4, <3>5
    <2>4. q.kind = "update" /\ q.role = "super" => Seated'
      BY <1>1, SeatKept DEF SeatIsCounted, Counted
    <2> QED
      BY <1>1, <2>1, <2>2, <2>3, <2>4 DEF SeatIsCounted, Counted
  <1>2. CASE op'[o] # op[o]
    <2>1. CASE Starting(o) /\ (op'[o].kind = "update" /\ op'[o].role = "super" => Seated)
      BY <2>1, SeatKept DEF Starting, Counted
    <2>2. CASE Beginning(o) /\ AnyBegin(o)
      <3>1. acc' = acc
        BY <2>2 DEF Beginning, Still
      <3>2. (Seated' <=> Seated) /\ \A u : OtherSuper(u)' <=> OtherSuper(u)
        BY <3>1 DEF Seated, OtherSuper, Super, Active
      <3>3. CASE BeginRegister(o)
        BY <3>2, <3>3, RegisterBegins DEF Beginning, Counted
      <3>4. CASE BeginUpdate(o)
        BY <3>2, <3>4, UpdateBegins DEF Beginning, LastSuper, OtherSuper, SeatIsCounted, Counted
      <3>5. CASE BeginGod(o)
        BY <3>2, <3>5, GodBegins DEF Beginning, Counted, LastSuper, OtherSuper, SameTarget, Super,
           Active
      <3>6. CASE BeginDeprovision(o)
        BY <3>6, DeprovisionBegins DEF Beginning, Counted
      <3>7. CASE BeginSignIn(o)
        <4>1. CASE op[o].status = "provision"
          BY <3>7, <4>1, ProvisionBegins DEF Beginning, Counted
        <4>2. CASE op[o].status # "provision"
          BY <3>7, <4>2, SignInBegins DEF Beginning, Counted, Granted, Mapped, Mappings
        <4> QED
          BY <4>1, <4>2
      <3>8. CASE BeginLogin(o) \/ BeginRequest(o) \/ BeginReset(o) \/ BeginChange(o) \/ BeginSave(o)
        BY <3>8, LoginBegins, RequestBegins, ResetBegins, ChangeBegins, SaveBegins DEF Beginning,
           Counted
      <3> QED
        BY <2>2, <3>3, <3>4, <3>5, <3>6, <3>7, <3>8 DEF AnyBegin
    <2>3. CASE op'[o].at = "done" /\ op'[o].kind = "none"
      BY <2>3 DEF Counted
    <2>4. CASE CommitRegister(o) \/ CommitChange(o)
      BY <2>4, RegisterCommits, ChangeCommits DEF Counted
    <2> QED
      BY <1>2, <2>1, <2>2, <2>3, <2>4, OpSteps
  <1> QED
    BY <1>1, <1>2

(* A portal with an active super admin keeps one, and a founder is seated  *)
(* only while there is none, whatever transitions, registrations and       *)
(* sign-ins of however many instances run at once: the count is read and   *)
(* the role written under one key (users/service.ts, god-service.ts,       *)
(* auth/service.ts seatFounder).                                           *)
THEOREM SeatStaysTaken == Spec => SeatIsKept
  <1> DEFINE Inv == WellFormed /\ Exclusive /\ SeatIsCounted
  <1>1. Init => Inv
    BY WellFormedInit, ExclusiveInit, SeatIsCountedInit
  <1>2. Inv /\ [Next]_vars => Inv'
    BY WellFormedStep, ExclusiveStep, SeatIsCountedStep
  <1>3. Inv /\ [Next]_vars => [(Seated => Seated') /\ (claim' # claim => ~Seated)]_vars
    <2> SUFFICES ASSUME WellFormed, SeatIsCounted, [Next]_vars
                 PROVE  (Seated => Seated') /\ (claim' # claim => ~Seated)
      OBVIOUS
    <2>1. ASSUME claim' # claim PROVE ~Seated
      <3>1. Still \/ Visit => claim' = claim
        BY DEF Still, Visit
      <3>2. ASSUME NEW o \in Ops, EndsWith(o) PROVE claim' = claim
        BY <3>2 DEF EndsWith, IssueRegister, IssueChange, CommitLogin, Logout, CommitRequest,
                Unlink, CommitSave
      <3>3. PICK o \in Ops : Writes(o)
        BY <2>1, <3>1, <3>2, Steps
      <3>4. CommitRegister(o) /\ op[o].role = "super"
        <4>1. CASE CommitRegister(o)
          <5>1. claim' = IF [Absent EXCEPT !.role = op[o].role, !.status = "active",
                                           !.pw = o].role = "super" THEN o ELSE claim
            BY <4>1 DEF CommitRegister
          <5>2. [Absent EXCEPT !.role = op[o].role, !.status = "active", !.pw = o].role = op[o].role
            BY DEF Absent
          <5> QED
            BY <2>1, <4>1, <5>1, <5>2
        <4>2. CASE CommitReset(o) \/ CommitChange(o) \/ CommitUpdate(o) \/ CommitGod(o)
          BY <2>1, <4>2 DEF CommitReset, CommitChange, CommitUpdate, CommitGod
        <4>3. CASE CommitDeprovision(o) \/ CommitProvision(o) \/ CommitSignIn(o)
          BY <2>1, <4>3 DEF CommitDeprovision, CommitProvision, CommitSignIn
        <4> QED
          BY <3>3, <4>1, <4>2, <4>3 DEF Writes
      <3> QED
        BY <3>4, RegisterCommits DEF SeatIsCounted, Counted
    <2> QED
      BY <2>1, SeatKept
  <1> QED
    BY <1>1, <1>2, <1>3, PTL DEF Spec, SeatIsKept

-----------------------------------------------------------------------------

(* What the keys of an account protect. *)

(* The role, the status and their history change under the lifecycle key,  *)
(* and the password lock of somebody's account does not change.            *)
LEMMA LifecycleWrites ==
  ASSUME WellFormed, [Next]_vars, NEW u \in Accounts, Born(u)
  PROVE  /\ acc'[u].locked = acc[u].locked
         /\ \/ /\ acc'[u].role = acc[u].role /\ acc'[u].status = acc[u].status
               /\ acc'[u].era = acc[u].era /\ acc'[u].off = acc[u].off
            \/ \E o \in Ops : Lifecycle(u) \in Held(o) /\ op'[o].at = "done"
  <1>1. CASE acc' = acc
    BY <1>1
  <1>2. ASSUME NEW o \in Ops, Writes(o)
        PROVE  /\ acc'[u].locked = acc[u].locked
               /\ \/ /\ acc'[u].role = acc[u].role /\ acc'[u].status = acc[u].status
                     /\ acc'[u].era = acc[u].era /\ acc'[u].off = acc[u].off
                  \/ Lifecycle(u) \in Held(o) /\ op'[o].at = "done"
    <2>1. op[o].at = "begun" => ~Born(o) /\ Held(o) = op[o].keys
      BY DEF WellFormed, Tasks, Fits, Held
    <2>2. CASE CommitRegister(o) \/ CommitProvision(o)
      BY <2>1, <2>2, RegisterCommits, ProvisionCommits
    <2>3. CASE CommitReset(o) \/ CommitChange(o)
      BY <2>3, ResetCommits, ChangeCommits
    <2>4. CASE CommitUpdate(o)
      BY <2>1, <2>4, UpdateCommits DEF WellFormed, Tasks, Fits, TransitionKeys
    <2>5. CASE CommitGod(o)
      BY <2>1, <2>5, GodCommits DEF WellFormed, Tasks, Fits, TransitionKeys
    <2>6. CASE CommitDeprovision(o)
      BY <2>1, <2>6, DeprovisionCommits DEF WellFormed, Tasks, Fits
    <2>7. CASE CommitSignIn(o)
      BY <2>1, <2>7, SignInCommits DEF WellFormed, Tasks, Fits
    <2> QED
      BY <1>2, <2>2, <2>3, <2>4, <2>5, <2>6, <2>7 DEF Writes
  <1> QED
    BY <1>1, <1>2, AccSteps

(* The password of somebody's account changes under its password key. *)
LEMMA PasswordWrites ==
  ASSUME WellFormed, [Next]_vars, NEW u \in Accounts, Born(u), acc'[u].pw # acc[u].pw
  PROVE  \E o \in Ops : /\ CommitReset(o) \/ CommitChange(o)
                        /\ op[o].user = u /\ Password(u) \in Held(o) /\ op[o].at = "begun"
  <1>1. PICK o \in Ops : Writes(o)
    BY AccSteps
  <1>2. op[o].at = "begun" => ~Born(o) /\ Held(o) = op[o].keys
    BY DEF WellFormed, Tasks, Fits, Held
  <1>3. CASE CommitRegister(o) \/ CommitProvision(o)
    BY <1>2, <1>3, RegisterCommits, ProvisionCommits
  <1>4. CASE CommitReset(o) \/ CommitChange(o)
    BY <1>2, <1>4, ResetCommits, ChangeCommits DEF WellFormed, Tasks, Fits
  <1>5. CASE CommitUpdate(o)
    BY <1>5, UpdateCommits
  <1>6. CASE CommitGod(o) \/ CommitDeprovision(o)
    BY <1>6, GodCommits, DeprovisionCommits
  <1>7. CASE CommitSignIn(o)
    BY <1>7, SignInCommits
  <1> QED
    BY <1>1, <1>3, <1>4, <1>5, <1>6, <1>7 DEF Writes

(* So an operation that holds the key and goes on sees no such change. *)
LEMMA LifecycleHolds ==
  ASSUME WellFormed, Exclusive, [Next]_vars, NEW q \in Ops, op'[q] = op[q],
         NEW u \in Accounts, Born(u), Lifecycle(u) \in Held(q)
  PROVE  /\ acc'[u].role = acc[u].role /\ acc'[u].status = acc[u].status
         /\ acc'[u].era = acc[u].era /\ acc'[u].off = acc[u].off
         /\ acc'[u].locked = acc[u].locked
  <1>1. ASSUME NEW o \in Ops, Lifecycle(u) \in Held(o), op'[o].at = "done" PROVE FALSE
    <2>1. o = q
      BY <1>1 DEF Exclusive
    <2> QED
      BY <1>1, <2>1 DEF Held
  <1> QED
    BY <1>1, LifecycleWrites

LEMMA KeptInit == Init => LifecycleIsKept /\ PasswordIsKept
  <1>1. Blank.at = "idle"
    BY DEF Blank
  <1> QED
    BY <1>1 DEF Init, LifecycleIsKept, Seen, UnderLifecycle, PasswordIsKept

LEMMA LifecycleIsKeptStep ==
  WellFormed /\ Exclusive /\ LifecycleIsKept /\ [Next]_vars => LifecycleIsKept'
  <1> SUFFICES ASSUME WellFormed, Exclusive, LifecycleIsKept, [Next]_vars,
                      NEW o \in Ops, NEW q, q = op'[o], UnderLifecycle(q)
               PROVE  /\ acc'[q.user].role = q.seen.role /\ acc'[q.user].status = q.seen.status
                      /\ acc'[q.user].era = q.seen.era /\ acc'[q.user].off = q.seen.off
                      /\ acc'[q.user].status = "active"
    BY DEF LifecycleIsKept, Seen, UnderLifecycle
  <1>1. CASE op'[o] = op[o]
    <2>1. q.user \in Accounts /\ Born(q.user) /\ Lifecycle(q.user) \in Held(o)
      BY <1>1 DEF WellFormed, Tasks, Fits, AboutSomebody, UnderLifecycle, Held
    <2>2. Seen(q)
      BY <1>1 DEF LifecycleIsKept
    <2> QED
      BY <1>1, <2>1, <2>2, LifecycleHolds DEF Seen
  <1>2. CASE op'[o] # op[o]
    <2>1. CASE Starting(o) \/ op'[o].at = "done"
      BY <2>1 DEF Starting, UnderLifecycle
    <2>2. CASE Beginning(o) /\ AnyBegin(o)
      <3>1. acc' = acc
        BY <2>2 DEF Beginning, Still
      <3>2. CASE BeginLogin(o)
        BY <3>1, <3>2, LoginBegins DEF MayUsePassword, Active
      <3>3. CASE BeginRequest(o)
        BY <3>1, <3>3, RequestBegins DEF Active
      <3>4. CASE BeginDeprovision(o)
        BY <3>1, <3>4, DeprovisionBegins DEF Active
      <3>5. CASE BeginSignIn(o)
        <4>1. CASE op[o].status = "provision"
          BY <3>5, <4>1, ProvisionBegins DEF Beginning, UnderLifecycle
        <4>2. CASE op[o].status # "provision"
          BY <3>1, <3>5, <4>2, SignInBegins DEF Active
        <4> QED
          BY <4>1, <4>2
      <3>6. CASE BeginRegister(o) \/ BeginReset(o) \/ BeginChange(o) \/ BeginUpdate(o)
                   \/ BeginGod(o) \/ BeginSave(o)
        BY <3>6, RegisterBegins, ResetBegins, ChangeBegins, UpdateBegins, GodBegins, SaveBegins
        DEF Beginning, UnderLifecycle
      <3> QED
        BY <2>2, <3>2, <3>3, <3>4, <3>5, <3>6 DEF AnyBegin
    <2>3. CASE CommitRegister(o) \/ CommitChange(o)
      BY <2>3, RegisterCommits, ChangeCommits DEF UnderLifecycle
    <2> QED
      BY <1>2, <2>1, <2>2, <2>3, OpSteps
  <1> QED
    BY <1>1, <1>2

LEMMA PasswordIsKeptStep ==
  WellFormed /\ Exclusive /\ PasswordIsKept /\ [Next]_vars => PasswordIsKept'
  <1> SUFFICES ASSUME WellFormed, Exclusive, PasswordIsKept, [Next]_vars,
                      NEW o \in Ops, NEW q, q = op'[o], q.kind = "change", q.at = "issue"
               PROVE  acc'[q.user].pw = q.seen.pw
    BY DEF PasswordIsKept
  <1>1. CASE op'[o] = op[o]
    <2>1. q.user \in Accounts /\ Born(q.user) /\ Password(q.user) \in Held(o)
      BY <1>1 DEF WellFormed, Tasks, Fits, AboutSomebody, Held
    <2>2. acc[q.user].pw = q.seen.pw
      BY <1>1 DEF PasswordIsKept
    <2>3. ASSUME acc'[q.user].pw # acc[q.user].pw PROVE FALSE
      <3>1. PICK p \in Ops : Password(q.user) \in Held(p) /\ op[p].at = "begun"
        BY <2>1, <2>3, PasswordWrites
      <3>2. p = o
        BY <2>1, <3>1 DEF Exclusive
      <3> QED
        BY <1>1, <3>1, <3>2
    <2> QED
      BY <2>2, <2>3
  <1>2. CASE op'[o] # op[o]
    <2>1. CASE Starting(o) \/ Beginning(o) \/ op'[o].at = "done"
      BY <2>1 DEF Starting, Beginning
    <2>2. CASE CommitRegister(o)
      BY <2>2, RegisterCommits
    <2>3. CASE CommitChange(o)
      BY <2>3, ChangeCommits
    <2> QED
      BY <1>2, <2>1, <2>2, <2>3, OpSteps
  <1> QED
    BY <1>1, <1>2

-----------------------------------------------------------------------------

(* Sessions. *)

CurrentSession(s) ==
  /\ s.how \in {"password", "change"} => s.pw = acc[s.user].pw
  /\ s.how \in {"password", "sso"} => s.era = acc[s.user].era
  /\ s.how = "sso" => s.link \in links

LEMMA SessionsAreCurrentInit == Init => SessionsAreCurrent
  <1> SUFFICES ASSUME Init, NEW s \in sessions PROVE CurrentSession(s)
    BY DEF SessionsAreCurrent, CurrentSession
  <1>1. PICK seeded \in {{}, Seeds}, proven \in BOOLEAN :
          /\ acc = [u \in Accounts |->
                      IF u \notin seeded THEN Absent
                      ELSE [Absent EXCEPT !.role = IF u \in Founders THEN "super" ELSE "member",
                                          !.status = "active", !.pw = Origin, !.proof = proven]]
          /\ sessions = {[user |-> u, id |-> Origin, how |-> "password", pw |-> Origin,
                          era |-> Origin, link |-> None] : u \in seeded}
    BY Zenon DEF Init
  <1>2. PICK u \in seeded : s = [user |-> u, id |-> Origin, how |-> "password", pw |-> Origin,
                                 era |-> Origin, link |-> None]
    BY <1>1
  <1>3. u \in Accounts
    BY <1>1, <1>2 DEF Accounts
  <1>4. acc[u].pw = Origin /\ acc[u].era = Origin
    BY <1>1, <1>2, <1>3 DEF Absent
  <1> QED
    BY <1>2, <1>4 DEF CurrentSession

(* The session a sign-in into an existing account opens. *)
Opens(o) ==
  LET was == op[o].seen
      raised == Rank(op[o].role) > Rank(was.role)
      l == IF op[o].status = "returning" THEN op[o].link
           ELSE [user |-> op[o].user, prov |-> op[o].prov, id |-> o, how |-> op[o].status]
  IN  Session(o, op[o].user, "sso", [was EXCEPT !.era = IF raised THEN o ELSE @], l)

(* A session that stays keeps what it was opened with. *)
LEMMA SessionStays ==
  ASSUME WellFormed, [Next]_vars, NEW s \in sessions, s \in sessions', CurrentSession(s),
         \A o \in Ops : CommitSignIn(o) => s # Opens(o)
  PROVE  CurrentSession(s)'
  <1>1. /\ s.user \in Accounts /\ Born(s.user) /\ s \in SessionRecords
        /\ s.how = "sso" => s.link.user = s.user
    BY DEF WellFormed, Doors, SessionRecords
  <1>2. acc'[s.user].pw = acc[s.user].pw
    <2>1. ASSUME NEW o \in Ops, CommitReset(o) \/ CommitChange(o), op[o].user = s.user PROVE FALSE
      BY <2>1 DEF CommitReset, CommitChange, CutOff, SessionsOf
    <2> QED
      BY <1>1, <2>1, PasswordWrites
  <1>3. acc'[s.user].era = acc[s.user].era
    <2>1. ASSUME NEW o \in Ops, Writes(o), acc'[s.user].era # acc[s.user].era PROVE FALSE
      <3>1. op[o].at = "begun" => ~Born(o)
        BY DEF WellFormed, Tasks, Fits
      <3>2. CASE CommitRegister(o) \/ CommitProvision(o)
        BY <1>1, <2>1, <3>1, <3>2, RegisterCommits, ProvisionCommits
      <3>3. CASE CommitReset(o) \/ CommitChange(o)
        BY <1>1, <2>1, <3>3, ResetCommits, ChangeCommits
      <3>4. CASE CommitUpdate(o)
        <4>1. /\ op[o].user = s.user
              /\ \/ op[o].status = "disabled" /\ op[o].seen.status = "active"
                 \/ Rank(op[o].role) > Rank(op[o].seen.role)
          BY <1>1, <2>1, <3>4, UpdateCommits
        <4>2. sessions' = sessions \ SessionsOf(s.user)
          BY <3>4, <4>1 DEF CommitUpdate
        <4> QED
          BY <4>2 DEF SessionsOf
      <3>5. CASE CommitGod(o)
        <4>1. op[o].user = s.user
          BY <1>1, <2>1, <3>5, GodCommits
        <4> QED
          BY <3>5, <4>1 DEF CommitGod, CutOff, SessionsOf
      <3>6. CASE CommitDeprovision(o)
        <4>1. op[o].user = s.user
          BY <1>1, <2>1, <3>6, DeprovisionCommits
        <4> QED
          BY <3>6, <4>1 DEF CommitDeprovision, CutOff, SessionsOf
      <3>7. CASE CommitSignIn(o)
        <4>1. op[o].user = s.user /\ Rank(op[o].role) > Rank(op[o].seen.role)
          BY <1>1, <2>1, <3>7, SignInCommits
        <4>2. sessions' = (sessions \ SessionsOf(s.user)) \cup {Opens(o)}
          BY <3>7, <4>1 DEF CommitSignIn, Opens
        <4> QED
          BY <3>7, <4>2 DEF SessionsOf
      <3> QED
        BY <2>1, <3>2, <3>3, <3>4, <3>5, <3>6, <3>7 DEF Writes
    <2> QED
      BY <2>1, AccSteps
  <1>4. s.how = "sso" => s.link \in links'
    <2>1. Still \/ Visit => links' = links
      BY DEF Still, Visit
    <2>2. ASSUME NEW o \in Ops, Writes(o) PROVE links \subseteq links'
      BY <2>2 DEF Writes, CommitRegister, CommitReset, CommitChange, CommitUpdate, CommitGod,
              CommitDeprovision, CommitProvision, CommitSignIn, Attach
    <2>3. ASSUME NEW o \in Ops, \/ IssueRegister(o) \/ IssueChange(o) \/ CommitLogin(o)
                                \/ Logout(o) \/ CommitRequest(o)
          PROVE  links' = links
      BY <2>3 DEF IssueRegister, IssueChange, CommitLogin, Logout, CommitRequest
    <2>4. ASSUME NEW o \in Ops, Unlink(o), s.how = "sso" PROVE s.link \in links'
      BY <1>1, <2>4 DEF Unlink, SessionsOf, CurrentSession
    <2>5. ASSUME NEW o \in Ops, CommitSave(o), s.how = "sso" PROVE s.link \in links'
      BY <1>1, <2>5 DEF CommitSave, CurrentSession
    <2> QED
      BY <2>1, <2>2, <2>3, <2>4, <2>5, Steps DEF EndsWith, CurrentSession
  <1> QED
    BY <1>2, <1>3, <1>4 DEF CurrentSession

LEMMA SessionsAreCurrentStep ==
  ASSUME WellFormed, LifecycleIsKept, PasswordIsKept, SessionsAreCurrent, [Next]_vars
  PROVE  SessionsAreCurrent'
  <1> SUFFICES ASSUME NEW s \in sessions' PROVE CurrentSession(s)'
    BY DEF SessionsAreCurrent, CurrentSession
  <1>1. CASE s \in sessions /\ \A o \in Ops : CommitSignIn(o) => s # Opens(o)
    <2>1. CurrentSession(s)
      BY <1>1 DEF SessionsAreCurrent, CurrentSession
    <2> QED
      BY <1>1, <2>1, SessionStays
  <1>2. ASSUME NEW o \in Ops, CommitSignIn(o), s = Opens(o) PROVE CurrentSession(s)'
    <2> DEFINE u == op[o].user
               raised == Rank(op[o].role) > Rank(op[o].seen.role)
               n == [user |-> u, prov |-> op[o].prov, id |-> o, how |-> op[o].status]
               l == IF op[o].status = "returning" THEN op[o].link ELSE n
    <2>1. /\ op[o].kind = "sso" /\ op[o].at = "begun" /\ op[o].status # "provision"
          /\ acc'[u].era = IF raised THEN o ELSE acc[u].era
      BY <1>2, SignInCommits
    <2>2. acc[u].era = op[o].seen.era
      BY <2>1 DEF LifecycleIsKept, Seen, UnderLifecycle
    <2>3. op[o].seen \in AccountRecords
      BY DEF WellFormed, Tasks, OpRecords
    <2>4. [op[o].seen EXCEPT !.era = IF raised THEN o ELSE @].era = acc'[u].era
      BY <2>1, <2>2, <2>3 DEF AccountRecords
    <2>5. s.how = "sso" /\ s.user = u /\ s.era = acc'[u].era /\ s.link = l
      BY <1>2, <2>4 DEF Opens, Session
    <2>6. l \in links'
      BY <1>2 DEF CommitSignIn, Attach
    <2> QED
      BY <2>5, <2>6 DEF CurrentSession
  <1>3. ASSUME NEW o \in Ops, CommitProvision(o), s \notin sessions PROVE CurrentSession(s)'
    <2> DEFINE a == [Absent EXCEPT !.role = op[o].role, !.status = "active", !.locked = TRUE]
               l == [user |-> o, prov |-> op[o].prov, id |-> o, how |-> "provision"]
    <2>1. s = Session(o, o, "sso", a, l) /\ l \in links'
      BY <1>3 DEF CommitProvision
    <2>2. a.era = Origin
      BY DEF Absent
    <2>3. s.how = "sso" /\ s.user = o /\ s.era = Origin /\ s.link = l
      BY <2>1, <2>2 DEF Session
    <2>4. acc'[o].era = Origin
      BY <1>3, ProvisionCommits
    <2> QED
      BY <2>1, <2>3, <2>4 DEF CurrentSession
  <1>4. ASSUME NEW o \in Ops, CommitLogin(o), s \notin sessions PROVE CurrentSession(s)'
    <2>1. /\ s = Session(o, op[o].user, "password", op[o].seen, None)
          /\ acc[op[o].user].pw = op[o].seen.pw /\ acc' = acc
          /\ op[o].kind = "login" /\ op[o].at = "begun"
      BY <1>4 DEF CommitLogin, Commits
    <2>2. acc[op[o].user].era = op[o].seen.era
      BY <2>1 DEF LifecycleIsKept, Seen, UnderLifecycle
    <2> QED
      BY <2>1, <2>2 DEF CurrentSession, Session
  <1>5. ASSUME NEW o \in Ops, IssueChange(o), s \notin sessions PROVE CurrentSession(s)'
    BY <1>5 DEF IssueChange, Session, CurrentSession, PasswordIsKept
  <1>6. ASSUME NEW o \in Ops, IssueRegister(o), s \notin sessions PROVE CurrentSession(s)'
    BY <1>6 DEF IssueRegister, Session, CurrentSession
  <1>7. ASSUME NEW o \in Ops, CommitSignIn(o), s \notin sessions PROVE s = Opens(o)
    BY <1>7 DEF CommitSignIn, Opens
  <1>8. Still \/ Visit => sessions' \subseteq sessions
    BY DEF Still, Visit
  <1>9. ASSUME NEW o \in Ops, Writes(o), ~CommitSignIn(o), ~CommitProvision(o)
        PROVE  sessions' \subseteq sessions
    BY <1>9 DEF Writes, CommitRegister, CommitReset, CommitChange, CommitUpdate, CommitGod,
            CommitDeprovision, CutOff
  <1>10. ASSUME NEW o \in Ops, Logout(o) \/ CommitRequest(o) \/ Unlink(o) \/ CommitSave(o)
         PROVE  sessions' \subseteq sessions
    BY <1>10 DEF Logout, CommitRequest, Unlink, CommitSave
  <1> QED
    BY <1>1, <1>2, <1>3, <1>4, <1>5, <1>6, <1>7, <1>8, <1>9, <1>10, Steps DEF EndsWith, Writes

(* A session dies with the password, the standing or the identity it was   *)
(* opened with, however sign-ins, resets, changes, transitions and unlinks *)
(* interleave (auth/service.ts login, users/service.ts updateUser,         *)
(* sso/service.ts).                                                        *)
THEOREM SessionsStayCurrent == Spec => []SessionsAreCurrent
  <1> DEFINE Inv == /\ WellFormed /\ Exclusive /\ LifecycleIsKept /\ PasswordIsKept
                    /\ SessionsAreCurrent
  <1>1. Init => Inv
    BY WellFormedInit, ExclusiveInit, KeptInit, SessionsAreCurrentInit
  <1>2. Inv /\ [Next]_vars => Inv'
    BY WellFormedStep, ExclusiveStep, LifecycleIsKeptStep, PasswordIsKeptStep,
       SessionsAreCurrentStep
  <1> QED
    BY <1>1, <1>2, PTL DEF Spec

-----------------------------------------------------------------------------

(* One store: bodies of transactions do not overlap, so a provider a sign- *)
(* in was admitted through stays enabled until its commit.                 *)
OneBody == \A o, q \in Ops : op[o].at = "begun" /\ op[q].at = "begun" => o = q
ThroughEnabled ==
  \A o \in Ops :
    op[o].kind = "sso" /\ op[o].at = "begun" => op[o].prov \in settings.enabled

LEMMA LoadStays == ASSUME WellFormed, [Next]_vars PROVE load' = load
  <1>1. Still \/ Visit => load' = load
    BY DEF Still, Visit
  <1>2. ASSUME NEW o \in Ops, Writes(o) PROVE load' = load
    BY <1>2 DEF Writes, CommitRegister, CommitReset, CommitChange, CommitUpdate, CommitGod,
            CommitDeprovision, CommitProvision, CommitSignIn
  <1>3. ASSUME NEW o \in Ops, EndsWith(o) PROVE load' = load
    BY <1>3 DEF EndsWith, IssueRegister, IssueChange, CommitLogin, Logout, CommitRequest, Unlink,
            CommitSave
  <1> QED
    BY <1>1, <1>2, <1>3, Steps

LEMMA BeginsAlone ==
  ASSUME OneStore, NEW o \in Ops, AnyBegin(o)
  PROVE  \A q \in Ops : op[q].at # "begun"
  BY DEF AnyBegin, BeginRegister, BeginLogin, BeginRequest, BeginReset, BeginChange, BeginUpdate,
     BeginGod, BeginSignIn, BeginDeprovision, BeginSave, Begin, StoreFree

LEMMA OneBodyStep ==
  ASSUME OneStore, WellFormed, OneBody, [Next]_vars
  PROVE  OneBody'
  <1>1. ASSUME NEW o \in Ops, op'[o].at = "begun", op[o].at # "begun"
        PROVE  Beginning(o) /\ AnyBegin(o)
    BY <1>1, OpSteps, RegisterCommits, ChangeCommits DEF Starting
  <1>2. ASSUME NEW o \in Ops, NEW q \in Ops, Beginning(o), o # q PROVE op'[q] = op[q]
    BY <1>2 DEF Beginning, OpStep, WellFormed, Tasks
  <1>3. ASSUME NEW o \in Ops, NEW q \in Ops, op'[o].at = "begun", op'[q].at = "begun", o # q,
               op[o].at # "begun"
        PROVE  FALSE
    <2>1. Beginning(o) /\ AnyBegin(o)
      BY <1>1, <1>3
    <2>2. op[q].at = "begun"
      BY <1>2, <1>3, <2>1
    <2> QED
      BY <2>1, <2>2, BeginsAlone
  <1> QED
    BY <1>3 DEF OneBody

LEMMA ThroughEnabledStep ==
  ASSUME OneStore, WellFormed, OneBody, ThroughEnabled, [Next]_vars
  PROVE  ThroughEnabled'
  <1> SUFFICES ASSUME NEW o \in Ops, op'[o].kind = "sso", op'[o].at = "begun"
               PROVE  op'[o].prov \in settings'.enabled
    BY DEF ThroughEnabled
  <1>1. CASE op'[o] = op[o]
    <2>1. ASSUME NEW q \in Ops, CommitSave(q) PROVE FALSE
      <3>1. op[q].at = "begun" /\ op[q].kind = "save"
        BY <2>1 DEF CommitSave, Commits
      <3> QED
        BY <1>1, <3>1 DEF OneBody
    <2>2. settings' = settings
      <3>1. Still \/ Visit => settings' = settings
        BY DEF Still, Visit
      <3>2. ASSUME NEW q \in Ops, Writes(q) PROVE settings' = settings
        BY <3>2 DEF Writes, CommitRegister, CommitReset, CommitChange, CommitUpdate, CommitGod,
                CommitDeprovision, CommitProvision, CommitSignIn
      <3>3. ASSUME NEW q \in Ops, \/ IssueRegister(q) \/ IssueChange(q) \/ CommitLogin(q)
                                  \/ Logout(q) \/ CommitRequest(q) \/ Unlink(q)
            PROVE  settings' = settings
        BY <3>3 DEF IssueRegister, IssueChange, CommitLogin, Logout, CommitRequest, Unlink
      <3> QED
        BY <2>1, <3>1, <3>2, <3>3, Steps DEF EndsWith
    <2> QED
      BY <1>1, <2>2 DEF ThroughEnabled
  <1>2. CASE op'[o] # op[o]
    <2>1. Beginning(o) /\ AnyBegin(o) /\ op[o].kind = "sso"
      BY <1>2, OpSteps, RegisterCommits, ChangeCommits DEF Starting, Beginning
    <2>2. BeginSignIn(o)
      BY <2>1 DEF AnyBegin, BeginRegister, BeginLogin, BeginRequest, BeginReset, BeginChange,
              BeginUpdate, BeginGod, BeginDeprovision, BeginSave, Begin
    <2>3. op[o].prov \in settings.enabled
      BY <2>2 DEF BeginSignIn, Begin, CurrentSettings
    <2>4. op'[o].prov = op[o].prov
      BY <2>2, ProvisionBegins, SignInBegins
    <2> QED
      BY <2>1, <2>3, <2>4 DEF Beginning, Still
  <1> QED
    BY <1>1, <1>2

LEMMA CutOffStep ==
  ASSUME OneStore, WellFormed, SessionsAreCurrent, ThroughEnabled, CutOffEndsSessions, [Next]_vars
  PROVE  CutOffEndsSessions'
  <1> SUFFICES ASSUME NEW s \in sessions', s.how = "sso"
               PROVE  s.link.prov \in settings'.enabled
    BY DEF CutOffEndsSessions
  <1>1. ASSUME settings' = settings, s \in sessions PROVE s.link.prov \in settings'.enabled
    BY <1>1 DEF CutOffEndsSessions
  <1>2. ASSUME NEW o \in Ops, CommitSave(o) PROVE s.link.prov \in settings'.enabled
    <2> DEFINE next == op[o].link
               cut == settings.enabled \ next.enabled
               gone == settings.force \ next.force
               hit == {l.user : l \in {k \in links : k.prov \in cut \cup gone}}
    <2>1. s \in sessions /\ s.user \notin hit /\ settings' = next
      BY <1>2 DEF CommitSave
    <2>2. s.link \in links /\ s.link.user = s.user /\ s.link.prov \in settings.enabled
      BY <2>1 DEF SessionsAreCurrent, CutOffEndsSessions, WellFormed, Doors
    <2>3. s.link.prov \notin cut
      BY <2>1, <2>2
    <2> QED
      BY <2>1, <2>2, <2>3
  <1>3. ASSUME NEW o \in Ops, CommitSignIn(o), s \notin sessions
        PROVE  s.link.prov \in settings'.enabled
    <2>1. /\ s = Opens(o) /\ settings' = settings
          /\ op[o].kind = "sso" /\ op[o].at = "begun"
      BY <1>3 DEF CommitSignIn, Opens, Commits
    <2>2. /\ op[o].prov \in settings.enabled
          /\ op[o].status = "returning" => op[o].link.prov = op[o].prov
      BY <2>1 DEF ThroughEnabled, WellFormed, Tasks, Fits
    <2>3. s.link.prov = op[o].prov
      BY <2>1, <2>2 DEF Opens, Session
    <2> QED
      BY <2>1, <2>2, <2>3
  <1>4. ASSUME NEW o \in Ops, CommitProvision(o), s \notin sessions
        PROVE  s.link.prov \in settings'.enabled
    <2>1. /\ s.link = [user |-> o, prov |-> op[o].prov, id |-> o, how |-> "provision"]
          /\ settings' = settings /\ op[o].kind = "sso" /\ op[o].at = "begun"
      BY <1>4 DEF CommitProvision, Session, Commits
    <2> QED
      BY <2>1 DEF ThroughEnabled
  <1>5. Still \/ Visit => sessions' \subseteq sessions /\ settings' = settings
    BY DEF Still, Visit
  <1>6. ASSUME NEW o \in Ops, Writes(o)
        PROVE  /\ settings' = settings
               /\ CommitSignIn(o) \/ CommitProvision(o) \/ sessions' \subseteq sessions
    BY <1>6 DEF Writes, CommitRegister, CommitReset, CommitChange, CommitUpdate, CommitGod,
            CommitDeprovision, CommitProvision, CommitSignIn, CutOff
  <1>7. ASSUME NEW o \in Ops, \/ IssueRegister(o) \/ IssueChange(o) \/ CommitLogin(o)
                              \/ Logout(o) \/ CommitRequest(o) \/ Unlink(o)
        PROVE  settings' = settings /\ s \in sessions
    BY <1>7 DEF IssueRegister, IssueChange, CommitLogin, Logout, CommitRequest, Unlink, Session
  <1> QED
    BY <1>1, <1>2, <1>3, <1>4, <1>5, <1>6, <1>7, Steps DEF EndsWith

(* Of one serving instance: no session of a provider outlives a save that  *)
(* disables or removes it, whatever sign-ins were under way when it was    *)
(* asked for (sso/service.ts signIn and the settings save, over the        *)
(* transaction queue of the store).                                        *)
THEOREM CutOffsAreComplete == Spec => []CutOffEndsSessions
  <1> DEFINE Inv == /\ WellFormed /\ Exclusive /\ LifecycleIsKept /\ PasswordIsKept
                    /\ SessionsAreCurrent /\ CutOffEndsSessions
                    /\ OneStore => OneBody /\ ThroughEnabled
  <1>1. Init => Inv
    <2> SUFFICES ASSUME Init PROVE Inv
      OBVIOUS
    <2>1. Blank.at = "idle"
      BY DEF Blank
    <2>2. OneBody /\ ThroughEnabled
      BY <2>1 DEF Init, OneBody, ThroughEnabled
    <2>3. ASSUME NEW s \in sessions PROVE s.how = "password"
      <3>1. PICK seeded \in {{}, Seeds}, proven \in BOOLEAN :
              sessions = {[user |-> u, id |-> Origin, how |-> "password", pw |-> Origin,
                           era |-> Origin, link |-> None] : u \in seeded}
        BY Zenon DEF Init
      <3> QED
        BY <2>3, <3>1
    <2> QED
      BY <2>2, <2>3, WellFormedInit, ExclusiveInit, KeptInit, SessionsAreCurrentInit
      DEF CutOffEndsSessions
  <1>2. ASSUME Inv, [Next]_vars PROVE Inv'
    <2>1. OneStore' <=> OneStore
      BY <1>2, LoadStays DEF OneStore
    <2>2. ASSUME OneStore PROVE OneBody' /\ ThroughEnabled' /\ CutOffEndsSessions'
      BY <1>2, <2>2, OneBodyStep, ThroughEnabledStep, CutOffStep
    <2>3. ASSUME ~OneStore PROVE CutOffEndsSessions'
      BY <2>1, <2>3 DEF CutOffEndsSessions
    <2> QED
      BY <1>2, <2>1, <2>2, <2>3, WellFormedStep, ExclusiveStep, LifecycleIsKeptStep,
         PasswordIsKeptStep, SessionsAreCurrentStep
  <1> QED
    BY <1>1, <1>2, PTL DEF Spec

-----------------------------------------------------------------------------

(* Reset links. *)

LEMMA DoneStays ==
  ASSUME WellFormed, [Next]_vars, NEW o \in Ops, op[o].at = "done"
  PROVE  op'[o].at = "done"
  BY OpSteps, RegisterCommits, ChangeCommits DEF Starting, Beginning

(* The live links change by a mint, a redemption or a cut-off. *)
LEMMA ResetSteps ==
  ASSUME WellFormed, [Next]_vars
  PROVE  /\ \/ \A u \in Accounts : reset'[u] = reset[u] \/ reset'[u] = None
            \/ \E o \in Ops : CommitRequest(o)
         /\ redeemed' = redeemed \/ \E o \in Ops : CommitReset(o)
  <1> DEFINE Fewer == \A u \in Accounts : reset'[u] = reset[u] \/ reset'[u] = None
  <1>1. Still \/ Visit => Fewer /\ redeemed' = redeemed
    BY DEF Still, Visit
  <1>2. ASSUME NEW o \in Ops, EndsWith(o), ~CommitRequest(o) PROVE Fewer /\ redeemed' = redeemed
    BY <1>2 DEF EndsWith, IssueRegister, IssueChange, CommitLogin, Logout, Unlink, CommitSave
  <1>3. ASSUME NEW o \in Ops, CommitRequest(o) PROVE redeemed' = redeemed
    BY <1>3 DEF CommitRequest
  <1>4. ASSUME NEW o \in Ops, Writes(o) PROVE Fewer /\ (redeemed' = redeemed \/ CommitReset(o))
    <2>1. CASE CommitReset(o) \/ CommitChange(o) \/ CommitUpdate(o) \/ CommitGod(o)
                 \/ CommitDeprovision(o)
      BY <2>1 DEF CommitReset, CommitChange, CommitUpdate, CommitGod, CommitDeprovision, CutOff,
              WellFormed, Papers
    <2>2. CASE CommitRegister(o) \/ CommitProvision(o) \/ CommitSignIn(o)
      BY <2>2 DEF CommitRegister, CommitProvision, CommitSignIn
    <2> QED
      BY <1>4, <2>1, <2>2 DEF Writes
  <1> QED
    BY <1>1, <1>2, <1>3, <1>4, Steps

LEMMA RequestCommits ==
  ASSUME WellFormed, NEW o \in Ops, CommitRequest(o)
  PROVE  /\ op[o].kind = "request" /\ op[o].at = "begun" /\ op'[o].at = "done"
         /\ op[o].user \in Accounts /\ acc' = acc
         /\ reset'[op[o].user] = [id |-> o, off |-> op[o].seen.off]
         /\ \A u \in Accounts : u # op[o].user => reset'[u] = reset[u]
  <1>1. op[o].kind = "request" /\ op[o].at = "begun" /\ op'[o].at = "done"
    BY EndsIs DEF CommitRequest, Commits
  <1>2. op[o].user \in Accounts
    BY <1>1 DEF WellFormed, Tasks, Fits, AboutSomebody
  <1> QED
    BY <1>1, <1>2 DEF CommitRequest, WellFormed, Papers

LEMMA RedeemCommits ==
  ASSUME WellFormed, NEW o \in Ops, CommitReset(o)
  PROVE  /\ op[o].user \in Accounts /\ op[o].link = reset[op[o].user] /\ reset[op[o].user] # None
         /\ reset'[op[o].user] = None
         /\ \A u \in Accounts : u # op[o].user => reset'[u] = reset[u]
         /\ redeemed' = redeemed \cup {[link |-> reset[op[o].user].id, by |-> o,
                                        off |-> reset[op[o].user].off, at |-> acc[op[o].user].off]}
  <1>1. op[o].kind = "reset" /\ op[o].user \in Accounts
    BY ResetCommits
  <1>2. op[o].link # None
    BY <1>1 DEF WellFormed, Tasks, Fits
  <1> QED
    BY <1>1, <1>2 DEF CommitReset, CutOff, WellFormed, Papers

LEMMA ResetLinksInit == Init => LinksAreMintedOnce /\ ResetLinksAreFresh
  BY DEF Init, LinksAreMintedOnce, ResetLinksAreFresh

LEMMA LinksAreMintedOnceStep ==
  ASSUME WellFormed, LinksAreMintedOnce, [Next]_vars
  PROVE  LinksAreMintedOnce'
  <1>1. ASSUME NEW u \in Accounts, reset[u] # None
        PROVE  reset[u].id \in Ops /\ op[reset[u].id].at = "done" /\ op'[reset[u].id].at = "done"
    <2>1. reset[u].id \in Ops
      BY <1>1 DEF WellFormed, Papers, ResetRecords
    <2> QED
      BY <1>1, <2>1, DoneStays DEF LinksAreMintedOnce
  <1>2. ASSUME NEW r \in redeemed
        PROVE  r.link \in Ops /\ op[r.link].at = "done" /\ op'[r.link].at = "done"
    BY DoneStays DEF LinksAreMintedOnce
  <1>3. CASE \E o \in Ops : CommitRequest(o)
    <2>1. PICK o \in Ops : CommitRequest(o)
      BY <1>3
    <2>2. redeemed' = redeemed
      BY <2>1 DEF CommitRequest
    <2> DEFINE u == op[o].user
    <2>3. /\ u \in Accounts /\ op[o].at = "begun" /\ op'[o].at = "done"
          /\ reset'[u] = [id |-> o, off |-> op[o].seen.off]
          /\ \A v \in Accounts : v # u => reset'[v] = reset[v]
      BY <2>1, RequestCommits
    <2> HIDE DEF u
    <2>4. \A v \in Accounts : reset'[v] # None => op'[reset'[v].id].at = "done"
      BY <1>1, <2>3
    <2>5. \A v, w \in Accounts :
            reset'[v] # None /\ reset'[w] # None /\ reset'[v].id = reset'[w].id => v = w
      BY <1>1, <2>3 DEF LinksAreMintedOnce
    <2>6. \A r \in redeemed' :
            /\ op'[r.link].at = "done" /\ r.link \in Ops
            /\ \A v \in Accounts : reset'[v] # None => reset'[v].id # r.link
      BY <1>1, <1>2, <2>2, <2>3 DEF LinksAreMintedOnce
    <2> QED
      BY <2>4, <2>5, <2>6 DEF LinksAreMintedOnce
  <1>4. CASE \E o \in Ops : CommitReset(o)
    <2>1. PICK o \in Ops : CommitReset(o)
      BY <1>4
    <2> QED
      BY <1>1, <1>2, <2>1, RedeemCommits DEF LinksAreMintedOnce
  <1>5. CASE /\ \A u \in Accounts : reset'[u] = reset[u] \/ reset'[u] = None
             /\ redeemed' = redeemed
    BY <1>1, <1>2, <1>5 DEF LinksAreMintedOnce
  <1> QED
    BY <1>3, <1>4, <1>5, ResetSteps

LEMMA ResetLinksAreFreshStep ==
  ASSUME WellFormed, LifecycleIsKept, LinksAreMintedOnce, ResetLinksAreFresh, [Next]_vars
  PROVE  ResetLinksAreFresh'
  <1>1. ASSUME NEW u \in Accounts, reset'[u] # None
        PROVE  acc'[u].status = "active" /\ reset'[u].off = acc'[u].off
    <2>1. ASSUME NEW o \in Ops, CommitRequest(o)
          PROVE  acc'[u].status = "active" /\ reset'[u].off = acc'[u].off
      <3>1. CASE u = op[o].user
        <4>1. acc[u].status = "active" /\ acc[u].off = op[o].seen.off
          BY <2>1, <3>1, RequestCommits DEF LifecycleIsKept, Seen, UnderLifecycle
        <4>2. reset'[u] = [id |-> o, off |-> op[o].seen.off] /\ acc' = acc
          BY <2>1, <3>1, RequestCommits
        <4> QED
          BY <4>1, <4>2
      <3>2. CASE u # op[o].user
        BY <1>1, <2>1, <3>2, RequestCommits DEF ResetLinksAreFresh, Active
      <3> QED
        BY <3>1, <3>2
    <2>2. CASE reset'[u] = reset[u]
      <3>1. acc[u].status = "active" /\ reset[u].off = acc[u].off /\ Born(u)
        BY <1>1, <2>2 DEF ResetLinksAreFresh, Active, WellFormed, People
      <3>2. ASSUME NEW o \in Ops, Writes(o)
            PROVE  acc'[u].status = "active" /\ acc'[u].off = acc[u].off
        <4>1. op[o].at = "begun" => ~Born(o)
          BY DEF WellFormed, Tasks, Fits
        <4>2. CASE CommitRegister(o) \/ CommitProvision(o)
          BY <3>1, <4>1, <4>2, RegisterCommits, ProvisionCommits
        <4>3. CASE CommitReset(o) \/ CommitChange(o)
          BY <3>1, <4>3, ResetCommits, ChangeCommits
        <4>4. CASE CommitUpdate(o)
          <5>1. CASE op[o].user = u
            <6>1. op[o].status # "disabled" \/ op[o].seen.status # "active"
              BY <1>1, <2>2, <4>4, <5>1 DEF CommitUpdate, WellFormed, Papers
            <6>2. op[o].seen.status = "active" /\ op[o].status \in {"active", "disabled"}
              BY <3>1, <4>4, <5>1, UpdateCommits DEF WellFormed, Tasks, Fits
            <6> QED
              BY <4>4, <5>1, <6>1, <6>2, UpdateCommits
          <5> QED
            BY <3>1, <4>4, <5>1, UpdateCommits
        <4>5. CASE CommitGod(o) \/ CommitDeprovision(o)
          <5>1. op[o].user # u
            BY <1>1, <2>2, <4>5 DEF CommitGod, CommitDeprovision, CutOff, WellFormed, Papers
          <5> QED
            BY <3>1, <4>5, <5>1, GodCommits, DeprovisionCommits
        <4>6. CASE CommitSignIn(o)
          BY <3>1, <4>6, SignInCommits
        <4> QED
          BY <3>2, <4>2, <4>3, <4>4, <4>5, <4>6 DEF Writes
      <3> QED
        BY <2>2, <3>1, <3>2, AccSteps
    <2> QED
      BY <1>1, <2>1, <2>2, ResetSteps
  <1>2. ASSUME NEW o \in Ops, CommitReset(o)
        PROVE  /\ \A r \in redeemed' : r.off = r.at
               /\ \A r, q \in redeemed' : r.link = q.link => r.by = q.by
    BY <1>2, RedeemCommits DEF ResetLinksAreFresh, LinksAreMintedOnce
  <1>3. /\ \A r \in redeemed' : r.off = r.at
        /\ \A r, q \in redeemed' : r.link = q.link => r.by = q.by
    BY <1>2, ResetSteps DEF ResetLinksAreFresh
  <1> QED
    BY <1>1, <1>3 DEF ResetLinksAreFresh, Active

(* A reset link was decided on after the account's last disable and sets   *)
(* one password at most, whatever requests, redemptions and transitions    *)
(* run at once (auth/service.ts requestPasswordReset, resetPassword).      *)
THEOREM ResetLinksStayFresh == Spec => []ResetLinksAreFresh
  <1> DEFINE Inv == /\ WellFormed /\ Exclusive /\ LifecycleIsKept /\ LinksAreMintedOnce
                    /\ ResetLinksAreFresh
  <1>1. Init => Inv
    BY WellFormedInit, ExclusiveInit, KeptInit, ResetLinksInit
  <1>2. Inv /\ [Next]_vars => Inv'
    BY WellFormedStep, ExclusiveStep, LifecycleIsKeptStep, LinksAreMintedOnceStep,
       ResetLinksAreFreshStep
  <1> QED
    BY <1>1, <1>2, PTL DEF Spec

-----------------------------------------------------------------------------

(* What an operation was admitted for. *)

(* New identities come with a sign-in that holds the lifecycle key of the  *)
(* account, or with the account itself.                                    *)
LEMMA LinkSteps ==
  ASSUME WellFormed, [Next]_vars, NEW l \in links', l \notin links
  PROVE  \E o \in Ops :
           \/ CommitProvision(o) /\ l.user = o /\ l.how = "provision"
           \/ /\ CommitSignIn(o) /\ l.user = op[o].user /\ l.prov = op[o].prov
              /\ l.how = op[o].status
  <1>1. Still \/ Visit => links' = links
    BY DEF Still, Visit
  <1>2. ASSUME NEW o \in Ops, EndsWith(o) PROVE links' \subseteq links
    BY <1>2 DEF EndsWith, IssueRegister, IssueChange, CommitLogin, Logout, CommitRequest, Unlink,
            CommitSave
  <1>3. PICK o \in Ops : Writes(o)
    BY <1>1, <1>2, Steps
  <1>4. CASE CommitRegister(o) \/ CommitReset(o) \/ CommitChange(o) \/ CommitUpdate(o)
               \/ CommitGod(o) \/ CommitDeprovision(o)
    BY <1>4 DEF CommitRegister, CommitReset, CommitChange, CommitUpdate, CommitGod,
            CommitDeprovision
  <1>5. CASE CommitProvision(o)
    <2>1. l = [user |-> o, prov |-> op[o].prov, id |-> o, how |-> "provision"]
      BY <1>5 DEF CommitProvision
    <2> QED
      BY <1>5, <2>1
  <1>6. CASE CommitSignIn(o)
    <2>1. l = [user |-> op[o].user, prov |-> op[o].prov, id |-> o, how |-> op[o].status]
      BY <1>6 DEF CommitSignIn, Attach
    <2> QED
      BY <1>6, <2>1
  <1> QED
    BY <1>3, <1>4, <1>5, <1>6 DEF Writes

LEMMA LinksHold ==
  ASSUME WellFormed, Exclusive, [Next]_vars, NEW q \in Ops, op'[q] = op[q],
         NEW u \in Accounts, Born(u), Lifecycle(u) \in Held(q), NEW l \in links', l.user = u
  PROVE  l \in links
  <1>1. ASSUME NEW o \in Ops, CommitProvision(o), l.user = o PROVE FALSE
    BY <1>1, ProvisionCommits DEF WellFormed, Tasks, Fits
  <1>2. ASSUME NEW o \in Ops, CommitSignIn(o), l.user = op[o].user PROVE FALSE
    <2>1. Lifecycle(u) \in Held(o) /\ op'[o].at = "done" /\ op[o].at = "begun"
      BY <1>2, SignInCommits DEF WellFormed, Tasks, Fits, Held
    <2>2. o = q
      BY <2>1 DEF Exclusive
    <2> QED
      BY <2>1, <2>2
  <1> QED
    BY <1>1, <1>2, LinkSteps

(* The settings are written under the policy key. *)
LEMMA SettingsSteps ==
  ASSUME WellFormed, [Next]_vars
  PROVE  \/ settings' = settings
         \/ \E o \in Ops : /\ Policy \in Held(o) /\ op'[o].at = "done"
                           /\ links' = {l \in links : l.prov \notin settings.force \ settings'.force}
  <1>1. Still \/ Visit => settings' = settings
    BY DEF Still, Visit
  <1>2. ASSUME NEW o \in Ops, Writes(o) PROVE settings' = settings
    BY <1>2 DEF Writes, CommitRegister, CommitReset, CommitChange, CommitUpdate, CommitGod,
            CommitDeprovision, CommitProvision, CommitSignIn
  <1>3. ASSUME NEW o \in Ops, EndsWith(o), ~CommitSave(o) PROVE settings' = settings
    BY <1>3 DEF EndsWith, IssueRegister, IssueChange, CommitLogin, Logout, CommitRequest, Unlink
  <1>4. ASSUME NEW o \in Ops, CommitSave(o)
        PROVE  /\ Policy \in Held(o) /\ op'[o].at = "done"
               /\ links' = {l \in links : l.prov \notin settings.force \ settings'.force}
    BY <1>4, EndsIs DEF CommitSave, Commits, WellFormed, Tasks, Fits, Held
  <1> QED
    BY <1>1, <1>2, <1>3, <1>4, Steps

LEMMA AdmissionsInit == Init => AdmissionsHold
  <1>1. Blank.at = "idle"
    BY DEF Blank
  <1> QED
    BY <1>1 DEF Init, AdmissionsHold, Admitted

LEMMA LoginStaysAdmitted ==
  ASSUME WellFormed, Exclusive, [Next]_vars, NEW o \in Ops, op'[o] = op[o],
         op[o].kind = "login", op[o].at = "begun", NEW u, u = op[o].user, MayUsePassword(u)
  PROVE  MayUsePassword(u)'
  <1>1. /\ u \in Accounts /\ Born(u) /\ Lifecycle(u) \in Held(o) /\ Policy \in Held(o)
    BY DEF WellFormed, Tasks, Fits, AboutSomebody, Held
  <1>2. acc'[u].role = acc[u].role /\ acc'[u].status = acc[u].status
        /\ acc'[u].locked = acc[u].locked
    BY <1>1, LifecycleHolds
  <1>3. settings' = settings
    <2>1. ASSUME NEW p \in Ops, Policy \in Held(p), op'[p].at = "done" PROVE FALSE
      <3>1. p = o
        BY <1>1, <2>1 DEF Exclusive
      <3> QED
        BY <2>1, <3>1
    <2> QED
      BY <2>1, SettingsSteps
  <1>4. \A l \in links' : l.user = u => l \in links
    BY <1>1, LinksHold
  <1>5. Blocked(u)' => Blocked(u)
    <2>1. LinksOf(u)' \subseteq LinksOf(u)
      BY <1>4 DEF LinksOf
    <2> QED
      BY <1>2, <1>3, <2>1 DEF Blocked
  <1> QED
    BY <1>2, <1>3, <1>5 DEF MayUsePassword, Active

LEMMA PromotionStaysAllowed ==
  ASSUME WellFormed, Exclusive, [Next]_vars, NEW o \in Ops, op'[o] = op[o],
         op[o].kind = "update", op[o].at = "begun", NEW u, u = op[o].user,
         NEW from, NEW to, PromotionAllowed(u, from, to)
  PROVE  PromotionAllowed(u, from, to)'
  <1>1. u \in Accounts /\ Born(u) /\ Lifecycle(u) \in Held(o)
    BY DEF WellFormed, Tasks, Fits, AboutSomebody, Held, TransitionKeys
  <1>2. \A l \in links' : l.user = u => l \in links
    BY <1>1, LinksHold
  <1>3. CASE settings' = settings
    BY <1>2, <1>3 DEF PromotionAllowed, LinksOf
  <1>4. CASE links' = {l \in links : l.prov \notin settings.force \ settings'.force}
    BY <1>4 DEF PromotionAllowed, LinksOf
  <1> QED
    BY <1>3, <1>4, SettingsSteps

LEMMA AdmissionsStep ==
  WellFormed /\ Exclusive /\ AdmissionsHold /\ [Next]_vars => AdmissionsHold'
  <1> SUFFICES ASSUME WellFormed, Exclusive, AdmissionsHold, [Next]_vars,
                      NEW o \in Ops, NEW q, q = op'[o], q.at = "begun"
               PROVE  /\ q.kind = "login" => MayUsePassword(q.user)'
                      /\ q.kind = "update" => PromotionAllowed(q.user, q.seen.role, q.role)'
                      /\ q.kind = "sso" /\ q.status # "provision" /\ Rank(q.role) >= 2
                           /\ q.role # q.seen.role =>
                           /\ q.prov \in Trusted
                           /\ \A l \in links' : l.user = q.user => l.prov \in Trusted
                      /\ q.kind = "sso" /\ q.status = "auto" =>
                           q.role = "member" /\ q.seen.role = "member"
    BY DEF AdmissionsHold, Admitted, LinksOf, MayUsePassword, PromotionAllowed, Active, Blocked
  <1>1. CASE op'[o] = op[o]
    <2>1. Admitted(q)
      BY <1>1 DEF AdmissionsHold
    <2>2. q.kind = "login" => MayUsePassword(q.user)'
      BY <1>1, <2>1, LoginStaysAdmitted DEF Admitted
    <2>3. q.kind = "update" => PromotionAllowed(q.user, q.seen.role, q.role)'
      BY <1>1, <2>1, PromotionStaysAllowed DEF Admitted
    <2>4. ASSUME q.kind = "sso", q.status # "provision", Rank(q.role) >= 2, q.role # q.seen.role,
                 NEW l \in links', l.user = q.user
          PROVE  l.prov \in Trusted
      <3>1. q.user \in Accounts /\ Born(q.user) /\ Lifecycle(q.user) \in Held(o)
        BY <1>1, <2>4 DEF WellFormed, Tasks, Fits, Held
      <3>2. l \in links
        BY <1>1, <2>4, <3>1, LinksHold
      <3> QED
        BY <2>1, <2>4, <3>2 DEF Admitted, LinksOf
    <2> QED
      BY <2>1, <2>2, <2>3, <2>4 DEF Admitted
  <1>2. CASE op'[o] # op[o]
    <2>1. CASE Starting(o) \/ op'[o].at = "done"
      BY <2>1 DEF Starting
    <2>2. CASE CommitRegister(o) \/ CommitChange(o)
      BY <2>2, RegisterCommits, ChangeCommits
    <2>3. CASE Beginning(o) /\ AnyBegin(o)
      <3>1. acc' = acc /\ links' = links /\ settings' = settings
        BY <2>3 DEF Beginning, Still
      <3>2. CASE BeginLogin(o)
        BY <3>1, <3>2, LoginBegins DEF Beginning, MayUsePassword, Active, Blocked, LinksOf
      <3>3. CASE BeginUpdate(o)
        BY <3>1, <3>3, UpdateBegins DEF Beginning, PromotionAllowed, LinksOf
      <3>4. CASE BeginSignIn(o) /\ op[o].status = "provision"
        BY <3>4, ProvisionBegins DEF Beginning
      <3>5. CASE BeginSignIn(o) /\ op[o].status # "provision"
        <4> DEFINE u == op[o].user
                   p == op[o].prov
                   x == op[o].role
        <4>1. /\ q.kind = "sso" /\ q.user = u /\ q.seen = acc[u] /\ q.prov = p
              /\ q.status = op[o].status /\ q.role = Granted(u, p, x) /\ x \in Mappings(p)
              /\ q.status = "auto" => ~PrivilegedAutoLink(u, p, x)
              /\ p \in Providers /\ u \in Accounts /\ acc[u].role \in Roles
          BY <3>5, SignInBegins
          DEF Beginning, WellFormed, Tasks, People, Fits, Born, AccountRecords
        <4> HIDE DEF u, p, x
        <4>2. ASSUME Rank(q.role) >= 2, q.role # q.seen.role
              PROVE  /\ p \in Trusted
                     /\ \A l \in links : l.user = u => l.prov \in Trusted
          <5>1. q.role = Mapped(u, p, x) /\ p \in Synced /\ q.role = x
            BY <4>1, <4>2 DEF Granted, Mapped
          <5>2. x = "admin" /\ p \in Trusted
            BY <4>1, <4>2, <5>1 DEF Mappings, Rank
          <5>3. acc[u].role = "member"
            BY <4>1, <4>2, <5>1, <5>2 DEF Roles, Mapped
          <5>4. Rank(acc[u].role) < 2 /\ Rank(Mapped(u, p, x)) >= 2
            BY <4>2, <5>1, <5>3 DEF Rank
          <5>5. {l \in LinksOf(u) : l.prov # p /\ l.prov \notin Trusted \cap settings.force} = {}
            BY <4>1, <4>2, <5>4 DEF Granted
          <5> QED
            BY <5>2, <5>5 DEF LinksOf
        <4>3. q.status = "auto" => q.role = "member" /\ q.seen.role = "member"
          <5>1. ASSUME q.status = "auto" PROVE q.role = "member" /\ q.seen.role = "member"
            <6>1. ~(Rank(acc[u].role) >= 2) /\ ~(Rank(Mapped(u, p, x)) >= 2)
              BY <4>1, <5>1 DEF PrivilegedAutoLink
            <6>2. acc[u].role = "member"
              BY <4>1, <6>1 DEF Roles, Rank
            <6>3. Mapped(u, p, x) = "member"
              BY <4>1, <6>1, <6>2 DEF Mapped, Mappings, Rank
            <6> QED
              BY <4>1, <6>2, <6>3 DEF Granted
          <5> QED
            BY <5>1
        <4> QED
          BY <3>1, <4>1, <4>2, <4>3
      <3>6. CASE BeginRegister(o) \/ BeginRequest(o) \/ BeginReset(o) \/ BeginChange(o)
                   \/ BeginGod(o) \/ BeginDeprovision(o) \/ BeginSave(o)
        BY <3>6, RegisterBegins, RequestBegins, ResetBegins, ChangeBegins, GodBegins,
           DeprovisionBegins, SaveBegins DEF Beginning
      <3> QED
        BY <2>3, <3>2, <3>3, <3>4, <3>5, <3>6 DEF AnyBegin
    <2> QED
      BY <1>2, <2>1, <2>2, <2>3, OpSteps
  <1> QED
    BY <1>1, <1>2
LEMMA AuthorityStep ==
  ASSUME WellFormed, LifecycleIsKept, AdmissionsHold, [Next]_vars
  PROVE  /\ \A s \in sessions' \ sessions : s.how = "password" => MayUsePassword(s.user)
         /\ \A u \in Accounts :
              acc[u].role # "none" /\ Rank(acc'[u].role) > Rank(acc[u].role) =>
                \A l \in links' : l.user = u => l.prov \in Trusted
         /\ \A l \in links' \ links : l.how = "auto" => acc'[l.user].role = "member"
  <1>1. ASSUME NEW s \in sessions', s \notin sessions, s.how = "password"
        PROVE  MayUsePassword(s.user)
    <2>1. Still \/ Visit => sessions' \subseteq sessions
      BY DEF Still, Visit
    <2>2. ASSUME NEW o \in Ops, Writes(o) PROVE FALSE
      <3>1. CASE CommitProvision(o)
        BY <1>1, <3>1 DEF CommitProvision, Session
      <3>2. CASE CommitSignIn(o)
        <4>1. s = Opens(o)
          BY <1>1, <3>2 DEF CommitSignIn, Opens
        <4> QED
          BY <1>1, <4>1 DEF Opens, Session
      <3>3. CASE CommitRegister(o) \/ CommitReset(o) \/ CommitChange(o) \/ CommitUpdate(o)
                   \/ CommitGod(o) \/ CommitDeprovision(o)
        BY <1>1, <3>3 DEF CommitRegister, CommitReset, CommitChange, CommitUpdate, CommitGod,
                CommitDeprovision, CutOff
      <3> QED
        BY <2>2, <3>1, <3>2, <3>3 DEF Writes
    <2>3. ASSUME NEW o \in Ops, EndsWith(o), ~CommitLogin(o) PROVE FALSE
      BY <1>1, <2>3 DEF EndsWith, IssueRegister, IssueChange, Logout, CommitRequest, Unlink,
              CommitSave, Session
    <2>4. PICK o \in Ops : CommitLogin(o)
      BY <1>1, <2>1, <2>2, <2>3, Steps
    <2>5. s.user = op[o].user /\ op[o].kind = "login" /\ op[o].at = "begun"
      BY <1>1, <2>4 DEF CommitLogin, Commits, Session
    <2> QED
      BY <2>5 DEF AdmissionsHold, Admitted
  <1>2. ASSUME NEW u \in Accounts, Born(u), Rank(acc'[u].role) > Rank(acc[u].role),
               NEW l \in links', l.user = u
        PROVE  l.prov \in Trusted
    <2>1. acc[u].role \in Roles /\ acc'[u].role # acc[u].role
      <3>1. acc[u].role \in Roles
        BY <1>2 DEF WellFormed, People, AccountRecords, Born
      <3>2. ~(Rank(acc[u].role) > Rank(acc[u].role))
        BY <3>1 DEF Rank, Roles
      <3> QED
        BY <1>2, <3>1, <3>2
    <2>2. Rank(acc'[u].role) >= 2
      BY <1>2, <2>1 DEF Rank, Roles
    <2>3. PICK o \in Ops : Writes(o)
      BY <2>1, AccSteps
    <2>4. op[o].at = "begun" => ~Born(o)
      BY DEF WellFormed, Tasks, Fits
    <2>5. CASE CommitRegister(o) \/ CommitProvision(o)
      BY <1>2, <2>1, <2>4, <2>5, RegisterCommits, ProvisionCommits
    <2>6. CASE CommitReset(o) \/ CommitChange(o)
      BY <2>1, <2>6, ResetCommits, ChangeCommits
    <2>7. CASE CommitGod(o) \/ CommitDeprovision(o)
      BY <2>1, <2>7, GodCommits, DeprovisionCommits
    <2>8. CASE CommitUpdate(o)
      <3>1. /\ u = op[o].user /\ acc[u].role = op[o].seen.role /\ acc'[u].role = op[o].role
            /\ op[o].kind = "update" /\ op[o].at = "begun"
        BY <2>1, <2>8, UpdateCommits
      <3>2. PromotionAllowed(u, op[o].seen.role, op[o].role)
        BY <3>1 DEF AdmissionsHold, Admitted
      <3>3. links' = links
        BY <2>8 DEF CommitUpdate
      <3> QED
        BY <1>2, <2>2, <3>1, <3>2, <3>3 DEF PromotionAllowed, LinksOf
    <2>9. CASE CommitSignIn(o)
      <3>1. /\ u = op[o].user /\ acc[u].role = op[o].seen.role /\ acc'[u].role = op[o].role
            /\ op[o].kind = "sso" /\ op[o].at = "begun" /\ op[o].status # "provision"
            /\ op[o].role # op[o].seen.role
        BY <2>1, <2>9, SignInCommits
      <3>2. op[o].prov \in Trusted /\ \A k \in LinksOf(u) : k.prov \in Trusted
        BY <2>2, <3>1 DEF AdmissionsHold, Admitted
      <3>3. l \in links \/ l.prov = op[o].prov
        BY <2>9 DEF CommitSignIn, Attach
      <3> QED
        BY <1>2, <3>2, <3>3 DEF LinksOf
    <2> QED
      BY <2>3, <2>5, <2>6, <2>7, <2>8, <2>9 DEF Writes
  <1>3. ASSUME NEW l \in links', l \notin links, l.how = "auto"
        PROVE  acc'[l.user].role = "member"
    <2>1. PICK o \in Ops : CommitSignIn(o) /\ l.user = op[o].user /\ op[o].status = "auto"
      BY <1>3, LinkSteps
    <2>2. op[o].kind = "sso" /\ op[o].at = "begun"
      BY <2>1, SignInCommits
    <2>3. op[o].role = "member" /\ op[o].seen.role = "member"
      BY <2>1, <2>2 DEF AdmissionsHold, Admitted
    <2>4. acc[op[o].user].role = op[o].seen.role
      BY <2>1, <2>2 DEF LifecycleIsKept, Seen, UnderLifecycle
    <2> QED
      BY <2>1, <2>3, <2>4, SignInCommits
  <1> QED
    BY <1>1, <1>2, <1>3 DEF Born

(* A password opens a session only where the policies and identities of    *)
(* the state it commits to let it; an account is raised to an              *)
(* administrator's role only with trusted identities on it; an automatic   *)
(* link never lands on an administrator's account (auth/service.ts login,  *)
(* users/service.ts assertManualAdminPromotionAllowed, sso/service.ts).    *)
THEOREM AuthorityStaysCurrent == Spec => AuthorityIsCurrent
  <1> DEFINE Inv == WellFormed /\ Exclusive /\ LifecycleIsKept /\ AdmissionsHold
  <1>1. Init => Inv
    BY WellFormedInit, ExclusiveInit, KeptInit, AdmissionsInit
  <1>2. Inv /\ [Next]_vars => Inv'
    BY WellFormedStep, ExclusiveStep, LifecycleIsKeptStep, AdmissionsStep
  <1>3. Inv /\ [Next]_vars =>
          [ /\ \A s \in sessions' \ sessions : s.how = "password" => MayUsePassword(s.user)
            /\ \A u \in Accounts :
                 acc[u].role # "none" /\ Rank(acc'[u].role) > Rank(acc[u].role) =>
                   \A l \in links' : l.user = u => l.prov \in Trusted
            /\ \A l \in links' \ links : l.how = "auto" => acc'[l.user].role = "member" ]_vars
    BY AuthorityStep
  <1> QED
    BY <1>1, <1>2, <1>3, PTL DEF Spec, AuthorityIsCurrent
=============================================================================
