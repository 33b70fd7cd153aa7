-------------------------- MODULE ApplicationsProofs --------------------------
(***************************************************************************)
(* Theorems about Applications, for any operations and any faults.         *)
(***************************************************************************)
EXTENDS Applications, TLAPS

(* The awaits of an issue and of a removal between their first key and     *)
(* their end, without the two waits that both have.                        *)
Provisioning == {"mapping", "ensure", "create", "map"}
Appended == {"get", "append", "mirror", "reclaim", "withdraw"}
Removing == {"find", "start", "look", "delete", "drop"}
Labels == Resting \cup {"name", "id", "usable", "reload", "check"}
            \cup Provisioning \cup Appended \cup Removing

WellFormed ==
    /\ app \in {"active", "disabled", "gone"}
    /\ mapped \in BOOLEAN /\ consumer \in BOOLEAN /\ taken \in BOOLEAN
    /\ rows \subseteq Ops /\ keys \subseteq Ops /\ started \subseteq Ops
    /\ flying \in Nat
    /\ closed \in {"none", "named", "unnamed"}
    /\ lease \in [Keys -> Ops \cup {NoOp}]
    /\ held \in [Ops -> SUBSET Keys]
    /\ kind \in [Ops -> {"none", "issue", "remove"}]
    /\ pc \in [Ops -> Labels]
    /\ found \in [Ops -> BOOLEAN]

(* Which operation is where, and the keys it believes it has there. *)
IssuePlace(o) ==
    /\ pc[o] \in {"usable"} \cup Provisioning => "name" \in held[o]
    /\ pc[o] \in {"check"} \cup Appended => "id" \in held[o]
RemovePlace(o) ==
    /\ pc[o] \in {"reload", "id"} \cup Removing => "name" \in held[o]
    /\ pc[o] \in {"look", "delete"} => "id" \in held[o]
    /\ pc[o] = "drop" /\ found[o] => "id" \in held[o]
Places ==
    \A o \in Ops :
      /\ kind[o] = "none" => pc[o] = "idle"
      /\ kind[o] = "issue" =>
           /\ pc[o] \notin {"idle", "reload"} \cup Removing
           /\ IssuePlace(o)
      /\ kind[o] = "remove" =>
           /\ pc[o] \notin {"idle", "usable", "check"} \cup Provisioning \cup Appended
           /\ RemovePlace(o)

(* Whoever has read the application under the name key and still has the   *)
(* lease may rely on what it read.                                         *)
NamePlace(o) ==
    \/ pc[o] \in Provisioning \cup Removing
    \/ pc[o] = "id" /\ kind[o] = "remove"
NameIsCurrent == \A o \in Ops : NamePlace(o) /\ lease["name"] = o => app # "gone"

(* A removal that touches the gateway has its start row. *)
StartedFirst ==
    \A o \in Ops :
      /\ o \in started => kind[o] = "remove" /\ found[o]
                          /\ pc[o] \notin {"name", "reload", "find", "start"}
      /\ kind[o] = "remove" /\ pc[o] \in {"id", "look", "delete"} => o \in started

(* Taking the consumer down is announced, and a completion names what was  *)
(* announced.                                                              *)
Announced ==
    /\ taken => started # {}
    /\ app = "gone" /\ started # {} => closed = "named"

-----------------------------------------------------------------------------
(* The consumer's key, in the same way: an issue past its mapping has a    *)
(* mapping, and one that found the application usable may rely on it.      *)
MappedFirst ==
    \A o \in Ops :
      /\ kind[o] = "issue" /\ pc[o] \in {"id", "check"} \cup Appended => mapped \/ app = "gone"
      /\ pc[o] \in Appended /\ lease["id"] = o => app # "gone"
      /\ pc[o] \in {"start", "drop"} /\ ~ found[o] /\ lease["name"] = o => ~ mapped
NothingLeft == app = "gone" => ~ mapped /\ rows = {}

(* Without takeovers and late creations: the keys exclude, and what a      *)
(* removal saw of the gateway stays true until its transaction.            *)
Exclusive ==
    \A o \in Ops : /\ \A k \in held[o] : lease[k] = o
                   /\ pc[o] \in Resting => held[o] = {}
GatewayIsKnown ==
    /\ flying = 0
    /\ ~ consumer => keys = {}
    /\ \A o \in Ops : pc[o] = "drop" => ~ consumer
    /\ \A o \in Ops : pc[o] = "start" /\ ~ found[o] => ~ consumer
    /\ app = "gone" => ~ consumer
-----------------------------------------------------------------------------
LEMMA WellFormedInit == Init => WellFormed
  <1> SUFFICES ASSUME Init PROVE WellFormed
    OBVIOUS
  <1>1. mapped \in BOOLEAN /\ consumer \in BOOLEAN /\ taken \in BOOLEAN
    BY Zenon DEF Init
  <1> QED
    BY <1>1 DEF Init, WellFormed, Labels, Resting, Keys

LEMMA WellFormedStep ==
  WellFormed /\ [Next]_vars => WellFormed'
  <1> SUFFICES ASSUME WellFormed, [Next]_vars PROVE WellFormed'
    OBVIOUS
  <1> USE ApplicationsAssumption DEF Goto, At, store, edge, locks, issuing, WellFormed, Labels,
          Resting, Provisioning, Appended, Removing, Keys
  <1>1. ASSUME NEW o \in Ops, TakeName(o) PROVE WellFormed'
    BY <1>1 DEF TakeName, Take
  <1>2. ASSUME NEW o \in Ops, TakeId(o) PROVE WellFormed'
    BY <1>2 DEF TakeId, Take
  <1>3. ASSUME NEW o \in Ops, Timeout(o) PROVE WellFormed'
    BY <1>3 DEF Timeout, Leave, Released
  <1>4. ASSUME NEW o \in Ops, Crash(o) PROVE WellFormed'
    BY <1>4 DEF Crash
  <1>5. ASSUME NEW o \in Ops, StartIssue(o) PROVE WellFormed'
    BY <1>5 DEF StartIssue
  <1>6. ASSUME NEW o \in Ops, Usable(o) PROVE WellFormed'
    BY <1>6 DEF Usable, Leave, Released
  <1>7. ASSUME NEW o \in Ops, Mapping(o) PROVE WellFormed'
    BY <1>7 DEF Mapping, Provisioned, Released
  <1>8. ASSUME NEW o \in Ops, Ensure(o) PROVE WellFormed'
    BY <1>8 DEF Ensure
  <1>9. ASSUME NEW o \in Ops, CreateConsumer(o) PROVE WellFormed'
    <2>1. mapped' \in BOOLEAN /\ consumer' \in BOOLEAN /\ taken' \in BOOLEAN
      BY <1>9, Zenon DEF CreateConsumer
    <2> QED
      BY <1>9, <2>1 DEF CreateConsumer, Leave, Released
  <1>10. ASSUME NEW o \in Ops, MapConsumer(o) PROVE WellFormed'
    <2>1. mapped' \in BOOLEAN /\ consumer' \in BOOLEAN /\ taken' \in BOOLEAN
      BY <1>10, Zenon DEF MapConsumer, Commit
    <2> QED
      BY <1>10, <2>1 DEF MapConsumer, Commit, Leave, Released, Provisioned
  <1>11. ASSUME NEW o \in Ops, Check(o) PROVE WellFormed'
    BY <1>11 DEF Check, Leave, Released
  <1>12. ASSUME NEW o \in Ops, AppendKey(o) PROVE WellFormed'
    BY <1>12 DEF AppendKey
  <1>13. ASSUME NEW o \in Ops, Mirror(o) PROVE WellFormed'
    BY <1>13 DEF Mirror, Commit, Leave, Released
  <1>14. ASSUME NEW o \in Ops, StartRemove(o) PROVE WellFormed'
    BY <1>14 DEF StartRemove
  <1>15. ASSUME NEW o \in Ops, Reload(o) PROVE WellFormed'
    BY <1>15 DEF Reload, Leave, Released
  <1>16. ASSUME NEW o \in Ops, Find(o) PROVE WellFormed'
    BY <1>16 DEF Find, Leave, Released
  <1>17. ASSUME NEW o \in Ops, RecordStart(o) PROVE WellFormed'
    BY <1>17 DEF RecordStart, Commit, Leave, Released
  <1>18. ASSUME NEW o \in Ops, Look(o) PROVE WellFormed'
    BY <1>18 DEF Look, Leave, Released
  <1>19. ASSUME NEW o \in Ops, DeleteConsumer(o) PROVE WellFormed'
    <2>1. mapped' \in BOOLEAN /\ consumer' \in BOOLEAN /\ taken' \in BOOLEAN
      BY <1>19, Zenon DEF DeleteConsumer
    <2> QED
      BY <1>19, <2>1 DEF DeleteConsumer, Leave, Released
  <1>20. ASSUME NEW o \in Ops, Drop(o) PROVE WellFormed'
    <2>1. mapped' \in BOOLEAN /\ consumer' \in BOOLEAN /\ taken' \in BOOLEAN
      BY <1>20, Zenon DEF Drop, Commit
    <2> QED
      BY <1>20, <2>1 DEF Drop, Commit, Leave, Released
  <1>21. ASSUME NEW o \in Ops, Get(o) PROVE WellFormed'
    BY <1>21 DEF Get, Leave, Released
  <1>22. ASSUME NEW o \in Ops, Withdraw(o) PROVE WellFormed'
    BY <1>22 DEF Withdraw, Leave, Released
  <1>23. CASE Toggle
    BY <1>23 DEF Toggle
  <1>24. CASE Lands
    BY <1>24 DEF Lands
  <1>25. CASE UNCHANGED vars
    BY <1>25 DEF vars
  <1> QED
    BY <1>1, <1>2, <1>3, <1>4, <1>5, <1>6, <1>7, <1>8, <1>9, <1>10, <1>11, <1>12, <1>13, <1>14,
       <1>15, <1>16, <1>17, <1>18, <1>19, <1>20, <1>21, <1>22, <1>23, <1>24, <1>25
    DEF Next, Step, Appending

LEMMA PlacesInit == Init => Places
  BY DEF Init, Places

LEMMA PlacesStep ==
  WellFormed /\ Places /\ [Next]_vars => Places'
  <1> SUFFICES ASSUME WellFormed, Places, [Next]_vars PROVE Places'
    OBVIOUS
  <1> USE ApplicationsAssumption DEF Goto, At, store, edge, locks, issuing,
          Places, IssuePlace, RemovePlace, WellFormed, Resting, Provisioning, Appended, Removing,
              Keys
  <1>1. ASSUME NEW o \in Ops, TakeName(o) PROVE Places'
    BY <1>1 DEF TakeName, Take
  <1>2. ASSUME NEW o \in Ops, TakeId(o) PROVE Places'
    BY <1>2 DEF TakeId, Take
  <1>3. ASSUME NEW o \in Ops, Timeout(o) PROVE Places'
    BY <1>3 DEF Timeout, Leave, Released
  <1>4. ASSUME NEW o \in Ops, Crash(o) PROVE Places'
    BY <1>4 DEF Crash
  <1>5. ASSUME NEW o \in Ops, StartIssue(o) PROVE Places'
    BY <1>5 DEF StartIssue
  <1>6. ASSUME NEW o \in Ops, Usable(o) PROVE Places'
    BY <1>6 DEF Usable, Leave, Released
  <1>7. ASSUME NEW o \in Ops, Mapping(o) PROVE Places'
    BY <1>7 DEF Mapping, Provisioned, Released
  <1>8. ASSUME NEW o \in Ops, Ensure(o) PROVE Places'
    BY <1>8 DEF Ensure
  <1>9. ASSUME NEW o \in Ops, CreateConsumer(o) PROVE Places'
    BY <1>9 DEF CreateConsumer, Leave, Released
  <1>10. ASSUME NEW o \in Ops, MapConsumer(o) PROVE Places'
    BY <1>10 DEF MapConsumer, Commit, Leave, Released, Provisioned
  <1>11. ASSUME NEW o \in Ops, Check(o) PROVE Places'
    BY <1>11 DEF Check, Leave, Released
  <1>12. ASSUME NEW o \in Ops, AppendKey(o) PROVE Places'
    BY <1>12 DEF AppendKey
  <1>13. ASSUME NEW o \in Ops, Mirror(o) PROVE Places'
    BY <1>13 DEF Mirror, Commit, Leave, Released
  <1>14. ASSUME NEW o \in Ops, StartRemove(o) PROVE Places'
    BY <1>14 DEF StartRemove
  <1>15. ASSUME NEW o \in Ops, Reload(o) PROVE Places'
    BY <1>15 DEF Reload, Leave, Released
  <1>16. ASSUME NEW o \in Ops, Find(o) PROVE Places'
    BY <1>16 DEF Find, Leave, Released
  <1>17. ASSUME NEW o \in Ops, RecordStart(o) PROVE Places'
    BY <1>17 DEF RecordStart, Commit, Leave, Released
  <1>18. ASSUME NEW o \in Ops, Look(o) PROVE Places'
    BY <1>18 DEF Look, Leave, Released
  <1>19. ASSUME NEW o \in Ops, DeleteConsumer(o) PROVE Places'
    BY <1>19 DEF DeleteConsumer, Leave, Released
  <1>20. ASSUME NEW o \in Ops, Drop(o) PROVE Places'
    BY <1>20 DEF Drop, Commit, Leave, Released
  <1>21. ASSUME NEW o \in Ops, Get(o) PROVE Places'
    BY <1>21 DEF Get, Leave, Released
  <1>22. ASSUME NEW o \in Ops, Withdraw(o) PROVE Places'
    BY <1>22 DEF Withdraw, Leave, Released
  <1>23. CASE Toggle
    BY <1>23 DEF Toggle
  <1>24. CASE Lands
    BY <1>24 DEF Lands
  <1>25. CASE UNCHANGED vars
    BY <1>25 DEF vars
  <1> QED
    BY <1>1, <1>2, <1>3, <1>4, <1>5, <1>6, <1>7, <1>8, <1>9, <1>10, <1>11, <1>12, <1>13, <1>14,
       <1>15, <1>16, <1>17, <1>18, <1>19, <1>20, <1>21, <1>22, <1>23, <1>24, <1>25
    DEF Next, Step, Appending

LEMMA NameInit == Init => NameIsCurrent
  BY DEF Init, NameIsCurrent, NamePlace, Provisioning, Removing

LEMMA NameStep ==
  WellFormed /\ Places /\ NameIsCurrent /\ [Next]_vars => NameIsCurrent'
  <1> SUFFICES ASSUME WellFormed, Places, NameIsCurrent, [Next]_vars PROVE NameIsCurrent'
    OBVIOUS
  <1> USE ApplicationsAssumption DEF Goto, At, store, edge, locks, issuing, Places, IssuePlace,
          RemovePlace,
          NameIsCurrent, NamePlace, FencesHold, WellFormed, Resting, Provisioning, Appended,
              Removing, Keys
  <1>1. ASSUME NEW o \in Ops, TakeName(o) PROVE NameIsCurrent'
    BY <1>1 DEF TakeName, Take
  <1>2. ASSUME NEW o \in Ops, TakeId(o) PROVE NameIsCurrent'
    BY <1>2 DEF TakeId, Take
  <1>3. ASSUME NEW o \in Ops, Timeout(o) PROVE NameIsCurrent'
    BY <1>3 DEF Timeout, Leave, Released
  <1>4. ASSUME NEW o \in Ops, Crash(o) PROVE NameIsCurrent'
    BY <1>4 DEF Crash
  <1>5. ASSUME NEW o \in Ops, StartIssue(o) PROVE NameIsCurrent'
    BY <1>5 DEF StartIssue
  <1>6. ASSUME NEW o \in Ops, Usable(o) PROVE NameIsCurrent'
    BY <1>6 DEF Usable, Leave, Released
  <1>7. ASSUME NEW o \in Ops, Mapping(o) PROVE NameIsCurrent'
    BY <1>7 DEF Mapping, Provisioned, Released
  <1>8. ASSUME NEW o \in Ops, Ensure(o) PROVE NameIsCurrent'
    BY <1>8 DEF Ensure
  <1>9. ASSUME NEW o \in Ops, CreateConsumer(o) PROVE NameIsCurrent'
    BY <1>9 DEF CreateConsumer, Leave, Released
  <1>10. ASSUME NEW o \in Ops, MapConsumer(o) PROVE NameIsCurrent'
    BY <1>10 DEF MapConsumer, Commit, Leave, Released, Provisioned
  <1>11. ASSUME NEW o \in Ops, Check(o) PROVE NameIsCurrent'
    BY <1>11 DEF Check, Leave, Released
  <1>12. ASSUME NEW o \in Ops, AppendKey(o) PROVE NameIsCurrent'
    BY <1>12 DEF AppendKey
  <1>13. ASSUME NEW o \in Ops, Mirror(o) PROVE NameIsCurrent'
    BY <1>13 DEF Mirror, Commit, Leave, Released
  <1>14. ASSUME NEW o \in Ops, StartRemove(o) PROVE NameIsCurrent'
    BY <1>14 DEF StartRemove
  <1>15. ASSUME NEW o \in Ops, Reload(o) PROVE NameIsCurrent'
    BY <1>15 DEF Reload, Leave, Released
  <1>16. ASSUME NEW o \in Ops, Find(o) PROVE NameIsCurrent'
    BY <1>16 DEF Find, Leave, Released
  <1>17. ASSUME NEW o \in Ops, RecordStart(o) PROVE NameIsCurrent'
    BY <1>17 DEF RecordStart, Commit, Leave, Released
  <1>18. ASSUME NEW o \in Ops, Look(o) PROVE NameIsCurrent'
    BY <1>18 DEF Look, Leave, Released
  <1>19. ASSUME NEW o \in Ops, DeleteConsumer(o) PROVE NameIsCurrent'
    BY <1>19 DEF DeleteConsumer, Leave, Released
  <1>20. ASSUME NEW o \in Ops, Drop(o) PROVE NameIsCurrent'
    BY <1>20 DEF Drop, Commit, Leave, Released
  <1>21. ASSUME NEW o \in Ops, Get(o) PROVE NameIsCurrent'
    BY <1>21 DEF Get, Leave, Released
  <1>22. ASSUME NEW o \in Ops, Withdraw(o) PROVE NameIsCurrent'
    BY <1>22 DEF Withdraw, Leave, Released
  <1>23. CASE Toggle
    BY <1>23 DEF Toggle
  <1>24. CASE Lands
    BY <1>24 DEF Lands
  <1>25. CASE UNCHANGED vars
    BY <1>25 DEF vars
  <1> QED
    BY <1>1, <1>2, <1>3, <1>4, <1>5, <1>6, <1>7, <1>8, <1>9, <1>10, <1>11, <1>12, <1>13, <1>14,
       <1>15, <1>16, <1>17, <1>18, <1>19, <1>20, <1>21, <1>22, <1>23, <1>24, <1>25
    DEF Next, Step, Appending

LEMMA StartedInit == Init => StartedFirst
  BY DEF Init, StartedFirst

LEMMA StartedStep ==
  WellFormed /\ Places /\ StartedFirst /\ [Next]_vars => StartedFirst'
  <1> SUFFICES ASSUME WellFormed, Places, StartedFirst, [Next]_vars PROVE StartedFirst'
    OBVIOUS
  <1> USE ApplicationsAssumption DEF Goto, At, store, edge, locks, issuing, Places, RemovePlace,
          StartedFirst, WellFormed, Resting, Provisioning, Appended, Removing, Keys
  <1>1. ASSUME NEW o \in Ops, TakeName(o) PROVE StartedFirst'
    BY <1>1 DEF TakeName, Take
  <1>2. ASSUME NEW o \in Ops, TakeId(o) PROVE StartedFirst'
    BY <1>2 DEF TakeId, Take
  <1>3. ASSUME NEW o \in Ops, Timeout(o) PROVE StartedFirst'
    BY <1>3 DEF Timeout, Leave, Released
  <1>4. ASSUME NEW o \in Ops, Crash(o) PROVE StartedFirst'
    BY <1>4 DEF Crash
  <1>5. ASSUME NEW o \in Ops, StartIssue(o) PROVE StartedFirst'
    BY <1>5 DEF StartIssue
  <1>6. ASSUME NEW o \in Ops, Usable(o) PROVE StartedFirst'
    BY <1>6 DEF Usable, Leave, Released
  <1>7. ASSUME NEW o \in Ops, Mapping(o) PROVE StartedFirst'
    BY <1>7 DEF Mapping, Provisioned, Released
  <1>8. ASSUME NEW o \in Ops, Ensure(o) PROVE StartedFirst'
    BY <1>8 DEF Ensure
  <1>9. ASSUME NEW o \in Ops, CreateConsumer(o) PROVE StartedFirst'
    BY <1>9 DEF CreateConsumer, Leave, Released
  <1>10. ASSUME NEW o \in Ops, MapConsumer(o) PROVE StartedFirst'
    BY <1>10 DEF MapConsumer, Commit, Leave, Released, Provisioned
  <1>11. ASSUME NEW o \in Ops, Check(o) PROVE StartedFirst'
    BY <1>11 DEF Check, Leave, Released
  <1>12. ASSUME NEW o \in Ops, AppendKey(o) PROVE StartedFirst'
    BY <1>12 DEF AppendKey
  <1>13. ASSUME NEW o \in Ops, Mirror(o) PROVE StartedFirst'
    BY <1>13 DEF Mirror, Commit, Leave, Released
  <1>14. ASSUME NEW o \in Ops, StartRemove(o) PROVE StartedFirst'
    BY <1>14 DEF StartRemove
  <1>15. ASSUME NEW o \in Ops, Reload(o) PROVE StartedFirst'
    BY <1>15 DEF Reload, Leave, Released
  <1>16. ASSUME NEW o \in Ops, Find(o) PROVE StartedFirst'
    BY <1>16 DEF Find, Leave, Released
  <1>17. ASSUME NEW o \in Ops, RecordStart(o) PROVE StartedFirst'
    BY <1>17 DEF RecordStart, Commit, Leave, Released
  <1>18. ASSUME NEW o \in Ops, Look(o) PROVE StartedFirst'
    BY <1>18 DEF Look, Leave, Released
  <1>19. ASSUME NEW o \in Ops, DeleteConsumer(o) PROVE StartedFirst'
    BY <1>19 DEF DeleteConsumer, Leave, Released
  <1>20. ASSUME NEW o \in Ops, Drop(o) PROVE StartedFirst'
    BY <1>20 DEF Drop, Commit, Leave, Released
  <1>21. ASSUME NEW o \in Ops, Get(o) PROVE StartedFirst'
    BY <1>21 DEF Get, Leave, Released
  <1>22. ASSUME NEW o \in Ops, Withdraw(o) PROVE StartedFirst'
    BY <1>22 DEF Withdraw, Leave, Released
  <1>23. CASE Toggle
    BY <1>23 DEF Toggle
  <1>24. CASE Lands
    BY <1>24 DEF Lands
  <1>25. CASE UNCHANGED vars
    BY <1>25 DEF vars
  <1> QED
    BY <1>1, <1>2, <1>3, <1>4, <1>5, <1>6, <1>7, <1>8, <1>9, <1>10, <1>11, <1>12, <1>13, <1>14,
       <1>15, <1>16, <1>17, <1>18, <1>19, <1>20, <1>21, <1>22, <1>23, <1>24, <1>25
    DEF Next, Step, Appending

LEMMA AnnouncedInit == Init => Announced
  BY DEF Init, Announced

LEMMA AnnouncedStep ==
  WellFormed /\ Places /\ NameIsCurrent /\ StartedFirst /\ Announced /\ [Next]_vars => Announced'
  <1> SUFFICES ASSUME WellFormed, Places, NameIsCurrent, StartedFirst, Announced,
                      [Next]_vars PROVE Announced'
    OBVIOUS
  <1> USE ApplicationsAssumption DEF Goto, At, store, edge, locks, issuing, Places, RemovePlace,
          NameIsCurrent, NamePlace, FencesHold, StartedFirst, Announced, Named, WellFormed,
              Resting, Provisioning, Appended, Removing
  <1>1. ASSUME NEW o \in Ops, TakeName(o) PROVE Announced'
    BY <1>1 DEF TakeName, Take
  <1>2. ASSUME NEW o \in Ops, TakeId(o) PROVE Announced'
    BY <1>2 DEF TakeId, Take
  <1>3. ASSUME NEW o \in Ops, Timeout(o) PROVE Announced'
    BY <1>3 DEF Timeout, Leave, Released
  <1>4. ASSUME NEW o \in Ops, Crash(o) PROVE Announced'
    BY <1>4 DEF Crash
  <1>5. ASSUME NEW o \in Ops, StartIssue(o) PROVE Announced'
    BY <1>5 DEF StartIssue
  <1>6. ASSUME NEW o \in Ops, Usable(o) PROVE Announced'
    BY <1>6 DEF Usable, Leave, Released
  <1>7. ASSUME NEW o \in Ops, Mapping(o) PROVE Announced'
    BY <1>7 DEF Mapping, Provisioned, Released
  <1>8. ASSUME NEW o \in Ops, Ensure(o) PROVE Announced'
    BY <1>8 DEF Ensure
  <1>9. ASSUME NEW o \in Ops, CreateConsumer(o) PROVE Announced'
    BY <1>9 DEF CreateConsumer, Leave, Released
  <1>10. ASSUME NEW o \in Ops, MapConsumer(o) PROVE Announced'
    BY <1>10 DEF MapConsumer, Commit, Leave, Released, Provisioned
  <1>11. ASSUME NEW o \in Ops, Check(o) PROVE Announced'
    BY <1>11 DEF Check, Leave, Released
  <1>12. ASSUME NEW o \in Ops, AppendKey(o) PROVE Announced'
    BY <1>12 DEF AppendKey
  <1>13. ASSUME NEW o \in Ops, Mirror(o) PROVE Announced'
    BY <1>13 DEF Mirror, Commit, Leave, Released
  <1>14. ASSUME NEW o \in Ops, StartRemove(o) PROVE Announced'
    BY <1>14 DEF StartRemove
  <1>15. ASSUME NEW o \in Ops, Reload(o) PROVE Announced'
    BY <1>15 DEF Reload, Leave, Released
  <1>16. ASSUME NEW o \in Ops, Find(o) PROVE Announced'
    BY <1>16 DEF Find, Leave, Released
  <1>17. ASSUME NEW o \in Ops, RecordStart(o) PROVE Announced'
    BY <1>17 DEF RecordStart, Commit, Leave, Released
  <1>18. ASSUME NEW o \in Ops, Look(o) PROVE Announced'
    BY <1>18 DEF Look, Leave, Released
  <1>19. ASSUME NEW o \in Ops, DeleteConsumer(o) PROVE Announced'
    BY <1>19 DEF DeleteConsumer, Leave, Released
  <1>20. ASSUME NEW o \in Ops, Drop(o) PROVE Announced'
    BY <1>20 DEF Drop, Commit, Leave, Released
  <1>21. ASSUME NEW o \in Ops, Get(o) PROVE Announced'
    BY <1>21 DEF Get, Leave, Released
  <1>22. ASSUME NEW o \in Ops, Withdraw(o) PROVE Announced'
    BY <1>22 DEF Withdraw, Leave, Released
  <1>23. CASE Toggle
    BY <1>23 DEF Toggle
  <1>24. CASE Lands
    BY <1>24 DEF Lands
  <1>25. CASE UNCHANGED vars
    BY <1>25 DEF vars
  <1> QED
    BY <1>1, <1>2, <1>3, <1>4, <1>5, <1>6, <1>7, <1>8, <1>9, <1>10, <1>11, <1>12, <1>13, <1>14,
       <1>15, <1>16, <1>17, <1>18, <1>19, <1>20, <1>21, <1>22, <1>23, <1>24, <1>25
    DEF Next, Step, Appending

(* What a removal takes off the gateway is on record, whichever attempts   *)
(* stopped half way and whichever lost their keys: the start row is there  *)
(* before the gateway is touched, and a completion after it names the      *)
(* consumer (applications/service.ts, remove).                             *)
THEOREM RemovalsAreRecorded == Spec => []RemovalIsOnRecord
  <1>1. Announced => RemovalIsOnRecord
    BY DEF Announced, RemovalIsOnRecord
  <1> QED
    BY <1>1, WellFormedInit, WellFormedStep, PlacesInit, PlacesStep, NameInit, NameStep,
       StartedInit, StartedStep, AnnouncedInit, AnnouncedStep, PTL DEF Spec

-----------------------------------------------------------------------------
LEMMA MappedInit == Init => MappedFirst
  BY DEF Init, MappedFirst, Appended

LEMMA MappedStep ==
  WellFormed /\ Places /\ NameIsCurrent /\ StartedFirst /\ MappedFirst
  /\ [Next]_vars => MappedFirst'
  <1> SUFFICES ASSUME WellFormed, Places, NameIsCurrent, StartedFirst, MappedFirst,
                      [Next]_vars PROVE MappedFirst'
    OBVIOUS
  <1> USE ApplicationsAssumption DEF Goto, At, store, edge, locks, issuing, Places, IssuePlace,
          RemovePlace,
          NameIsCurrent, NamePlace, FencesHold, StartedFirst, MappedFirst, WellFormed, Resting,
              Provisioning, Appended,
          Removing, Keys
  <1>1. ASSUME NEW o \in Ops, TakeName(o) PROVE MappedFirst'
    BY <1>1 DEF TakeName, Take
  <1>2. ASSUME NEW o \in Ops, TakeId(o) PROVE MappedFirst'
    BY <1>2 DEF TakeId, Take
  <1>3. ASSUME NEW o \in Ops, Timeout(o) PROVE MappedFirst'
    BY <1>3 DEF Timeout, Leave, Released
  <1>4. ASSUME NEW o \in Ops, Crash(o) PROVE MappedFirst'
    BY <1>4 DEF Crash
  <1>5. ASSUME NEW o \in Ops, StartIssue(o) PROVE MappedFirst'
    BY <1>5 DEF StartIssue
  <1>6. ASSUME NEW o \in Ops, Usable(o) PROVE MappedFirst'
    BY <1>6 DEF Usable, Leave, Released
  <1>7. ASSUME NEW o \in Ops, Mapping(o) PROVE MappedFirst'
    BY <1>7 DEF Mapping, Provisioned, Released
  <1>8. ASSUME NEW o \in Ops, Ensure(o) PROVE MappedFirst'
    BY <1>8 DEF Ensure
  <1>9. ASSUME NEW o \in Ops, CreateConsumer(o) PROVE MappedFirst'
    BY <1>9 DEF CreateConsumer, Leave, Released
  <1>10. ASSUME NEW o \in Ops, MapConsumer(o) PROVE MappedFirst'
    BY <1>10 DEF MapConsumer, Commit, Leave, Released, Provisioned
  <1>11. ASSUME NEW o \in Ops, Check(o) PROVE MappedFirst'
    BY <1>11 DEF Check, Leave, Released
  <1>12. ASSUME NEW o \in Ops, AppendKey(o) PROVE MappedFirst'
    BY <1>12 DEF AppendKey
  <1>13. ASSUME NEW o \in Ops, Mirror(o) PROVE MappedFirst'
    BY <1>13 DEF Mirror, Commit, Leave, Released
  <1>14. ASSUME NEW o \in Ops, StartRemove(o) PROVE MappedFirst'
    BY <1>14 DEF StartRemove
  <1>15. ASSUME NEW o \in Ops, Reload(o) PROVE MappedFirst'
    BY <1>15 DEF Reload, Leave, Released
  <1>16. ASSUME NEW o \in Ops, Find(o) PROVE MappedFirst'
    BY <1>16 DEF Find, Leave, Released
  <1>17. ASSUME NEW o \in Ops, RecordStart(o) PROVE MappedFirst'
    BY <1>17 DEF RecordStart, Commit, Leave, Released
  <1>18. ASSUME NEW o \in Ops, Look(o) PROVE MappedFirst'
    BY <1>18 DEF Look, Leave, Released
  <1>19. ASSUME NEW o \in Ops, DeleteConsumer(o) PROVE MappedFirst'
    BY <1>19 DEF DeleteConsumer, Leave, Released
  <1>20. ASSUME NEW o \in Ops, Drop(o) PROVE MappedFirst'
    BY <1>20 DEF Drop, Commit, Leave, Released
  <1>21. ASSUME NEW o \in Ops, Get(o) PROVE MappedFirst'
    BY <1>21 DEF Get, Leave, Released
  <1>22. ASSUME NEW o \in Ops, Withdraw(o) PROVE MappedFirst'
    BY <1>22 DEF Withdraw, Leave, Released
  <1>23. CASE Toggle
    BY <1>23 DEF Toggle
  <1>24. CASE Lands
    BY <1>24 DEF Lands
  <1>25. CASE UNCHANGED vars
    BY <1>25 DEF vars
  <1> QED
    BY <1>1, <1>2, <1>3, <1>4, <1>5, <1>6, <1>7, <1>8, <1>9, <1>10, <1>11, <1>12, <1>13, <1>14,
       <1>15, <1>16, <1>17, <1>18, <1>19, <1>20, <1>21, <1>22, <1>23, <1>24, <1>25
    DEF Next, Step, Appending

LEMMA NothingInit == Init => NothingLeft
  BY DEF Init, NothingLeft

LEMMA NothingStep ==
  WellFormed /\ Places /\ NameIsCurrent /\ MappedFirst /\ NothingLeft /\ [Next]_vars => NothingLeft'
  <1> SUFFICES ASSUME WellFormed, Places, NameIsCurrent, MappedFirst, NothingLeft,
                      [Next]_vars PROVE NothingLeft'
    OBVIOUS
  <1> USE ApplicationsAssumption DEF Goto, At, store, edge, locks, issuing, Places, IssuePlace,
          RemovePlace,
          NameIsCurrent, NamePlace, FencesHold, MappedFirst, NothingLeft, WellFormed, Resting,
              Provisioning, Appended
  <1>1. ASSUME NEW o \in Ops, TakeName(o) PROVE NothingLeft'
    BY <1>1 DEF TakeName, Take
  <1>2. ASSUME NEW o \in Ops, TakeId(o) PROVE NothingLeft'
    BY <1>2 DEF TakeId, Take
  <1>3. ASSUME NEW o \in Ops, Timeout(o) PROVE NothingLeft'
    BY <1>3 DEF Timeout, Leave, Released
  <1>4. ASSUME NEW o \in Ops, Crash(o) PROVE NothingLeft'
    BY <1>4 DEF Crash
  <1>5. ASSUME NEW o \in Ops, StartIssue(o) PROVE NothingLeft'
    BY <1>5 DEF StartIssue
  <1>6. ASSUME NEW o \in Ops, Usable(o) PROVE NothingLeft'
    BY <1>6 DEF Usable, Leave, Released
  <1>7. ASSUME NEW o \in Ops, Mapping(o) PROVE NothingLeft'
    BY <1>7 DEF Mapping, Provisioned, Released
  <1>8. ASSUME NEW o \in Ops, Ensure(o) PROVE NothingLeft'
    BY <1>8 DEF Ensure
  <1>9. ASSUME NEW o \in Ops, CreateConsumer(o) PROVE NothingLeft'
    BY <1>9 DEF CreateConsumer, Leave, Released
  <1>10. ASSUME NEW o \in Ops, MapConsumer(o) PROVE NothingLeft'
    BY <1>10 DEF MapConsumer, Commit, Leave, Released, Provisioned
  <1>11. ASSUME NEW o \in Ops, Check(o) PROVE NothingLeft'
    BY <1>11 DEF Check, Leave, Released
  <1>12. ASSUME NEW o \in Ops, AppendKey(o) PROVE NothingLeft'
    BY <1>12 DEF AppendKey
  <1>13. ASSUME NEW o \in Ops, Mirror(o) PROVE NothingLeft'
    BY <1>13 DEF Mirror, Commit, Leave, Released
  <1>14. ASSUME NEW o \in Ops, StartRemove(o) PROVE NothingLeft'
    BY <1>14 DEF StartRemove
  <1>15. ASSUME NEW o \in Ops, Reload(o) PROVE NothingLeft'
    BY <1>15 DEF Reload, Leave, Released
  <1>16. ASSUME NEW o \in Ops, Find(o) PROVE NothingLeft'
    BY <1>16 DEF Find, Leave, Released
  <1>17. ASSUME NEW o \in Ops, RecordStart(o) PROVE NothingLeft'
    BY <1>17 DEF RecordStart, Commit, Leave, Released
  <1>18. ASSUME NEW o \in Ops, Look(o) PROVE NothingLeft'
    BY <1>18 DEF Look, Leave, Released
  <1>19. ASSUME NEW o \in Ops, DeleteConsumer(o) PROVE NothingLeft'
    BY <1>19 DEF DeleteConsumer, Leave, Released
  <1>20. ASSUME NEW o \in Ops, Drop(o) PROVE NothingLeft'
    BY <1>20 DEF Drop, Commit, Leave, Released
  <1>21. ASSUME NEW o \in Ops, Get(o) PROVE NothingLeft'
    BY <1>21 DEF Get, Leave, Released
  <1>22. ASSUME NEW o \in Ops, Withdraw(o) PROVE NothingLeft'
    BY <1>22 DEF Withdraw, Leave, Released
  <1>23. CASE Toggle
    BY <1>23 DEF Toggle
  <1>24. CASE Lands
    BY <1>24 DEF Lands
  <1>25. CASE UNCHANGED vars
    BY <1>25 DEF vars
  <1> QED
    BY <1>1, <1>2, <1>3, <1>4, <1>5, <1>6, <1>7, <1>8, <1>9, <1>10, <1>11, <1>12, <1>13, <1>14,
       <1>15, <1>16, <1>17, <1>18, <1>19, <1>20, <1>21, <1>22, <1>23, <1>24, <1>25
    DEF Next, Step, Appending

(* Nothing in the store refers to an application that is gone: neither a   *)
(* mapping nor a credential row is written after the transaction that      *)
(* deletes them, by any process that lost its key meanwhile                *)
(* (credentials/consumers.ts, ensureConsumer; credentials/service.ts,      *)
(* issueForConsumer).                                                      *)
THEOREM GoneLeavesNoRows == Spec => []NothingLeft
  BY WellFormedInit, WellFormedStep, PlacesInit, PlacesStep, NameInit, NameStep,
     StartedInit, StartedStep, MappedInit, MappedStep,
     NothingInit, NothingStep, PTL DEF Spec

-----------------------------------------------------------------------------
(* No holder of a key stalls past its lease, and no creation lands after   *)
(* its caller gave up on it.                                               *)
Prompt == "takeover" \notin Faults /\ "late" \notin Faults

LEMMA ExclusiveInit == Init => Exclusive
  BY DEF Init, Exclusive

LEMMA ExclusiveStep ==
  Prompt /\ WellFormed /\ Places /\ Exclusive /\ [Next]_vars => Exclusive'
  <1> SUFFICES ASSUME Prompt, WellFormed, Places, Exclusive, [Next]_vars PROVE Exclusive'
    OBVIOUS
  <1> USE ApplicationsAssumption DEF Goto, At, store, edge, locks, issuing, Places, Available,
          Fault, Prompt,
          Exclusive, WellFormed, Resting, Keys
  <1>1. ASSUME NEW o \in Ops, TakeName(o) PROVE Exclusive'
    BY <1>1 DEF TakeName, Take
  <1>2. ASSUME NEW o \in Ops, TakeId(o) PROVE Exclusive'
    BY <1>2 DEF TakeId, Take
  <1>3. ASSUME NEW o \in Ops, Timeout(o) PROVE Exclusive'
    BY <1>3 DEF Timeout, Leave, Released
  <1>4. ASSUME NEW o \in Ops, Crash(o) PROVE Exclusive'
    BY <1>4 DEF Crash
  <1>5. ASSUME NEW o \in Ops, StartIssue(o) PROVE Exclusive'
    BY <1>5 DEF StartIssue
  <1>6. ASSUME NEW o \in Ops, Usable(o) PROVE Exclusive'
    BY <1>6 DEF Usable, Leave, Released
  <1>7. ASSUME NEW o \in Ops, Mapping(o) PROVE Exclusive'
    BY <1>7 DEF Mapping, Provisioned, Released
  <1>8. ASSUME NEW o \in Ops, Ensure(o) PROVE Exclusive'
    BY <1>8 DEF Ensure
  <1>9. ASSUME NEW o \in Ops, CreateConsumer(o) PROVE Exclusive'
    BY <1>9 DEF CreateConsumer, Leave, Released
  <1>10. ASSUME NEW o \in Ops, MapConsumer(o) PROVE Exclusive'
    BY <1>10 DEF MapConsumer, Commit, Leave, Released, Provisioned
  <1>11. ASSUME NEW o \in Ops, Check(o) PROVE Exclusive'
    BY <1>11 DEF Check, Leave, Released
  <1>12. ASSUME NEW o \in Ops, AppendKey(o) PROVE Exclusive'
    BY <1>12 DEF AppendKey
  <1>13. ASSUME NEW o \in Ops, Mirror(o) PROVE Exclusive'
    BY <1>13 DEF Mirror, Commit, Leave, Released
  <1>14. ASSUME NEW o \in Ops, StartRemove(o) PROVE Exclusive'
    BY <1>14 DEF StartRemove
  <1>15. ASSUME NEW o \in Ops, Reload(o) PROVE Exclusive'
    BY <1>15 DEF Reload, Leave, Released
  <1>16. ASSUME NEW o \in Ops, Find(o) PROVE Exclusive'
    BY <1>16 DEF Find, Leave, Released
  <1>17. ASSUME NEW o \in Ops, RecordStart(o) PROVE Exclusive'
    BY <1>17 DEF RecordStart, Commit, Leave, Released
  <1>18. ASSUME NEW o \in Ops, Look(o) PROVE Exclusive'
    BY <1>18 DEF Look, Leave, Released
  <1>19. ASSUME NEW o \in Ops, DeleteConsumer(o) PROVE Exclusive'
    BY <1>19 DEF DeleteConsumer, Leave, Released
  <1>20. ASSUME NEW o \in Ops, Drop(o) PROVE Exclusive'
    BY <1>20 DEF Drop, Commit, Leave, Released
  <1>21. ASSUME NEW o \in Ops, Get(o) PROVE Exclusive'
    BY <1>21 DEF Get, Leave, Released
  <1>22. ASSUME NEW o \in Ops, Withdraw(o) PROVE Exclusive'
    BY <1>22 DEF Withdraw, Leave, Released
  <1>23. CASE Toggle
    BY <1>23 DEF Toggle
  <1>24. CASE Lands
    BY <1>24 DEF Lands
  <1>25. CASE UNCHANGED vars
    BY <1>25 DEF vars
  <1> QED
    BY <1>1, <1>2, <1>3, <1>4, <1>5, <1>6, <1>7, <1>8, <1>9, <1>10, <1>11, <1>12, <1>13, <1>14,
       <1>15, <1>16, <1>17, <1>18, <1>19, <1>20, <1>21, <1>22, <1>23, <1>24, <1>25
    DEF Next, Step, Appending

LEMMA GatewayInit == Init => GatewayIsKnown
  BY DEF Init, GatewayIsKnown

LEMMA GatewayStep ==
  Prompt /\ WellFormed /\ Places /\ NameIsCurrent /\ Exclusive /\ GatewayIsKnown
  /\ [Next]_vars => GatewayIsKnown'
  <1> SUFFICES ASSUME Prompt, WellFormed, Places, NameIsCurrent, Exclusive, GatewayIsKnown,
                      [Next]_vars PROVE GatewayIsKnown'
    OBVIOUS
  <1> USE ApplicationsAssumption DEF Goto, At, store, edge, locks, issuing, Places, IssuePlace,
          RemovePlace,
          NameIsCurrent, NamePlace, Fault, Prompt, Exclusive, GatewayIsKnown, WellFormed, Resting,
          Provisioning, Appended, Removing
  <1>1. ASSUME NEW o \in Ops, TakeName(o) PROVE GatewayIsKnown'
    BY <1>1 DEF TakeName, Take
  <1>2. ASSUME NEW o \in Ops, TakeId(o) PROVE GatewayIsKnown'
    BY <1>2 DEF TakeId, Take
  <1>3. ASSUME NEW o \in Ops, Timeout(o) PROVE GatewayIsKnown'
    BY <1>3 DEF Timeout, Leave, Released
  <1>4. ASSUME NEW o \in Ops, Crash(o) PROVE GatewayIsKnown'
    BY <1>4 DEF Crash
  <1>5. ASSUME NEW o \in Ops, StartIssue(o) PROVE GatewayIsKnown'
    BY <1>5 DEF StartIssue
  <1>6. ASSUME NEW o \in Ops, Usable(o) PROVE GatewayIsKnown'
    BY <1>6 DEF Usable, Leave, Released
  <1>7. ASSUME NEW o \in Ops, Mapping(o) PROVE GatewayIsKnown'
    BY <1>7 DEF Mapping, Provisioned, Released
  <1>8. ASSUME NEW o \in Ops, Ensure(o) PROVE GatewayIsKnown'
    BY <1>8 DEF Ensure
  <1>9. ASSUME NEW o \in Ops, CreateConsumer(o) PROVE GatewayIsKnown'
    BY <1>9 DEF CreateConsumer, Leave, Released
  <1>10. ASSUME NEW o \in Ops, MapConsumer(o) PROVE GatewayIsKnown'
    BY <1>10 DEF MapConsumer, Commit, Leave, Released, Provisioned
  <1>11. ASSUME NEW o \in Ops, Check(o) PROVE GatewayIsKnown'
    BY <1>11 DEF Check, Leave, Released
  <1>12. ASSUME NEW o \in Ops, AppendKey(o) PROVE GatewayIsKnown'
    BY <1>12 DEF AppendKey
  <1>13. ASSUME NEW o \in Ops, Mirror(o) PROVE GatewayIsKnown'
    BY <1>13 DEF Mirror, Commit, Leave, Released
  <1>14. ASSUME NEW o \in Ops, StartRemove(o) PROVE GatewayIsKnown'
    BY <1>14 DEF StartRemove
  <1>15. ASSUME NEW o \in Ops, Reload(o) PROVE GatewayIsKnown'
    BY <1>15 DEF Reload, Leave, Released
  <1>16. ASSUME NEW o \in Ops, Find(o) PROVE GatewayIsKnown'
    BY <1>16 DEF Find, Leave, Released
  <1>17. ASSUME NEW o \in Ops, RecordStart(o) PROVE GatewayIsKnown'
    BY <1>17 DEF RecordStart, Commit, Leave, Released
  <1>18. ASSUME NEW o \in Ops, Look(o) PROVE GatewayIsKnown'
    BY <1>18 DEF Look, Leave, Released
  <1>19. ASSUME NEW o \in Ops, DeleteConsumer(o) PROVE GatewayIsKnown'
    BY <1>19 DEF DeleteConsumer, Leave, Released
  <1>20. ASSUME NEW o \in Ops, Drop(o) PROVE GatewayIsKnown'
    BY <1>20 DEF Drop, Commit, Leave, Released
  <1>21. ASSUME NEW o \in Ops, Get(o) PROVE GatewayIsKnown'
    BY <1>21 DEF Get, Leave, Released
  <1>22. ASSUME NEW o \in Ops, Withdraw(o) PROVE GatewayIsKnown'
    BY <1>22 DEF Withdraw, Leave, Released
  <1>23. CASE Toggle
    BY <1>23 DEF Toggle
  <1>24. CASE Lands
    BY <1>24 DEF Lands
  <1>25. CASE UNCHANGED vars
    BY <1>25 DEF vars
  <1> QED
    BY <1>1, <1>2, <1>3, <1>4, <1>5, <1>6, <1>7, <1>8, <1>9, <1>10, <1>11, <1>12, <1>13, <1>14,
       <1>15, <1>16, <1>17, <1>18, <1>19, <1>20, <1>21, <1>22, <1>23, <1>24, <1>25
    DEF Next, Step, Appending

(* With prompt processes no key survives its application, whatever else    *)
(* fails and whoever crashes: the removal and the provisioning exclude     *)
(* each other on the name, the removal and the append on the consumer.     *)
THEOREM KeysDoNotOutlive == Prompt => (Spec => []KeysHaveAnOwner)
  <1> SUFFICES ASSUME Prompt PROVE Spec => []KeysHaveAnOwner
    OBVIOUS
  <1>1. NothingLeft /\ GatewayIsKnown => KeysHaveAnOwner
    BY DEF NothingLeft, GatewayIsKnown, KeysHaveAnOwner
  <1> QED
    BY <1>1, WellFormedInit, WellFormedStep, PlacesInit, PlacesStep, NameInit, NameStep,
       StartedInit, StartedStep, MappedInit, MappedStep, NothingInit, NothingStep, ExclusiveInit,
           ExclusiveStep,
       GatewayInit, GatewayStep, PTL DEF Spec
===============================================================================
