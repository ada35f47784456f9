---------------------------- MODULE IossBusProofs ----------------------------
(***************************************************************************)
(* Theorems about the offload subsystem around the interfaces, for any     *)
(* number of PCI devices.                                                  *)
(***************************************************************************)
EXTENDS IossBus, FiniteSetTheorems, TLAPS

----------------------------------------------------------------------------
(* The count of users is never too low, and is right when every idev is    *)
(* watched; while there are users the callbacks they replaced are known.   *)
CountInv ==
    /\ refcnt >= Cardinality(Users)
    /\ refcnt > 0 => pmReal # "none"
    /\ "unwatched" \notin Races => refcnt = Cardinality(Users) /\ blind = {}

(* Without the glue driver no idev is with it. *)
GlueInv ==
    /\ glue # "loaded" =>
           \A d \in Devices : idev[d] \notin {"linked", "open", "bound"}
    /\ glue = "unloaded" => Users = {}

(* The callbacks are hijacked while there are users, and the ones kept are *)
(* the driver's own.                                                       *)
PmInv ==
    /\ pm = "ioss" <=> Users # {}
    /\ pmReal # "ioss"
    /\ Users # {} => pmReal = "real"

(* While the system sleeps no idev is on the move and no refresh runs.     *)
SleepInv ==
    /\ sys # "awake" =>
           /\ Still(Devices)
           /\ root \in {"waiting", "started", "gone"}
           /\ \A d \in Devices : pci[d] \in {"unbound", "bound"}
    /\ sys \in {"suspending", "resuming"} => work = {}
    /\ \A d \in Devices : susp[d] # "no" => /\ sys \in {"suspending", "resuming"}
                                            /\ susp[d] = Handler(d)

(* Only an idev with the glue driver has refreshes, and one on its way out *)
(* that is still ONLINE has one to come.                                   *)
RefreshInv ==
    \A d \in Devices :
        /\ idev[d] \notin {"bound", "removed", "detached"} =>
               d \notin queued \cup work \cup online
        /\ idev[d] \in {"removed", "detached"} /\ d \in online =>
               d \in queued \cup work

(* An idev lives no longer than the binding of its PCI device and than the *)
(* subsystem, and the walk of the stop leaves none behind it.              *)
StopInv ==
    /\ \A d \in Devices :
          /\ pci[d] \in {"unbound", "probing"} => idev[d] = "none"
          /\ pci[d] = "unbinding" => idev[d] \in {"none", "removed"}
    /\ root \in {"waiting", "gone"} => \A d \in Devices : idev[d] = "none"
    /\ root = "stopping" =>
           \A d \in Devices \ todo :
               idev[d] = "none" \/ (d \in at /\ idev[d] = "removed")

(* The users are finitely many. *)
LEMMA UsersCount ==
    /\ IsFiniteSet(Users) /\ Cardinality(Users) \in Nat
    /\ Cardinality(Users) = 0 <=> Users = {}
    /\ Cardinality(Users) = 1 => \A d \in Users : Users = {d}
<1>1. IsFiniteSet(Users)
  BY BusAssumption, FS_Subset DEF Users
<1>2. Cardinality(Users) \in Nat /\ (Cardinality(Users) = 0 <=> Users = {})
  BY <1>1, FS_CardinalityType, FS_EmptySet
<1>3. Cardinality(Users) = 1 => \A d \in Users : Users = {d}
  BY <1>1, FS_Singleton
<1>4. QED
  BY <1>1, <1>2, <1>3

(* A step that leaves every idev with or without the callbacks leaves the  *)
(* users as they are.                                                      *)
LEMMA UsersKept ==
    ASSUME \A d \in Devices :
               idev'[d] \in {"open", "bound", "removed", "detached"}
                   <=> idev[d] \in {"open", "bound", "removed", "detached"}
    PROVE  Users' = Users
BY DEF Users

(* The idev of one device becomes a user. *)
LEMMA UserJoins ==
    ASSUME TypeOK, NEW d \in Devices, d \notin Users,
           idev' = [idev EXCEPT ![d] = "open"]
    PROVE  Users' = Users \cup {d} /\ Cardinality(Users') = Cardinality(Users) + 1
<1>1. Users' = Users \cup {d}
  BY DEF TypeOK, Users
<1>2. QED
  BY <1>1, UsersCount, FS_AddElement

(* The idev of one device is a user no more. *)
LEMMA UserLeaves ==
    ASSUME TypeOK, NEW d \in Users, NEW rest \in {"none", "failed"},
           idev' = [idev EXCEPT ![d] = rest]
    PROVE  /\ Users' = Users \ {d}
           /\ Cardinality(Users') = Cardinality(Users) - 1
           /\ Cardinality(Users) >= 1 /\ Cardinality(Users') \in Nat
<1>1. Users' = Users \ {d}
  BY DEF TypeOK, Users
<1>2. Cardinality(Users') = Cardinality(Users) - 1
  BY <1>1, UsersCount, FS_RemoveElement
<1>3. Cardinality(Users) # 0 /\ Cardinality(Users) \in Nat
  BY UsersCount
<1>4. QED
  BY <1>1, <1>2, <1>3

(* Every step keeps the types, given that the count of users is right.     *)
LEMMA BusTypesStep ==
    ASSUME TypeOK, CountInv, [Next]_vars
    PROVE  TypeOK'
<1> USE DEF TypeOK, Resting, Moving
<1>1. CASE GlueLoad
  BY <1>1 DEF GlueLoad, rootVars, pmVars, workVars, sysVars
<1>2. CASE GlueUnload
  BY <1>2 DEF GlueUnload, Still, rootVars, pmVars, sysVars
<1>3. CASE GlueUnloaded
  BY <1>3 DEF GlueUnloaded, Still, rootVars, pmVars, workVars, sysVars
<1>4. CASE IpaReady
  BY <1>4 DEF IpaReady, pmVars, workVars, sysVars
<1>5. CASE Stop
  BY <1>5 DEF Stop, Still, pmVars, workVars, sysVars
<1>6. CASE WalkDone
  BY <1>6 DEF WalkDone, Still, pmVars, workVars, sysVars
<1>7. CASE RootProbe
  BY <1>7 DEF RootProbe, pmVars, workVars, sysVars
<1>8. CASE Freeze
  BY <1>8 DEF Freeze, Still, rootVars, pmVars, workVars
<1>9. CASE Frozen
  BY <1>9 DEF Frozen, rootVars, pmVars, workVars
<1>10. CASE WakeUp
  BY <1>10 DEF WakeUp, rootVars, pmVars, workVars
<1>11. CASE Thaw
  BY <1>11 DEF Thaw, rootVars, pmVars, workVars
<1>12. ASSUME NEW d \in Devices, BindStart(d)
       PROVE  TypeOK'
  BY <1>12 DEF BindStart, rootVars, pmVars, workVars, sysVars
<1>13. ASSUME NEW d \in Devices, BindDone(d)
       PROVE  TypeOK'
  BY <1>13 DEF BindDone, AddDevice, Probed, rootVars, pmVars, workVars,
     sysVars
<1>14. ASSUME NEW d \in Devices, UnbindStart(d)
       PROVE  TypeOK'
  BY <1>14 DEF UnbindStart, RemoveDevice, rootVars, pmVars, sysVars
<1>15. ASSUME NEW d \in Devices, UnbindDone(d)
       PROVE  TypeOK'
  BY <1>15 DEF UnbindDone, rootVars, pmVars, workVars, sysVars
<1>16. ASSUME NEW d \in Devices, Event(d)
       PROVE  TypeOK'
  BY <1>16 DEF Event, rootVars, pmVars, sysVars
<1>17. ASSUME NEW d \in Devices, Hijack(d)
       PROVE  TypeOK'
  BY <1>17 DEF Hijack, rootVars, workVars, sysVars
<1>18. ASSUME NEW d \in Devices, ProbeDone(d)
       PROVE  TypeOK'
  BY <1>18 DEF ProbeDone, rootVars, pmVars, sysVars
<1>19. ASSUME NEW d \in Devices, ProbeFails(d)
       PROVE  TypeOK'
  <2>1. d \in Users /\ idev' = [idev EXCEPT ![d] = "failed"]
    BY <1>19 DEF ProbeFails, Users
  <2>2. refcnt >= 1 /\ pmReal # "none"
    BY <2>1, UserLeaves, UsersCount DEF CountInv
  <2>3. refcnt' \in Nat /\ pm' \in {"real", "ioss"} /\ pmReal' = pmReal
    BY <1>19, <2>2 DEF ProbeFails, Restore
  <2>4. QED
    BY <1>19, <2>1, <2>3 DEF ProbeFails, rootVars, workVars, sysVars
<1>20. ASSUME NEW d \in Devices, RemoveDone(d)
       PROVE  TypeOK'
  <2>1. /\ d \in Users
        /\ \E rest \in {"none", "failed"} : idev' = [idev EXCEPT ![d] = rest]
    BY <1>20 DEF RemoveDone, Users
  <2>2. refcnt >= 1 /\ pmReal # "none"
    BY <2>1, UserLeaves, UsersCount DEF CountInv
  <2>3. refcnt' \in Nat /\ pm' \in {"real", "ioss"}
              /\ pmReal' \in {"none", "real", "ioss"}
    BY <1>20, <2>2 DEF RemoveDone, Restore, pmVars
  <2>4. QED
    BY <1>20, <2>1, <2>3 DEF RemoveDone, rootVars, workVars, sysVars
<1>21. ASSUME NEW d \in Devices, WalkAdd(d)
       PROVE  TypeOK'
  BY <1>21 DEF WalkAdd, Still, AddDevice, Probed, pmVars, workVars, sysVars
<1>22. ASSUME NEW d \in Devices, WalkRemove(d)
       PROVE  TypeOK'
  BY <1>22 DEF WalkRemove, Still, RemoveDevice, pmVars, sysVars
<1>23. ASSUME NEW d \in Devices, RefreshStart(d)
       PROVE  TypeOK'
  BY <1>23 DEF RefreshStart, rootVars, pmVars, sysVars
<1>24. ASSUME NEW d \in Devices, RefreshEnd(d)
       PROVE  TypeOK'
  BY <1>24 DEF RefreshEnd, rootVars, pmVars, sysVars
<1>25. ASSUME NEW d \in Devices, SuspendDevice(d)
       PROVE  TypeOK'
  <2>1. Handler(d) \in {"nop", "real"}
    BY DEF Handler
  <2>2. QED
    BY <1>25, <2>1 DEF SuspendDevice, rootVars, pmVars, workVars
<1>26. ASSUME NEW d \in Devices, ResumeDevice(d)
       PROVE  TypeOK'
  BY <1>26 DEF ResumeDevice, rootVars, pmVars, workVars
<1>27. CASE UNCHANGED vars
  BY <1>27 DEF vars, rootVars, pmVars, workVars, sysVars
<1>28. QED
  BY <1>1, <1>2, <1>3, <1>4, <1>5, <1>6, <1>7, <1>8, <1>9, <1>10, <1>11,
     <1>12, <1>13, <1>14, <1>15, <1>16, <1>17, <1>18, <1>19, <1>20, <1>21,
     <1>22, <1>23, <1>24, <1>25, <1>26, <1>27 DEF Next, Begin, GoOn, End

(* Only a hijack, a probe that fails and the end of a remove change the    *)
(* users and the callbacks.                                                *)
LEMMA OthersKeepPm ==
    ASSUME TypeOK, [Next]_vars,
           \A d \in Devices : ~(Hijack(d) \/ ProbeFails(d) \/ RemoveDone(d))
    PROVE  Users' = Users /\ UNCHANGED pmVars
<1> USE DEF TypeOK, Resting, Moving, Users, pmVars
<1>1. CASE GlueLoad
  BY <1>1 DEF GlueLoad, rootVars, pmVars, workVars, sysVars
<1>2. CASE GlueUnload
  BY <1>2 DEF GlueUnload, Still, rootVars, pmVars, sysVars
<1>3. CASE GlueUnloaded
  BY <1>3 DEF GlueUnloaded, Still, rootVars, pmVars, workVars, sysVars
<1>4. CASE IpaReady
  BY <1>4 DEF IpaReady, pmVars, workVars, sysVars
<1>5. CASE Stop
  BY <1>5 DEF Stop, Still, pmVars, workVars, sysVars
<1>6. CASE WalkDone
  BY <1>6 DEF WalkDone, Still, pmVars, workVars, sysVars
<1>7. CASE RootProbe
  BY <1>7 DEF RootProbe, pmVars, workVars, sysVars
<1>8. CASE Freeze
  BY <1>8 DEF Freeze, Still, rootVars, pmVars, workVars
<1>9. CASE Frozen
  BY <1>9 DEF Frozen, rootVars, pmVars, workVars
<1>10. CASE WakeUp
  BY <1>10 DEF WakeUp, rootVars, pmVars, workVars
<1>11. CASE Thaw
  BY <1>11 DEF Thaw, rootVars, pmVars, workVars
<1>12. ASSUME NEW d \in Devices, BindStart(d)
       PROVE  Users' = Users /\ UNCHANGED pmVars
  BY <1>12 DEF BindStart, rootVars, pmVars, workVars, sysVars
<1>13. ASSUME NEW d \in Devices, BindDone(d)
       PROVE  Users' = Users /\ UNCHANGED pmVars
  BY <1>13 DEF BindDone, AddDevice, Probed, rootVars, pmVars, workVars,
     sysVars
<1>14. ASSUME NEW d \in Devices, UnbindStart(d)
       PROVE  Users' = Users /\ UNCHANGED pmVars
  BY <1>14 DEF UnbindStart, RemoveDevice, rootVars, pmVars, sysVars
<1>15. ASSUME NEW d \in Devices, UnbindDone(d)
       PROVE  Users' = Users /\ UNCHANGED pmVars
  BY <1>15 DEF UnbindDone, rootVars, pmVars, workVars, sysVars
<1>16. ASSUME NEW d \in Devices, Event(d)
       PROVE  Users' = Users /\ UNCHANGED pmVars
  BY <1>16 DEF Event, rootVars, pmVars, sysVars
<1>17. ASSUME NEW d \in Devices, Hijack(d)
       PROVE  Users' = Users /\ UNCHANGED pmVars
  BY <1>17
<1>18. ASSUME NEW d \in Devices, ProbeDone(d)
       PROVE  Users' = Users /\ UNCHANGED pmVars
  BY <1>18 DEF ProbeDone, rootVars, pmVars, sysVars
<1>19. ASSUME NEW d \in Devices, ProbeFails(d)
       PROVE  Users' = Users /\ UNCHANGED pmVars
  BY <1>19
<1>20. ASSUME NEW d \in Devices, RemoveDone(d)
       PROVE  Users' = Users /\ UNCHANGED pmVars
  BY <1>20
<1>21. ASSUME NEW d \in Devices, WalkAdd(d)
       PROVE  Users' = Users /\ UNCHANGED pmVars
  BY <1>21 DEF WalkAdd, Still, AddDevice, Probed, pmVars, workVars, sysVars
<1>22. ASSUME NEW d \in Devices, WalkRemove(d)
       PROVE  Users' = Users /\ UNCHANGED pmVars
  BY <1>22 DEF WalkRemove, Still, RemoveDevice, pmVars, sysVars
<1>23. ASSUME NEW d \in Devices, RefreshStart(d)
       PROVE  Users' = Users /\ UNCHANGED pmVars
  BY <1>23 DEF RefreshStart, rootVars, pmVars, sysVars
<1>24. ASSUME NEW d \in Devices, RefreshEnd(d)
       PROVE  Users' = Users /\ UNCHANGED pmVars
  BY <1>24 DEF RefreshEnd, rootVars, pmVars, sysVars
<1>25. ASSUME NEW d \in Devices, SuspendDevice(d)
       PROVE  Users' = Users /\ UNCHANGED pmVars
  BY <1>25 DEF SuspendDevice, rootVars, pmVars, workVars
<1>26. ASSUME NEW d \in Devices, ResumeDevice(d)
       PROVE  Users' = Users /\ UNCHANGED pmVars
  BY <1>26 DEF ResumeDevice, rootVars, pmVars, workVars
<1>27. CASE UNCHANGED vars
  BY <1>27 DEF vars, rootVars, pmVars, workVars, sysVars
<1>28. QED
  BY <1>1, <1>2, <1>3, <1>4, <1>5, <1>6, <1>7, <1>8, <1>9, <1>10, <1>11,
     <1>12, <1>13, <1>14, <1>15, <1>16, <1>17, <1>18, <1>19, <1>20, <1>21,
     <1>22, <1>23, <1>24, <1>25, <1>26, <1>27 DEF Next, Begin, GoOn, End

(* Every step keeps CountInv. *)
LEMMA CountStep ==
    ASSUME TypeOK, CountInv, [Next]_vars
    PROVE  CountInv'
<1>1. ASSUME NEW d \in Devices, Hijack(d)
      PROVE  CountInv'
  <2>1. d \notin Users /\ idev' = [idev EXCEPT ![d] = "open"] /\ blind' = blind
    BY <1>1 DEF Hijack, Users
  <2>2. Cardinality(Users') = Cardinality(Users) + 1
    BY <2>1, UserJoins
  <2>3. refcnt' = refcnt + 1 /\ pmReal' # "none"
    BY <1>1, UsersCount DEF Hijack, CountInv, TypeOK
  <2>4. QED
    BY <2>1, <2>2, <2>3, UsersCount DEF CountInv, TypeOK
<1>2. ASSUME NEW d \in Devices, ProbeFails(d)
      PROVE  CountInv'
  <2>1. /\ d \in Users /\ idev' = [idev EXCEPT ![d] = "failed"]
        /\ refcnt' = refcnt - 1 /\ UNCHANGED <<blind, pmReal>>
    BY <1>2 DEF ProbeFails, Restore, Users
  <2>2. /\ Cardinality(Users') = Cardinality(Users) - 1
        /\ Cardinality(Users) \in Nat /\ Cardinality(Users') \in Nat
    BY <2>1, UserLeaves, UsersCount
  <2>3. QED
    BY <2>1, <2>2 DEF CountInv, TypeOK
<1>3. ASSUME NEW d \in Devices, RemoveDone(d)
      PROVE  CountInv'
  <2>1. /\ d \in Users /\ UNCHANGED pmReal
        /\ \E rest \in {"none", "failed"} : idev' = [idev EXCEPT ![d] = rest]
    BY <1>3 DEF RemoveDone, Restore, Users, pmVars
  <2>2. /\ Cardinality(Users') = Cardinality(Users) - 1
        /\ Cardinality(Users) \in Nat /\ Cardinality(Users') \in Nat
    BY <2>1, UserLeaves, UsersCount
  <2>3. CASE d \in blind
    BY <1>3, <2>1, <2>2, <2>3 DEF RemoveDone, pmVars, CountInv, TypeOK
  <2>4. CASE d \notin blind
    <3>1. refcnt' = refcnt - 1 /\ blind' = blind \ {d}
      BY <1>3, <2>4 DEF RemoveDone, Restore
    <3>2. QED
      BY <2>1, <2>2, <3>1 DEF CountInv, TypeOK
  <2>5. QED
    BY <2>3, <2>4
<1>4. CASE \A d \in Devices : ~(Hijack(d) \/ ProbeFails(d) \/ RemoveDone(d))
  <2>1. Users' = Users /\ UNCHANGED <<refcnt, pm, pmReal>>
    BY <1>4, OthersKeepPm DEF pmVars
  <2>2. "unwatched" \notin Races /\ blind = {} => blind' = {}
    BY <1>4 DEF Next, Begin, End, GoOn, vars, GlueLoad, GlueUnload,
       GlueUnloaded, IpaReady, Stop, WalkDone, RootProbe, Freeze, Frozen,
       WakeUp, Thaw, BindStart, BindDone, UnbindStart, UnbindDone, Event,
       ProbeDone, WalkAdd, WalkRemove, RefreshStart, RefreshEnd,
       SuspendDevice, ResumeDevice
  <2>3. QED
    BY <2>1, <2>2 DEF CountInv
<1>5. QED
  BY <1>1, <1>2, <1>3, <1>4

(* The type invariant, and with it that the count of users never falls     *)
(* below zero, holds for any number of devices and in every order.         *)
THEOREM BusTypes == Spec => [](TypeOK /\ CountInv)
<1>1. Init => TypeOK
  BY DEF Init, TypeOK, Resting
<1>2. Init => CountInv
  <2>1. Init => Users = {}
    BY DEF Init, Users
  <2>2. QED
    BY <2>1, UsersCount DEF Init, CountInv
<1>3. TypeOK /\ CountInv /\ [Next]_vars => TypeOK' /\ CountInv'
  BY BusTypesStep, CountStep
<1>4. QED
  BY <1>1, <1>2, <1>3, PTL DEF Spec

(* Without the glue driver no idev is with it: what a step makes of that.  *)
LEMMA GlueStep ==
    ASSUME TypeOK, GlueInv, [Next]_vars
    PROVE  GlueInv'
<1> USE DEF TypeOK, Resting, Moving, Users, GlueInv
<1>1. CASE GlueLoad
  BY <1>1 DEF GlueLoad, rootVars, pmVars, workVars, sysVars
<1>2. CASE GlueUnload
  BY <1>2 DEF GlueUnload, Still, rootVars, pmVars, sysVars
<1>3. CASE GlueUnloaded
  BY <1>3 DEF GlueUnloaded, Still, rootVars, pmVars, workVars, sysVars
<1>4. CASE IpaReady
  BY <1>4 DEF IpaReady, pmVars, workVars, sysVars
<1>5. CASE Stop
  BY <1>5 DEF Stop, Still, pmVars, workVars, sysVars
<1>6. CASE WalkDone
  BY <1>6 DEF WalkDone, Still, pmVars, workVars, sysVars
<1>7. CASE RootProbe
  BY <1>7 DEF RootProbe, pmVars, workVars, sysVars
<1>8. CASE Freeze
  BY <1>8 DEF Freeze, Still, rootVars, pmVars, workVars
<1>9. CASE Frozen
  BY <1>9 DEF Frozen, rootVars, pmVars, workVars
<1>10. CASE WakeUp
  BY <1>10 DEF WakeUp, rootVars, pmVars, workVars
<1>11. CASE Thaw
  BY <1>11 DEF Thaw, rootVars, pmVars, workVars
<1>12. ASSUME NEW d \in Devices, BindStart(d)
       PROVE  GlueInv'
  BY <1>12 DEF BindStart, rootVars, pmVars, workVars, sysVars
<1>13. ASSUME NEW d \in Devices, BindDone(d)
       PROVE  GlueInv'
  BY <1>13 DEF BindDone, AddDevice, Probed, rootVars, pmVars, workVars,
     sysVars
<1>14. ASSUME NEW d \in Devices, UnbindStart(d)
       PROVE  GlueInv'
  BY <1>14 DEF UnbindStart, RemoveDevice, rootVars, pmVars, sysVars
<1>15. ASSUME NEW d \in Devices, UnbindDone(d)
       PROVE  GlueInv'
  BY <1>15 DEF UnbindDone, rootVars, pmVars, workVars, sysVars
<1>16. ASSUME NEW d \in Devices, Event(d)
       PROVE  GlueInv'
  BY <1>16 DEF Event, rootVars, pmVars, sysVars
<1>17. ASSUME NEW d \in Devices, Hijack(d)
       PROVE  GlueInv'
  BY <1>17 DEF Hijack, rootVars, workVars, sysVars
<1>18. ASSUME NEW d \in Devices, ProbeDone(d)
       PROVE  GlueInv'
  BY <1>18 DEF ProbeDone, rootVars, pmVars, sysVars
<1>19. ASSUME NEW d \in Devices, ProbeFails(d)
       PROVE  GlueInv'
  BY <1>19 DEF ProbeFails, Restore, rootVars, workVars, sysVars
<1>20. ASSUME NEW d \in Devices, RemoveDone(d)
       PROVE  GlueInv'
  BY <1>20 DEF RemoveDone, Restore, rootVars, pmVars, workVars, sysVars
<1>21. ASSUME NEW d \in Devices, WalkAdd(d)
       PROVE  GlueInv'
  BY <1>21 DEF WalkAdd, Still, AddDevice, Probed, pmVars, workVars, sysVars
<1>22. ASSUME NEW d \in Devices, WalkRemove(d)
       PROVE  GlueInv'
  BY <1>22 DEF WalkRemove, Still, RemoveDevice, pmVars, sysVars
<1>23. ASSUME NEW d \in Devices, RefreshStart(d)
       PROVE  GlueInv'
  BY <1>23 DEF RefreshStart, rootVars, pmVars, sysVars
<1>24. ASSUME NEW d \in Devices, RefreshEnd(d)
       PROVE  GlueInv'
  BY <1>24 DEF RefreshEnd, rootVars, pmVars, sysVars
<1>25. ASSUME NEW d \in Devices, SuspendDevice(d)
       PROVE  GlueInv'
  BY <1>25 DEF SuspendDevice, rootVars, pmVars, workVars
<1>26. ASSUME NEW d \in Devices, ResumeDevice(d)
       PROVE  GlueInv'
  BY <1>26 DEF ResumeDevice, rootVars, pmVars, workVars
<1>27. CASE UNCHANGED vars
  BY <1>27 DEF vars, rootVars, pmVars, workVars, sysVars
<1>28. QED
  BY <1>1, <1>2, <1>3, <1>4, <1>5, <1>6, <1>7, <1>8, <1>9, <1>10, <1>11,
     <1>12, <1>13, <1>14, <1>15, <1>16, <1>17, <1>18, <1>19, <1>20, <1>21,
     <1>22, <1>23, <1>24, <1>25, <1>26, <1>27 DEF Next, Begin, GoOn, End

(* Every step keeps PmInv when every idev is watched. *)
LEMMA PmStep ==
    ASSUME TypeOK, CountInv, PmInv, [Next]_vars, "unwatched" \notin Races
    PROVE  PmInv'
<1>1. ASSUME NEW d \in Devices, Hijack(d)
      PROVE  PmInv'
  <2>1. d \notin Users /\ idev' = [idev EXCEPT ![d] = "open"]
    BY <1>1 DEF Hijack, Users
  <2>2. Users' = Users \cup {d}
    BY <2>1, UserJoins
  <2>3. refcnt = 0 <=> Users = {}
    BY UsersCount DEF CountInv
  <2>4. QED
    BY <1>1, <2>2, <2>3 DEF Hijack, PmInv, TypeOK
<1>2. ASSUME NEW d \in Devices, ProbeFails(d) \/ RemoveDone(d)
      PROVE  PmInv'
  <2>1. /\ d \in Users /\ Restore
        /\ \E rest \in {"none", "failed"} : idev' = [idev EXCEPT ![d] = rest]
    BY <1>2 DEF ProbeFails, RemoveDone, Users, CountInv
  <2>2. Users' = Users \ {d}
    BY <2>1, UserLeaves
  <2>3. CASE refcnt = 1
    <3>1. Users' = {}
      BY <2>1, <2>2, <2>3, UsersCount DEF CountInv
    <3>2. QED
      BY <2>1, <2>3, <3>1 DEF Restore, PmInv
  <2>4. CASE refcnt # 1
    <3>1. Users' # {}
      <4>1. Users = {d} => Cardinality(Users) = 1
        BY FS_Singleton
      <4>2. QED
        BY <2>1, <2>2, <2>4, <4>1 DEF CountInv
    <3>2. QED
      BY <2>1, <2>4, <3>1 DEF Restore, PmInv
  <2>5. QED
    BY <2>3, <2>4
<1>3. CASE \A d \in Devices : ~(Hijack(d) \/ ProbeFails(d) \/ RemoveDone(d))
  BY <1>3, OthersKeepPm DEF pmVars, PmInv
<1>4. QED
  BY <1>1, <1>2, <1>3

(* However devices are bound and unbound, probes fail, and the glue module *)
(* comes and goes, the PM callbacks of the PCI driver are hijacked exactly *)
(* while an idev uses them, never twice, and given back, for any number of *)
(* devices, as long as every wakeup source can be registered.              *)
THEOREM PmOpsAreSane ==
    ASSUME "unwatched" \notin Races
    PROVE  Spec => []PmOpsSane
<1>1. Init => GlueInv /\ PmInv
  BY DEF Init, GlueInv, PmInv, Users
<1>2. TypeOK /\ CountInv /\ GlueInv /\ PmInv /\ [Next]_vars
          => GlueInv' /\ PmInv'
  BY GlueStep, PmStep
<1>3. CountInv /\ GlueInv /\ PmInv => PmOpsSane
  BY DEF CountInv, GlueInv, PmInv, PmOpsSane
<1>4. QED
  BY <1>1, <1>2, <1>3, BusTypes, PTL DEF Spec

(* Every step keeps SleepInv: what could change whether a device is        *)
(* offloaded, or who handles its PM callbacks, does not run while it       *)
(* sleeps.                                                                 *)
LEMMA SleepStep ==
    ASSUME TypeOK, SleepInv, [Next]_vars
    PROVE  SleepInv'
<1> USE DEF TypeOK, Resting, Moving, SleepInv, Still, Handler, Awake
<1>1. CASE GlueLoad
  BY <1>1 DEF GlueLoad, rootVars, pmVars, workVars, sysVars
<1>2. CASE GlueUnload
  BY <1>2 DEF GlueUnload, Still, rootVars, pmVars, sysVars
<1>3. CASE GlueUnloaded
  BY <1>3 DEF GlueUnloaded, Still, rootVars, pmVars, workVars, sysVars
<1>4. CASE IpaReady
  BY <1>4 DEF IpaReady, pmVars, workVars, sysVars
<1>5. CASE Stop
  BY <1>5 DEF Stop, Still, pmVars, workVars, sysVars
<1>6. CASE WalkDone
  BY <1>6 DEF WalkDone, Still, pmVars, workVars, sysVars
<1>7. CASE RootProbe
  BY <1>7 DEF RootProbe, pmVars, workVars, sysVars
<1>8. CASE Freeze
  BY <1>8 DEF Freeze, Still, rootVars, pmVars, workVars
<1>9. CASE Frozen
  BY <1>9 DEF Frozen, rootVars, pmVars, workVars
<1>10. CASE WakeUp
  BY <1>10 DEF WakeUp, rootVars, pmVars, workVars
<1>11. CASE Thaw
  BY <1>11 DEF Thaw, rootVars, pmVars, workVars
<1>12. ASSUME NEW d \in Devices, BindStart(d)
       PROVE  SleepInv'
  BY <1>12 DEF BindStart, rootVars, pmVars, workVars, sysVars
<1>13. ASSUME NEW d \in Devices, BindDone(d)
       PROVE  SleepInv'
  BY <1>13 DEF BindDone, AddDevice, Probed, rootVars, pmVars, workVars,
     sysVars
<1>14. ASSUME NEW d \in Devices, UnbindStart(d)
       PROVE  SleepInv'
  BY <1>14 DEF UnbindStart, RemoveDevice, rootVars, pmVars, sysVars
<1>15. ASSUME NEW d \in Devices, UnbindDone(d)
       PROVE  SleepInv'
  BY <1>15 DEF UnbindDone, rootVars, pmVars, workVars, sysVars
<1>16. ASSUME NEW d \in Devices, Event(d)
       PROVE  SleepInv'
  BY <1>16 DEF Event, rootVars, pmVars, sysVars
<1>17. ASSUME NEW d \in Devices, Hijack(d)
       PROVE  SleepInv'
  BY <1>17 DEF Hijack, rootVars, workVars, sysVars
<1>18. ASSUME NEW d \in Devices, ProbeDone(d)
       PROVE  SleepInv'
  BY <1>18 DEF ProbeDone, rootVars, pmVars, sysVars
<1>19. ASSUME NEW d \in Devices, ProbeFails(d)
       PROVE  SleepInv'
  BY <1>19 DEF ProbeFails, Restore, rootVars, workVars, sysVars
<1>20. ASSUME NEW d \in Devices, RemoveDone(d)
       PROVE  SleepInv'
  BY <1>20 DEF RemoveDone, Restore, rootVars, pmVars, workVars, sysVars
<1>21. ASSUME NEW d \in Devices, WalkAdd(d)
       PROVE  SleepInv'
  BY <1>21 DEF WalkAdd, Still, AddDevice, Probed, pmVars, workVars, sysVars
<1>22. ASSUME NEW d \in Devices, WalkRemove(d)
       PROVE  SleepInv'
  BY <1>22 DEF WalkRemove, Still, RemoveDevice, pmVars, sysVars
<1>23. ASSUME NEW d \in Devices, RefreshStart(d)
       PROVE  SleepInv'
  BY <1>23 DEF RefreshStart, rootVars, pmVars, sysVars
<1>24. ASSUME NEW d \in Devices, RefreshEnd(d)
       PROVE  SleepInv'
  BY <1>24 DEF RefreshEnd, rootVars, pmVars, sysVars
<1>25. ASSUME NEW d \in Devices, SuspendDevice(d)
       PROVE  SleepInv'
  BY <1>25 DEF SuspendDevice, rootVars, pmVars, workVars
<1>26. ASSUME NEW d \in Devices, ResumeDevice(d)
       PROVE  SleepInv'
  BY <1>26 DEF ResumeDevice, rootVars, pmVars, workVars
<1>27. CASE UNCHANGED vars
  BY <1>27 DEF vars, rootVars, pmVars, workVars, sysVars
<1>28. QED
  BY <1>1, <1>2, <1>3, <1>4, <1>5, <1>6, <1>7, <1>8, <1>9, <1>10, <1>11,
     <1>12, <1>13, <1>14, <1>15, <1>16, <1>17, <1>18, <1>19, <1>20, <1>21,
     <1>22, <1>23, <1>24, <1>25, <1>26, <1>27 DEF Next, Begin, GoOn, End

(* Every step keeps RefreshInv. *)
LEMMA RefreshStep ==
    ASSUME TypeOK, RefreshInv, [Next]_vars
    PROVE  RefreshInv'
<1> USE DEF TypeOK, Resting, Moving, RefreshInv
<1>1. CASE GlueLoad
  BY <1>1 DEF GlueLoad, rootVars, pmVars, workVars, sysVars
<1>2. CASE GlueUnload
  BY <1>2 DEF GlueUnload, Still, rootVars, pmVars, sysVars
<1>3. CASE GlueUnloaded
  BY <1>3 DEF GlueUnloaded, Still, rootVars, pmVars, workVars, sysVars
<1>4. CASE IpaReady
  BY <1>4 DEF IpaReady, pmVars, workVars, sysVars
<1>5. CASE Stop
  BY <1>5 DEF Stop, Still, pmVars, workVars, sysVars
<1>6. CASE WalkDone
  BY <1>6 DEF WalkDone, Still, pmVars, workVars, sysVars
<1>7. CASE RootProbe
  BY <1>7 DEF RootProbe, pmVars, workVars, sysVars
<1>8. CASE Freeze
  BY <1>8 DEF Freeze, Still, rootVars, pmVars, workVars
<1>9. CASE Frozen
  BY <1>9 DEF Frozen, rootVars, pmVars, workVars
<1>10. CASE WakeUp
  BY <1>10 DEF WakeUp, rootVars, pmVars, workVars
<1>11. CASE Thaw
  BY <1>11 DEF Thaw, rootVars, pmVars, workVars
<1>12. ASSUME NEW d \in Devices, BindStart(d)
       PROVE  RefreshInv'
  BY <1>12 DEF BindStart, rootVars, pmVars, workVars, sysVars
<1>13. ASSUME NEW d \in Devices, BindDone(d)
       PROVE  RefreshInv'
  BY <1>13 DEF BindDone, AddDevice, Probed, rootVars, pmVars, workVars,
     sysVars
<1>14. ASSUME NEW d \in Devices, UnbindStart(d)
       PROVE  RefreshInv'
  BY <1>14 DEF UnbindStart, RemoveDevice, rootVars, pmVars, sysVars
<1>15. ASSUME NEW d \in Devices, UnbindDone(d)
       PROVE  RefreshInv'
  BY <1>15 DEF UnbindDone, rootVars, pmVars, workVars, sysVars
<1>16. ASSUME NEW d \in Devices, Event(d)
       PROVE  RefreshInv'
  BY <1>16 DEF Event, rootVars, pmVars, sysVars
<1>17. ASSUME NEW d \in Devices, Hijack(d)
       PROVE  RefreshInv'
  BY <1>17 DEF Hijack, rootVars, workVars, sysVars
<1>18. ASSUME NEW d \in Devices, ProbeDone(d)
       PROVE  RefreshInv'
  BY <1>18 DEF ProbeDone, rootVars, pmVars, sysVars
<1>19. ASSUME NEW d \in Devices, ProbeFails(d)
       PROVE  RefreshInv'
  BY <1>19 DEF ProbeFails, Restore, rootVars, workVars, sysVars
<1>20. ASSUME NEW d \in Devices, RemoveDone(d)
       PROVE  RefreshInv'
  BY <1>20 DEF RemoveDone, Restore, rootVars, pmVars, workVars, sysVars
<1>21. ASSUME NEW d \in Devices, WalkAdd(d)
       PROVE  RefreshInv'
  BY <1>21 DEF WalkAdd, Still, AddDevice, Probed, pmVars, workVars, sysVars
<1>22. ASSUME NEW d \in Devices, WalkRemove(d)
       PROVE  RefreshInv'
  BY <1>22 DEF WalkRemove, Still, RemoveDevice, pmVars, sysVars
<1>23. ASSUME NEW d \in Devices, RefreshStart(d)
       PROVE  RefreshInv'
  BY <1>23 DEF RefreshStart, rootVars, pmVars, sysVars
<1>24. ASSUME NEW d \in Devices, RefreshEnd(d)
       PROVE  RefreshInv'
  BY <1>24 DEF RefreshEnd, rootVars, pmVars, sysVars
<1>25. ASSUME NEW d \in Devices, SuspendDevice(d)
       PROVE  RefreshInv'
  BY <1>25 DEF SuspendDevice, rootVars, pmVars, workVars
<1>26. ASSUME NEW d \in Devices, ResumeDevice(d)
       PROVE  RefreshInv'
  BY <1>26 DEF ResumeDevice, rootVars, pmVars, workVars
<1>27. CASE UNCHANGED vars
  BY <1>27 DEF vars, rootVars, pmVars, workVars, sysVars
<1>28. QED
  BY <1>1, <1>2, <1>3, <1>4, <1>5, <1>6, <1>7, <1>8, <1>9, <1>10, <1>11,
     <1>12, <1>13, <1>14, <1>15, <1>16, <1>17, <1>18, <1>19, <1>20, <1>21,
     <1>22, <1>23, <1>24, <1>25, <1>26, <1>27 DEF Next, Begin, GoOn, End

(* Every step keeps StopInv when no device is met before its driver is    *)
(* bound, or unbound during the stop.                                      *)
LEMMA StopStep ==
    ASSUME TypeOK, StopInv, [Next]_vars, Races \cap {"early", "stop"} = {}
    PROVE  StopInv'
<1> USE DEF TypeOK, Resting, Moving, StopInv, Notified
<1>1. CASE GlueLoad
  BY <1>1 DEF GlueLoad, rootVars, pmVars, workVars, sysVars
<1>2. CASE GlueUnload
  BY <1>2 DEF GlueUnload, Still, rootVars, pmVars, sysVars
<1>3. CASE GlueUnloaded
  BY <1>3 DEF GlueUnloaded, Still, rootVars, pmVars, workVars, sysVars
<1>4. CASE IpaReady
  BY <1>4 DEF IpaReady, pmVars, workVars, sysVars
<1>5. CASE Stop
  BY <1>5 DEF Stop, Still, pmVars, workVars, sysVars
<1>6. CASE WalkDone
  BY <1>6 DEF WalkDone, Still, pmVars, workVars, sysVars
<1>7. CASE RootProbe
  BY <1>7 DEF RootProbe, pmVars, workVars, sysVars
<1>8. CASE Freeze
  BY <1>8 DEF Freeze, Still, rootVars, pmVars, workVars
<1>9. CASE Frozen
  BY <1>9 DEF Frozen, rootVars, pmVars, workVars
<1>10. CASE WakeUp
  BY <1>10 DEF WakeUp, rootVars, pmVars, workVars
<1>11. CASE Thaw
  BY <1>11 DEF Thaw, rootVars, pmVars, workVars
<1>12. ASSUME NEW d \in Devices, BindStart(d)
       PROVE  StopInv'
  BY <1>12 DEF BindStart, rootVars, pmVars, workVars, sysVars
<1>13. ASSUME NEW d \in Devices, BindDone(d)
       PROVE  StopInv'
  BY <1>13 DEF BindDone, AddDevice, Probed, rootVars, pmVars, workVars,
     sysVars
<1>14. ASSUME NEW d \in Devices, UnbindStart(d)
       PROVE  StopInv'
  BY <1>14 DEF UnbindStart, RemoveDevice, rootVars, pmVars, sysVars
<1>15. ASSUME NEW d \in Devices, UnbindDone(d)
       PROVE  StopInv'
  BY <1>15 DEF UnbindDone, rootVars, pmVars, workVars, sysVars
<1>16. ASSUME NEW d \in Devices, Event(d)
       PROVE  StopInv'
  BY <1>16 DEF Event, rootVars, pmVars, sysVars
<1>17. ASSUME NEW d \in Devices, Hijack(d)
       PROVE  StopInv'
  BY <1>17 DEF Hijack, rootVars, workVars, sysVars
<1>18. ASSUME NEW d \in Devices, ProbeDone(d)
       PROVE  StopInv'
  BY <1>18 DEF ProbeDone, rootVars, pmVars, sysVars
<1>19. ASSUME NEW d \in Devices, ProbeFails(d)
       PROVE  StopInv'
  BY <1>19 DEF ProbeFails, Restore, rootVars, workVars, sysVars
<1>20. ASSUME NEW d \in Devices, RemoveDone(d)
       PROVE  StopInv'
  BY <1>20 DEF RemoveDone, Restore, rootVars, pmVars, workVars, sysVars
<1>21. ASSUME NEW d \in Devices, WalkAdd(d)
       PROVE  StopInv'
  BY <1>21 DEF WalkAdd, Still, AddDevice, Probed, pmVars, workVars, sysVars
<1>22. ASSUME NEW d \in Devices, WalkRemove(d)
       PROVE  StopInv'
  BY <1>22 DEF WalkRemove, Still, RemoveDevice, pmVars, sysVars
<1>23. ASSUME NEW d \in Devices, RefreshStart(d)
       PROVE  StopInv'
  BY <1>23 DEF RefreshStart, rootVars, pmVars, sysVars
<1>24. ASSUME NEW d \in Devices, RefreshEnd(d)
       PROVE  StopInv'
  BY <1>24 DEF RefreshEnd, rootVars, pmVars, sysVars
<1>25. ASSUME NEW d \in Devices, SuspendDevice(d)
       PROVE  StopInv'
  BY <1>25 DEF SuspendDevice, rootVars, pmVars, workVars
<1>26. ASSUME NEW d \in Devices, ResumeDevice(d)
       PROVE  StopInv'
  BY <1>26 DEF ResumeDevice, rootVars, pmVars, workVars
<1>27. CASE UNCHANGED vars
  BY <1>27 DEF vars, rootVars, pmVars, workVars, sysVars
<1>28. QED
  BY <1>1, <1>2, <1>3, <1>4, <1>5, <1>6, <1>7, <1>8, <1>9, <1>10, <1>11,
     <1>12, <1>13, <1>14, <1>15, <1>16, <1>17, <1>18, <1>19, <1>20, <1>21,
     <1>22, <1>23, <1>24, <1>25, <1>26, <1>27 DEF Next, Begin, GoOn, End

(* Every device is resumed by the callback that suspended it, for any      *)
(* number of devices and in every order.                                   *)
THEOREM SuspendIsPaired == Spec => []SuspendPaired
<1>1. Init => SleepInv
  BY DEF Init, SleepInv
<1>2. TypeOK /\ SleepInv /\ [Next]_vars => SleepInv'
  BY SleepStep
<1>3. SleepInv => SuspendPaired
  BY DEF SleepInv, SuspendPaired
<1>4. QED
  BY <1>1, <1>2, <1>3, BusTypes, PTL DEF Spec

(* When ioss_remove has returned nothing of the subsystem is left, for any *)
(* number of devices.                                                      *)
THEOREM StopLeavesNothing ==
    ASSUME Races = {}
    PROVE  Spec => []StoppedIsClean
<1>1. Init => RefreshInv /\ StopInv
  BY DEF Init, RefreshInv, StopInv
<1>2. TypeOK /\ RefreshInv /\ StopInv /\ [Next]_vars => RefreshInv' /\ StopInv'
  BY RefreshStep, StopStep
<1>3. TypeOK /\ PmOpsSane /\ RefreshInv /\ StopInv => StoppedIsClean
  <2> SUFFICES ASSUME TypeOK, PmOpsSane, RefreshInv, StopInv, root = "gone"
               PROVE  /\ \A d \in Devices : idev[d] = "none"
                      /\ queued = {} /\ work = {} /\ online = {}
                      /\ pm = "real"
    BY DEF StoppedIsClean
  <2>1. \A d \in Devices : idev[d] = "none"
    BY DEF StopInv
  <2>2. \A d \in Devices : d \notin queued \cup work \cup online
    BY <2>1 DEF RefreshInv
  <2>3. queued = {} /\ work = {} /\ online = {}
    BY <2>2 DEF TypeOK
  <2>4. Users = {}
    BY <2>1 DEF Users
  <2>5. pm = "real"
    BY <2>4 DEF PmOpsSane, TypeOK
  <2>6. QED
    BY <2>1, <2>3, <2>5
<1>4. Spec => []PmOpsSane
  BY PmOpsAreSane
<1>5. QED
  BY <1>1, <1>2, <1>3, <1>4, BusTypes, PTL DEF Spec
============================================================================
