--------------------------- MODULE R8125NetProofs ---------------------------
(***************************************************************************)
(* Theorems about the life cycle of the network device.                    *)
(***************************************************************************)
EXTENDS R8125Net, TLAPS

LEMMA NetTypes == Spec => []TypeOK
<1>1. Init => TypeOK
  BY DEF Init, TypeOK, Threads, Steps
<1>2. ASSUME TypeOK, [Next]_vars
      PROVE  TypeOK'
  <2> USE <1>2 DEF TypeOK, Threads, Steps, Works, Goto
  <2>1. CASE IfUp
    BY <2>1 DEF IfUp, workVars, chipVars
  <2>1a. CASE IfDown
    BY <2>1a DEF IfDown, workVars, chipVars
  <2>1b. CASE MtuChange
    BY <2>1b DEF MtuChange, workVars, chipVars
  <2>2. CASE Suspend
    BY <2>2 DEF Suspend
  <2>3. CASE Resume
    <3>1. keep' \in BOOLEAN /\ isr' \in BOOLEAN
      BY <2>3 DEF Resume
    <3>2. /\ flags' \subseteq Works \cup {"down", "found"} /\ queued' \subseteq Works
          /\ chip' \in {"off", "reset", "on"}
      BY <2>3 DEF Resume
    <3>3. QED
      BY <2>3, <3>1, <3>2 DEF Resume
  <2>4. CASE Remove
    <3>1. /\ flags' \subseteq Works \cup {"down", "found"} /\ queued' \subseteq Works
          /\ op' \in [Threads -> Steps]
          /\ device' \in {"awake", "asleep", "removing", "gone"}
      BY <2>4 DEF Remove
    <3>2. running' \in BOOLEAN
      BY <2>4 DEF Remove
    <3>3. QED
      BY <2>4, <3>1, <3>2 DEF Remove, chipVars
  <2>5. ASSUME NEW t \in Threads, LibRestart(t)
        PROVE  TypeOK'
    <3>1. /\ imr' \subseteq {"link", "data"} /\ op' \in [Threads -> Steps]
          /\ restart' \subseteq Threads
      BY <2>5 DEF LibRestart
    <3>2. QED
      BY <2>5, <3>1 DEF LibRestart, workVars
  <2>5a. ASSUME NEW t \in Threads, LibEnable(t)
         PROVE  TypeOK'
    BY <2>5a DEF LibEnable, workVars, chipVars
  <2>5b. ASSUME NEW t \in Threads, LibNapi(t)
         PROVE  TypeOK'
    BY <2>5b DEF LibNapi, NapiDisable, workVars
  <2>5c. ASSUME NEW t \in Threads, LibStarted(t)
         PROVE  TypeOK'
    BY <2>5c DEF LibStarted, workVars
  <2>5d. ASSUME NEW t \in Threads, LibDisable(t)
         PROVE  TypeOK'
    BY <2>5d DEF LibDisable, workVars
  <2>6. ASSUME NEW t \in Threads, OpenDone(t)
        PROVE  TypeOK'
    BY <2>6 DEF OpenDone, LinkOn, SetSpeed
  <2>7. ASSUME NEW t \in Threads, OpenFails(t)
        PROVE  TypeOK'
    <3>1. running' = TRUE \/ running' = FALSE
      <4>1. CASE t \in restart
        BY <2>7, <4>1, Zenon DEF OpenFails
      <4>2. CASE t \notin restart
        BY <2>7, <4>2 DEF OpenFails
      <4>3. QED
        BY <4>1, <4>2
    <3>2. QED
      BY <2>7, <3>1 DEF OpenFails, workVars, chipVars
  <2>8. ASSUME NEW t \in Threads, Close(t)
        PROVE  TypeOK'
    <3>1. CASE ring = "none"
      BY <2>8, <3>1 DEF Close, Closed
    <3>2. CASE ring # "none"
      <4>1. /\ flags' = flags \cup {"down"}
            /\ op' = [op EXCEPT ![t] = "close_napi"]
            /\ UNCHANGED <<running, queued, keep, ring, napi, poll, imr, isr,
                           phy, carrier, restart, chip, device, lib>>
        BY <2>8, <3>2, Zenon DEF Close
      <4>2. QED
        BY <4>1
    <3>3. QED
      BY <3>1, <3>2
  <2>9. ASSUME NEW t \in Threads, CloseNapi(t)
        PROVE  TypeOK'
    BY <2>9 DEF CloseNapi, NapiDisable, workVars, chipVars
  <2>10. ASSUME NEW t \in Threads, CloseFree(t)
         PROVE  TypeOK'
    BY <2>10 DEF CloseFree, Closed, workVars
  <2>11. ASSUME NEW w \in Works, WorkSkipped(w)
         PROVE  TypeOK'
    BY <2>11 DEF WorkSkipped, Start, chipVars
  <2>12. CASE ResetStart
    BY <2>12 DEF ResetStart, Start, chipVars
  <2>12a. CASE LinkIsDown
    BY <2>12a DEF LinkIsDown, Start, chipVars
  <2>13. CASE ResetQuiesce
    BY <2>13 DEF ResetQuiesce, workVars
  <2>14. CASE ResetDone
    BY <2>14 DEF ResetDone, LinkOn, SetSpeed
  <2>15. CASE ResetRxStuck
    BY <2>15 DEF ResetRxStuck, Schedule
  <2>16. CASE LinkIsUp
    BY <2>16 DEF LinkIsUp, LinkOn, Start
  <2>17. CASE LinkDownPatch
    BY <2>17 DEF LinkDownPatch
  <2>18. CASE EsdCheck
    <3>1. isr' \in BOOLEAN /\ phy' \in {"up", "down"} /\ carrier' \in BOOLEAN
      BY <2>18 DEF EsdCheck, SetSpeed, chipVars
    <3>2. QED
      BY <2>18, <3>1 DEF EsdCheck, chipVars
  <2>19. CASE MtuNapi
    BY <2>19 DEF MtuNapi, NapiDisable, workVars
  <2>20. CASE MtuDone
    <3>1. isr' \in BOOLEAN /\ phy' \in {"up", "down"}
      BY <2>20 DEF MtuDone, SetSpeed
    <3>2. QED
      <4>1. /\ ring' \in {"none", "empty", "filled"} /\ napi' \in {"on", "off"}
            /\ imr' \subseteq {"link", "data"} /\ op' \in [Threads -> Steps]
        BY <2>20 DEF MtuDone
      <4>2. QED
        BY <2>20, <3>1, <4>1 DEF MtuDone, workVars
  <2>21. CASE TxTimeout
    BY <2>21 DEF TxTimeout, Schedule, chipVars
  <2>22. CASE PhyChange
    BY <2>22 DEF PhyChange, workVars
  <2>23. CASE LinkInterrupt
    <3>1. /\ flags' \subseteq Works \cup {"down", "found"} /\ queued' \subseteq Works
          /\ imr' \subseteq {"link", "data"}
      BY <2>23 DEF LinkInterrupt, Schedule
    <3>2. isr' \in BOOLEAN
      BY <2>23 DEF LinkInterrupt
    <3>3. UNCHANGED <<running, keep, ring, napi, poll, chip, phy, carrier, op,
                      restart, device, lib>>
      BY <2>23 DEF LinkInterrupt
    <3>4. QED
      BY <3>1, <3>2, <3>3
  <2>24. CASE PollStart
    BY <2>24 DEF PollStart, workVars
  <2>24a. CASE PollEnd
    BY <2>24a DEF PollEnd, workVars
  <2>25. CASE UNCHANGED vars
    BY <2>25 DEF vars, workVars, chipVars
  <2>26. QED
    BY <2>1, <2>1a, <2>1b, <2>2, <2>3, <2>4, <2>5, <2>5a,
       <2>5b, <2>5c, <2>5d, <2>6, <2>7, <2>8, <2>9, <2>10, <2>11, <2>12,
       <2>12a, <2>13, <2>14, <2>15, <2>16, <2>17, <2>18, <2>19, <2>20, <2>21,
       <2>22, <2>23, <2>24, <2>24a, <2>25 DEF Next, ThreadNext
<1>3. QED
  BY <1>1, <1>2, PTL DEF Spec

----------------------------------------------------------------------------
Closing == {"close", "close_napi", "close_free"}

(* The lock is held throughout: whoever closes to open again is the holder *)
(* of the lock, while the device runs; a device that does not run is left  *)
(* alone, is being closed, or the library waits for its NAPI.              *)
LockInv ==
    /\ op["lib"] = "none" /\ restart \subseteq {"rtnl"}
    /\ "rtnl" \in restart => running /\ op["rtnl"] \in Closing \cup {"open"}
    /\ running /\ op["rtnl"] \in Closing => "rtnl" \in restart
    /\ ~running => op["rtnl"] \in Closing \cup {"none", "lib_napi"}

(* NAPI is on only over rings, and off where they are made anew.           *)
RingInv ==
    /\ napi = "on" => ring # "none"
    /\ op["rtnl"] \in {"open", "close_free", "mtu", "lib_start"} => napi = "off"
    /\ ~running /\ op["rtnl"] \in {"none", "lib_napi"} => napi = "off"

(* A poll needs NAPI and a chip with power.                                *)
PollInv == poll = "runs" => napi = "on" /\ chip # "off"

(* A device that runs and is not being opened or changed has NAPI on.      *)
NapiInv ==
    /\ op["rtnl"] \in Disabling \cup {"reset", "link_down"} => napi = "on"
    /\ ring # "none" /\ op["rtnl"] \in {"none", "close"} => napi = "on"
    /\ running /\ Free => napi = "on"

(* No carrier without rings, no rings without a device that runs; the      *)
(* work is cancelled from the moment remove begins.                        *)
QuietInv ==
    /\ ring = "none" => ~carrier
    /\ running /\ op["rtnl"] # "open" => ring # "none"
    /\ \/ op["rtnl"] = "open"
       \/ ~running /\ op["rtnl"] \in {"none", "lib_napi"}
       => ring = "none"
    /\ device = "asleep" => Free /\ ~Opened
    /\ device \in {"removing", "gone"} => queued = {} /\ ~running
    /\ device = "removing" => op["rtnl"] \in Closing
    /\ device = "gone" => Free

(* The check is armed whenever the device is open, except while            *)
(* rtl8125_open, which arms it, is under way.                              *)
EsdInv ==
    /\ "found" \notin flags
    /\ Opened /\ (op["rtnl"] # "open" \/ "rtnl" \in restart)
          => "esd" \in queued \cap flags

(* Every step keeps LockInv when the library does not go on without the    *)
(* lock.                                                                   *)
LEMMA LockStep ==
    ASSUME TypeOK, LockInv, RingInv, [Next]_vars, "trylock" \notin Races
    PROVE  LockInv'
<1> USE DEF TypeOK, Threads, Steps, Goto, Free, Closing, LockInv
<1>1. CASE IfUp
  BY <1>1 DEF IfUp, workVars, chipVars
<1>2. CASE IfDown
  BY <1>2 DEF IfDown, workVars, chipVars
<1>3. CASE MtuChange
  BY <1>3 DEF MtuChange, workVars, chipVars
<1>4. CASE Suspend
  BY <1>4 DEF Suspend
<1>5. CASE Resume
  BY <1>5 DEF Resume
<1>6. CASE Remove
  BY <1>6 DEF Remove, chipVars
<1>7. ASSUME NEW t \in Threads, LibRestart(t)
      PROVE  LockInv'
  BY <1>7 DEF LibRestart, Library, workVars
<1>7a. ASSUME NEW t \in Threads, LibEnable(t)
       PROVE  LockInv'
  BY <1>7a DEF LibEnable, Library, workVars, chipVars
<1>7b. ASSUME NEW t \in Threads, LibNapi(t)
       PROVE  LockInv'
  BY <1>7b DEF LibNapi, NapiDisable, RingInv, workVars
<1>7c. ASSUME NEW t \in Threads, LibStarted(t)
       PROVE  LockInv'
  BY <1>7c DEF LibStarted, workVars
<1>7d. ASSUME NEW t \in Threads, LibDisable(t)
       PROVE  LockInv'
  BY <1>7d DEF LibDisable, Library, workVars
<1>8. ASSUME NEW t \in Threads, OpenDone(t)
      PROVE  LockInv'
  BY <1>8 DEF OpenDone, LinkOn, SetSpeed
<1>9. ASSUME NEW t \in Threads, OpenFails(t)
      PROVE  LockInv'
  BY <1>9 DEF OpenFails, workVars, chipVars
<1>10. ASSUME NEW t \in Threads, Close(t)
       PROVE  LockInv'
  BY <1>10 DEF Close, Closed
<1>11. ASSUME NEW t \in Threads, CloseNapi(t)
       PROVE  LockInv'
  BY <1>11 DEF CloseNapi, NapiDisable, workVars, chipVars
<1>12. ASSUME NEW t \in Threads, CloseFree(t)
       PROVE  LockInv'
  BY <1>12 DEF CloseFree, Closed, workVars
<1>13. ASSUME NEW w \in Works, WorkSkipped(w)
       PROVE  LockInv'
  BY <1>13 DEF WorkSkipped, Start, Pending, Opened, chipVars
<1>14. CASE ResetStart
  BY <1>14 DEF ResetStart, Start, Pending, Opened, chipVars
<1>15. CASE ResetQuiesce
  BY <1>15 DEF ResetQuiesce, workVars
<1>16. CASE ResetDone
  BY <1>16 DEF ResetDone, LinkOn, SetSpeed
<1>17. CASE ResetRxStuck
  BY <1>17 DEF ResetRxStuck, Schedule
<1>18. CASE LinkIsUp
  BY <1>18 DEF LinkIsUp, LinkOn, Start, Pending, Opened
<1>19. CASE LinkIsDown
  BY <1>19 DEF LinkIsDown, Start, Pending, Opened, chipVars
<1>20. CASE LinkDownPatch
  BY <1>20 DEF LinkDownPatch
<1>21. CASE EsdCheck
  BY <1>21 DEF EsdCheck, Pending, Opened, SetSpeed, chipVars
<1>22. CASE MtuNapi
  BY <1>22 DEF MtuNapi, NapiDisable, workVars
<1>23. CASE MtuDone
  BY <1>23 DEF MtuDone, SetSpeed, workVars
<1>24. CASE TxTimeout
  BY <1>24 DEF TxTimeout, Schedule, chipVars
<1>25. CASE PhyChange
  BY <1>25 DEF PhyChange, workVars
<1>26. CASE LinkInterrupt
  BY <1>26 DEF LinkInterrupt, Schedule
<1>27. CASE PollStart
  BY <1>27 DEF PollStart, workVars
<1>28. CASE PollEnd
  BY <1>28 DEF PollEnd, workVars
<1>29. CASE UNCHANGED vars
  BY <1>29 DEF vars, workVars, chipVars
<1>30. QED
  BY <1>1, <1>2, <1>3, <1>4, <1>5, <1>6, <1>7, <1>7a, <1>7b, <1>7c, <1>7d,
     <1>8, <1>9, <1>10, <1>11, <1>12, <1>13, <1>14, <1>15, <1>16, <1>17,
     <1>18, <1>19, <1>20, <1>21,
     <1>22, <1>23, <1>24, <1>25, <1>26, <1>27, <1>28, <1>29 DEF Next,
     ThreadNext

(* Every step keeps RingInv, whatever fails.                               *)
LEMMA RingStep ==
    ASSUME TypeOK, LockInv, RingInv, [Next]_vars,
           "trylock" \notin Races
    PROVE  RingInv'
<1> USE DEF TypeOK, Threads, Steps, Goto, Free, Closing, LockInv, RingInv
<1>1. CASE IfUp
  BY <1>1 DEF IfUp, workVars, chipVars
<1>2. CASE IfDown
  BY <1>2 DEF IfDown, workVars, chipVars
<1>3. CASE MtuChange
  BY <1>3 DEF MtuChange, workVars, chipVars
<1>4. CASE Suspend
  BY <1>4 DEF Suspend
<1>5. CASE Resume
  BY <1>5 DEF Resume
<1>6. CASE Remove
  BY <1>6 DEF Remove, chipVars
<1>7. ASSUME NEW t \in Threads, LibRestart(t)
      PROVE  RingInv'
  BY <1>7 DEF LibRestart, Library, workVars
<1>7a. ASSUME NEW t \in Threads, LibEnable(t)
       PROVE  RingInv'
  BY <1>7a DEF LibEnable, Library, workVars, chipVars
<1>7b. ASSUME NEW t \in Threads, LibNapi(t)
       PROVE  RingInv'
  BY <1>7b DEF LibNapi, NapiDisable, workVars
<1>7c. ASSUME NEW t \in Threads, LibStarted(t)
       PROVE  RingInv'
  BY <1>7c DEF LibStarted, workVars
<1>7d. ASSUME NEW t \in Threads, LibDisable(t)
       PROVE  RingInv'
  BY <1>7d DEF LibDisable, Library, workVars
<1>8. ASSUME NEW t \in Threads, OpenDone(t)
      PROVE  RingInv'
  BY <1>8 DEF OpenDone, LinkOn, SetSpeed
<1>9. ASSUME NEW t \in Threads, OpenFails(t)
      PROVE  RingInv'
  BY <1>9 DEF OpenFails, workVars, chipVars
<1>10. ASSUME NEW t \in Threads, Close(t)
       PROVE  RingInv'
  BY <1>10 DEF Close, Closed
<1>11. ASSUME NEW t \in Threads, CloseNapi(t)
       PROVE  RingInv'
  BY <1>11 DEF CloseNapi, NapiDisable, workVars, chipVars
<1>12. ASSUME NEW t \in Threads, CloseFree(t)
       PROVE  RingInv'
  BY <1>12 DEF CloseFree, Closed, workVars
<1>13. ASSUME NEW w \in Works, WorkSkipped(w)
       PROVE  RingInv'
  BY <1>13 DEF WorkSkipped, Start, Pending, Opened, chipVars
<1>14. CASE ResetStart
  BY <1>14 DEF ResetStart, Start, Pending, Opened, chipVars
<1>15. CASE ResetQuiesce
  BY <1>15 DEF ResetQuiesce, workVars
<1>16. CASE ResetDone
  BY <1>16 DEF ResetDone, LinkOn, SetSpeed
<1>17. CASE ResetRxStuck
  BY <1>17 DEF ResetRxStuck, Schedule
<1>18. CASE LinkIsUp
  BY <1>18 DEF LinkIsUp, LinkOn, Start, Pending, Opened
<1>19. CASE LinkIsDown
  BY <1>19 DEF LinkIsDown, Start, Pending, Opened, chipVars
<1>20. CASE LinkDownPatch
  BY <1>20 DEF LinkDownPatch
<1>21. CASE EsdCheck
  BY <1>21 DEF EsdCheck, Pending, Opened, SetSpeed, chipVars
<1>22. CASE MtuNapi
  BY <1>22 DEF MtuNapi, NapiDisable, workVars
<1>23. CASE MtuDone
  BY <1>23 DEF MtuDone, SetSpeed, workVars
<1>24. CASE TxTimeout
  BY <1>24 DEF TxTimeout, Schedule, chipVars
<1>25. CASE PhyChange
  BY <1>25 DEF PhyChange, workVars
<1>26. CASE LinkInterrupt
  BY <1>26 DEF LinkInterrupt, Schedule
<1>27. CASE PollStart
  BY <1>27 DEF PollStart, workVars
<1>28. CASE PollEnd
  BY <1>28 DEF PollEnd, workVars
<1>29. CASE UNCHANGED vars
  BY <1>29 DEF vars, workVars, chipVars
<1>30. QED
  BY <1>1, <1>2, <1>3, <1>4, <1>5, <1>6, <1>7, <1>7a, <1>7b, <1>7c, <1>7d,
     <1>8, <1>9, <1>10, <1>11, <1>12, <1>13, <1>14, <1>15, <1>16, <1>17,
     <1>18, <1>19, <1>20, <1>21,
     <1>22, <1>23, <1>24, <1>25, <1>26, <1>27, <1>28, <1>29 DEF Next,
     ThreadNext

(* Every step keeps PollInv, whatever fails, unless a poll is under way    *)
(* while the device is suspended.                                          *)
LEMMA PollStep ==
    ASSUME TypeOK, LockInv, RingInv, PollInv, [Next]_vars,
           "trylock" \notin Races, "poll" \notin Races
    PROVE  PollInv'
<1> USE DEF TypeOK, Threads, Steps, Goto, Free, Closing, LockInv, RingInv, PollInv
<1>1. CASE IfUp
  BY <1>1 DEF IfUp, workVars, chipVars
<1>2. CASE IfDown
  BY <1>2 DEF IfDown, workVars, chipVars
<1>3. CASE MtuChange
  BY <1>3 DEF MtuChange, workVars, chipVars
<1>4. CASE Suspend
  BY <1>4 DEF Suspend
<1>5. CASE Resume
  BY <1>5 DEF Resume
<1>6. CASE Remove
  BY <1>6 DEF Remove, chipVars
<1>7. ASSUME NEW t \in Threads, LibRestart(t)
      PROVE  PollInv'
  BY <1>7 DEF LibRestart, Library, workVars
<1>7a. ASSUME NEW t \in Threads, LibEnable(t)
       PROVE  PollInv'
  BY <1>7a DEF LibEnable, Library, workVars, chipVars
<1>7b. ASSUME NEW t \in Threads, LibNapi(t)
       PROVE  PollInv'
  BY <1>7b DEF LibNapi, NapiDisable, workVars
<1>7c. ASSUME NEW t \in Threads, LibStarted(t)
       PROVE  PollInv'
  BY <1>7c DEF LibStarted, workVars
<1>7d. ASSUME NEW t \in Threads, LibDisable(t)
       PROVE  PollInv'
  BY <1>7d DEF LibDisable, Library, workVars
<1>8. ASSUME NEW t \in Threads, OpenDone(t)
      PROVE  PollInv'
  BY <1>8 DEF OpenDone, LinkOn, SetSpeed
<1>9. ASSUME NEW t \in Threads, OpenFails(t)
      PROVE  PollInv'
  BY <1>9 DEF OpenFails, workVars, chipVars
<1>10. ASSUME NEW t \in Threads, Close(t)
       PROVE  PollInv'
  BY <1>10 DEF Close, Closed
<1>11. ASSUME NEW t \in Threads, CloseNapi(t)
       PROVE  PollInv'
  BY <1>11 DEF CloseNapi, NapiDisable, workVars, chipVars
<1>12. ASSUME NEW t \in Threads, CloseFree(t)
       PROVE  PollInv'
  BY <1>12 DEF CloseFree, Closed, workVars
<1>13. ASSUME NEW w \in Works, WorkSkipped(w)
       PROVE  PollInv'
  BY <1>13 DEF WorkSkipped, Start, Pending, Opened, chipVars
<1>14. CASE ResetStart
  BY <1>14 DEF ResetStart, Start, Pending, Opened, chipVars
<1>15. CASE ResetQuiesce
  BY <1>15 DEF ResetQuiesce, workVars
<1>16. CASE ResetDone
  BY <1>16 DEF ResetDone, LinkOn, SetSpeed
<1>17. CASE ResetRxStuck
  BY <1>17 DEF ResetRxStuck, Schedule
<1>18. CASE LinkIsUp
  BY <1>18 DEF LinkIsUp, LinkOn, Start, Pending, Opened
<1>19. CASE LinkIsDown
  BY <1>19 DEF LinkIsDown, Start, Pending, Opened, chipVars
<1>20. CASE LinkDownPatch
  BY <1>20 DEF LinkDownPatch
<1>21. CASE EsdCheck
  BY <1>21 DEF EsdCheck, Pending, Opened, SetSpeed, chipVars
<1>22. CASE MtuNapi
  BY <1>22 DEF MtuNapi, NapiDisable, workVars
<1>23. CASE MtuDone
  BY <1>23 DEF MtuDone, SetSpeed, workVars
<1>24. CASE TxTimeout
  BY <1>24 DEF TxTimeout, Schedule, chipVars
<1>25. CASE PhyChange
  BY <1>25 DEF PhyChange, workVars
<1>26. CASE LinkInterrupt
  BY <1>26 DEF LinkInterrupt, Schedule
<1>27. CASE PollStart
  BY <1>27 DEF PollStart, workVars
<1>28. CASE PollEnd
  BY <1>28 DEF PollEnd, workVars
<1>29. CASE UNCHANGED vars
  BY <1>29 DEF vars, workVars, chipVars
<1>30. QED
  BY <1>1, <1>2, <1>3, <1>4, <1>5, <1>6, <1>7, <1>7a, <1>7b, <1>7c, <1>7d,
     <1>8, <1>9, <1>10, <1>11, <1>12, <1>13, <1>14, <1>15, <1>16, <1>17,
     <1>18, <1>19, <1>20, <1>21,
     <1>22, <1>23, <1>24, <1>25, <1>26, <1>27, <1>28, <1>29 DEF Next,
     ThreadNext

(* Every step keeps NapiInv when there is memory for a restart and for a   *)
(* change of MTU, and no ring of a closed device is enabled.               *)
LEMMA NapiStep ==
    ASSUME TypeOK, LockInv, RingInv, NapiInv, [Next]_vars,
           Races \cap {"trylock", "closed"} = {},
           Faults \cap {"restart_mem", "mtu_mem"} = {}
    PROVE  NapiInv'
<1> USE DEF TypeOK, Threads, Steps, Goto, Free, Closing, LockInv, RingInv, NapiInv,
       Disabling
<1>1. CASE IfUp
  BY <1>1 DEF IfUp, workVars, chipVars
<1>2. CASE IfDown
  BY <1>2 DEF IfDown, workVars, chipVars
<1>3. CASE MtuChange
  BY <1>3 DEF MtuChange, workVars, chipVars
<1>4. CASE Suspend
  BY <1>4 DEF Suspend
<1>5. CASE Resume
  BY <1>5 DEF Resume
<1>6. CASE Remove
  BY <1>6 DEF Remove, chipVars
<1>7. ASSUME NEW t \in Threads, LibRestart(t)
      PROVE  NapiInv'
  BY <1>7 DEF LibRestart, Library, workVars
<1>7a. ASSUME NEW t \in Threads, LibEnable(t)
       PROVE  NapiInv'
  BY <1>7a DEF LibEnable, Library, workVars, chipVars
<1>7b. ASSUME NEW t \in Threads, LibNapi(t)
       PROVE  NapiInv'
  BY <1>7b DEF LibNapi, NapiDisable, workVars
<1>7c. ASSUME NEW t \in Threads, LibStarted(t)
       PROVE  NapiInv'
  BY <1>7c DEF LibStarted, workVars
<1>7d. ASSUME NEW t \in Threads, LibDisable(t)
       PROVE  NapiInv'
  BY <1>7d DEF LibDisable, Library, workVars
<1>8. ASSUME NEW t \in Threads, OpenDone(t)
      PROVE  NapiInv'
  BY <1>8 DEF OpenDone, LinkOn, SetSpeed
<1>9. ASSUME NEW t \in Threads, OpenFails(t)
      PROVE  NapiInv'
  BY <1>9 DEF OpenFails, workVars, chipVars
<1>10. ASSUME NEW t \in Threads, Close(t)
       PROVE  NapiInv'
  BY <1>10 DEF Close, Closed
<1>11. ASSUME NEW t \in Threads, CloseNapi(t)
       PROVE  NapiInv'
  BY <1>11 DEF CloseNapi, NapiDisable, workVars, chipVars
<1>12. ASSUME NEW t \in Threads, CloseFree(t)
       PROVE  NapiInv'
  BY <1>12 DEF CloseFree, Closed, workVars
<1>13. ASSUME NEW w \in Works, WorkSkipped(w)
       PROVE  NapiInv'
  BY <1>13 DEF WorkSkipped, Start, Pending, Opened, chipVars
<1>14. CASE ResetStart
  BY <1>14 DEF ResetStart, Start, Pending, Opened, chipVars
<1>15. CASE ResetQuiesce
  BY <1>15 DEF ResetQuiesce, workVars
<1>16. CASE ResetDone
  BY <1>16 DEF ResetDone, LinkOn, SetSpeed
<1>17. CASE ResetRxStuck
  BY <1>17 DEF ResetRxStuck, Schedule
<1>18. CASE LinkIsUp
  BY <1>18 DEF LinkIsUp, LinkOn, Start, Pending, Opened
<1>19. CASE LinkIsDown
  BY <1>19 DEF LinkIsDown, Start, Pending, Opened, chipVars
<1>20. CASE LinkDownPatch
  BY <1>20 DEF LinkDownPatch
<1>21. CASE EsdCheck
  BY <1>21 DEF EsdCheck, Pending, Opened, SetSpeed, chipVars
<1>22. CASE MtuNapi
  BY <1>22 DEF MtuNapi, NapiDisable, workVars
<1>23. CASE MtuDone
  BY <1>23 DEF MtuDone, SetSpeed, workVars
<1>24. CASE TxTimeout
  BY <1>24 DEF TxTimeout, Schedule, chipVars
<1>25. CASE PhyChange
  BY <1>25 DEF PhyChange, workVars
<1>26. CASE LinkInterrupt
  BY <1>26 DEF LinkInterrupt, Schedule
<1>27. CASE PollStart
  BY <1>27 DEF PollStart, workVars
<1>28. CASE PollEnd
  BY <1>28 DEF PollEnd, workVars
<1>29. CASE UNCHANGED vars
  BY <1>29 DEF vars, workVars, chipVars
<1>30. QED
  BY <1>1, <1>2, <1>3, <1>4, <1>5, <1>6, <1>7, <1>7a, <1>7b, <1>7c, <1>7d,
     <1>8, <1>9, <1>10, <1>11, <1>12, <1>13, <1>14, <1>15, <1>16, <1>17,
     <1>18, <1>19, <1>20, <1>21,
     <1>22, <1>23, <1>24, <1>25, <1>26, <1>27, <1>28, <1>29 DEF Next,
     ThreadNext

(* Every step keeps QuietInv.                                              *)
LEMMA QuietStep ==
    ASSUME TypeOK, LockInv, RingInv, QuietInv, [Next]_vars,
           "trylock" \notin Races, "late" \notin Races,
           "restart_mem" \notin Faults
    PROVE  QuietInv'
<1> USE DEF TypeOK, Threads, Steps, Goto, Free, Closing, Opened, LockInv, RingInv,
       QuietInv
<1>1. CASE IfUp
  BY <1>1 DEF IfUp, workVars, chipVars
<1>2. CASE IfDown
  BY <1>2 DEF IfDown, workVars, chipVars
<1>3. CASE MtuChange
  BY <1>3 DEF MtuChange, workVars, chipVars
<1>4. CASE Suspend
  BY <1>4 DEF Suspend
<1>5. CASE Resume
  BY <1>5 DEF Resume
<1>6. CASE Remove
  BY <1>6 DEF Remove, chipVars
<1>7. ASSUME NEW t \in Threads, LibRestart(t)
      PROVE  QuietInv'
  BY <1>7 DEF LibRestart, Library, workVars
<1>7a. ASSUME NEW t \in Threads, LibEnable(t)
       PROVE  QuietInv'
  BY <1>7a DEF LibEnable, Library, workVars, chipVars
<1>7b. ASSUME NEW t \in Threads, LibNapi(t)
       PROVE  QuietInv'
  BY <1>7b DEF LibNapi, NapiDisable, workVars
<1>7c. ASSUME NEW t \in Threads, LibStarted(t)
       PROVE  QuietInv'
  BY <1>7c DEF LibStarted, workVars
<1>7d. ASSUME NEW t \in Threads, LibDisable(t)
       PROVE  QuietInv'
  BY <1>7d DEF LibDisable, Library, workVars
<1>8. ASSUME NEW t \in Threads, OpenDone(t)
      PROVE  QuietInv'
  BY <1>8 DEF OpenDone, LinkOn, SetSpeed
<1>9. ASSUME NEW t \in Threads, OpenFails(t)
      PROVE  QuietInv'
  BY <1>9 DEF OpenFails, workVars, chipVars
<1>10. ASSUME NEW t \in Threads, Close(t)
       PROVE  QuietInv'
  BY <1>10 DEF Close, Closed
<1>11. ASSUME NEW t \in Threads, CloseNapi(t)
       PROVE  QuietInv'
  BY <1>11 DEF CloseNapi, NapiDisable, workVars, chipVars
<1>12. ASSUME NEW t \in Threads, CloseFree(t)
       PROVE  QuietInv'
  BY <1>12 DEF CloseFree, Closed, workVars
<1>13. ASSUME NEW w \in Works, WorkSkipped(w)
       PROVE  QuietInv'
  BY <1>13 DEF WorkSkipped, Start, Pending, Opened, chipVars
<1>14. CASE ResetStart
  BY <1>14 DEF ResetStart, Start, Pending, Opened, chipVars
<1>15. CASE ResetQuiesce
  BY <1>15 DEF ResetQuiesce, workVars
<1>16. CASE ResetDone
  BY <1>16 DEF ResetDone, LinkOn, SetSpeed
<1>17. CASE ResetRxStuck
  BY <1>17 DEF ResetRxStuck, Schedule
<1>18. CASE LinkIsUp
  BY <1>18 DEF LinkIsUp, LinkOn, Start, Pending, Opened
<1>19. CASE LinkIsDown
  BY <1>19 DEF LinkIsDown, Start, Pending, Opened, chipVars
<1>20. CASE LinkDownPatch
  BY <1>20 DEF LinkDownPatch
<1>21. CASE EsdCheck
  BY <1>21 DEF EsdCheck, Pending, Opened, SetSpeed, chipVars
<1>22. CASE MtuNapi
  BY <1>22 DEF MtuNapi, NapiDisable, workVars
<1>23. CASE MtuDone
  BY <1>23 DEF MtuDone, SetSpeed, workVars
<1>24. CASE TxTimeout
  BY <1>24 DEF TxTimeout, Schedule, chipVars
<1>25. CASE PhyChange
  BY <1>25 DEF PhyChange, workVars
<1>26. CASE LinkInterrupt
  BY <1>26 DEF LinkInterrupt, Schedule
<1>27. CASE PollStart
  BY <1>27 DEF PollStart, workVars
<1>28. CASE PollEnd
  BY <1>28 DEF PollEnd, workVars
<1>29. CASE UNCHANGED vars
  BY <1>29 DEF vars, workVars, chipVars
<1>30. QED
  BY <1>1, <1>2, <1>3, <1>4, <1>5, <1>6, <1>7, <1>7a, <1>7b, <1>7c, <1>7d,
     <1>8, <1>9, <1>10, <1>11, <1>12, <1>13, <1>14, <1>15, <1>16, <1>17,
     <1>18, <1>19, <1>20, <1>21,
     <1>22, <1>23, <1>24, <1>25, <1>26, <1>27, <1>28, <1>29 DEF Next,
     ThreadNext

(* Every step keeps EsdInv.                                                *)
LEMMA EsdStep ==
    ASSUME TypeOK, LockInv, EsdInv, [Next]_vars,
           "trylock" \notin Races, "pci_link" \notin Faults
    PROVE  EsdInv'
<1> USE DEF TypeOK, Threads, Steps, Goto, Free, Closing, Opened, LockInv, EsdInv
<1>1. CASE IfUp
  BY <1>1 DEF IfUp, workVars, chipVars
<1>2. CASE IfDown
  BY <1>2 DEF IfDown, workVars, chipVars
<1>3. CASE MtuChange
  BY <1>3 DEF MtuChange, workVars, chipVars
<1>4. CASE Suspend
  BY <1>4 DEF Suspend
<1>5. CASE Resume
  BY <1>5 DEF Resume
<1>6. CASE Remove
  BY <1>6 DEF Remove, chipVars
<1>7. ASSUME NEW t \in Threads, LibRestart(t)
      PROVE  EsdInv'
  BY <1>7 DEF LibRestart, Library, workVars
<1>7a. ASSUME NEW t \in Threads, LibEnable(t)
       PROVE  EsdInv'
  BY <1>7a DEF LibEnable, Library, workVars, chipVars
<1>7b. ASSUME NEW t \in Threads, LibNapi(t)
       PROVE  EsdInv'
  BY <1>7b DEF LibNapi, NapiDisable, workVars
<1>7c. ASSUME NEW t \in Threads, LibStarted(t)
       PROVE  EsdInv'
  BY <1>7c DEF LibStarted, workVars
<1>7d. ASSUME NEW t \in Threads, LibDisable(t)
       PROVE  EsdInv'
  BY <1>7d DEF LibDisable, Library, workVars
<1>8. ASSUME NEW t \in Threads, OpenDone(t)
      PROVE  EsdInv'
  BY <1>8 DEF OpenDone, LinkOn, SetSpeed
<1>9. ASSUME NEW t \in Threads, OpenFails(t)
      PROVE  EsdInv'
  BY <1>9 DEF OpenFails, workVars, chipVars
<1>10. ASSUME NEW t \in Threads, Close(t)
       PROVE  EsdInv'
  BY <1>10 DEF Close, Closed
<1>11. ASSUME NEW t \in Threads, CloseNapi(t)
       PROVE  EsdInv'
  BY <1>11 DEF CloseNapi, NapiDisable, workVars, chipVars
<1>12. ASSUME NEW t \in Threads, CloseFree(t)
       PROVE  EsdInv'
  BY <1>12 DEF CloseFree, Closed, workVars
<1>13. ASSUME NEW w \in Works, WorkSkipped(w)
       PROVE  EsdInv'
  BY <1>13 DEF WorkSkipped, Start, Pending, Opened, chipVars
<1>14. CASE ResetStart
  BY <1>14 DEF ResetStart, Start, Pending, Opened, chipVars
<1>15. CASE ResetQuiesce
  BY <1>15 DEF ResetQuiesce, workVars
<1>16. CASE ResetDone
  BY <1>16 DEF ResetDone, LinkOn, SetSpeed
<1>17. CASE ResetRxStuck
  BY <1>17 DEF ResetRxStuck, Schedule
<1>18. CASE LinkIsUp
  BY <1>18 DEF LinkIsUp, LinkOn, Start, Pending, Opened
<1>19. CASE LinkIsDown
  BY <1>19 DEF LinkIsDown, Start, Pending, Opened, chipVars
<1>20. CASE LinkDownPatch
  BY <1>20 DEF LinkDownPatch
<1>21. CASE EsdCheck
  BY <1>21 DEF EsdCheck, Pending, Opened, SetSpeed, chipVars
<1>22. CASE MtuNapi
  BY <1>22 DEF MtuNapi, NapiDisable, workVars
<1>23. CASE MtuDone
  BY <1>23 DEF MtuDone, SetSpeed, workVars
<1>24. CASE TxTimeout
  BY <1>24 DEF TxTimeout, Schedule, chipVars
<1>25. CASE PhyChange
  BY <1>25 DEF PhyChange, workVars
<1>26. CASE LinkInterrupt
  BY <1>26 DEF LinkInterrupt, Schedule
<1>27. CASE PollStart
  BY <1>27 DEF PollStart, workVars
<1>28. CASE PollEnd
  BY <1>28 DEF PollEnd, workVars
<1>29. CASE UNCHANGED vars
  BY <1>29 DEF vars, workVars, chipVars
<1>30. QED
  BY <1>1, <1>2, <1>3, <1>4, <1>5, <1>6, <1>7, <1>7a, <1>7b, <1>7c, <1>7d,
     <1>8, <1>9, <1>10, <1>11, <1>12, <1>13, <1>14, <1>15, <1>16, <1>17,
     <1>18, <1>19, <1>20, <1>21,
     <1>22, <1>23, <1>24, <1>25, <1>26, <1>27, <1>28, <1>29 DEF Next,
     ThreadNext

----------------------------------------------------------------------------
(* What the invariants imply.                                              *)

(* The lock's discipline, NAPI and the rings, for every set of failures.   *)
LEMMA NapiOverRings ==
    ASSUME "trylock" \notin Races
    PROVE  Spec => [](TypeOK /\ LockInv /\ RingInv)
<1>1. Init => LockInv /\ RingInv
  BY DEF Init, LockInv, RingInv, Threads, Closing, Free
<1>2. TypeOK /\ LockInv /\ RingInv /\ [Next]_vars => (LockInv /\ RingInv)'
  BY LockStep, RingStep
<1>3. QED
  BY <1>1, <1>2, NetTypes, PTL DEF Spec

(* Whatever allocation fails, rtl8125_close, rtl8125_change_mtu and the    *)
(* library's restart never free the rings or cut the power under a poll,   *)
(* as long as each holds the RTNL lock and no poll meets a suspend.        *)
THEOREM PollsAreSafe ==
    ASSUME Races \cap {"trylock", "poll"} = {}
    PROVE  Spec => []PollIsSafe
<1>1. Init => PollInv
  BY DEF Init, PollInv
<1>2. TypeOK /\ LockInv /\ RingInv /\ PollInv /\ [Next]_vars => PollInv'
  BY PollStep
<1>3. RingInv /\ PollInv => PollIsSafe
  BY DEF RingInv, PollInv, PollIsSafe
<1>4. Spec => [](TypeOK /\ LockInv /\ RingInv)
  BY NapiOverRings
<1>5. QED
  BY <1>1, <1>2, <1>3, <1>4, PTL DEF Spec

(* Every napi_disable, that of rtl8125_enable_ring included, finds NAPI    *)
(* enabled and every napi_enable finds it disabled, as long as the RTNL    *)
(* lock is taken, the library enables no ring of a closed device, and the  *)
(* two allocations that are not undone succeed.                            *)
THEOREM NapiIsPaired ==
    ASSUME Races \cap {"trylock", "closed"} = {},
           Faults \cap {"restart_mem", "mtu_mem"} = {}
    PROVE  Spec => []NapiPaired
<1>1. Init => NapiInv
  BY DEF Init, NapiInv, Threads, Free, Disabling
<1>2. TypeOK /\ LockInv /\ RingInv /\ NapiInv /\ [Next]_vars => NapiInv'
  BY NapiStep
<1>3. TypeOK /\ LockInv /\ RingInv /\ NapiInv => NapiPaired
  BY DEF LockInv, RingInv, NapiInv, NapiPaired, Threads, Disabling
<1>4. Spec => [](TypeOK /\ LockInv /\ RingInv)
  BY NapiOverRings
<1>5. QED
  BY <1>1, <1>2, <1>3, <1>4, PTL DEF Spec

(* Once rtl8125_remove_one has returned nothing is scheduled on the        *)
(* device, as long as no interrupt slips in behind its cancellation.       *)
THEOREM RemoveLeavesNoWork ==
    ASSUME Races \cap {"trylock", "late"} = {}, "restart_mem" \notin Faults
    PROVE  Spec => []RemovedIsQuiet
<1>1. Init => QuietInv
  BY DEF Init, QuietInv, Threads, Free
<1>2. TypeOK /\ LockInv /\ RingInv /\ QuietInv /\ [Next]_vars => QuietInv'
  BY QuietStep
<1>3. QuietInv => RemovedIsQuiet
  BY DEF QuietInv, RemovedIsQuiet, Free
<1>4. Spec => [](TypeOK /\ LockInv /\ RingInv)
  BY NapiOverRings
<1>5. QED
  BY <1>1, <1>2, <1>3, <1>4, PTL DEF Spec

(* The ESD check of an open device is never lost, whatever is out of       *)
(* memory and however often the device is reset, suspended and restarted.  *)
THEOREM EsdStaysArmed ==
    ASSUME "trylock" \notin Races, "pci_link" \notin Faults
    PROVE  Spec => []EsdArmed
<1>1. Init => EsdInv
  BY DEF Init, EsdInv, Threads, Opened
<1>2. TypeOK /\ LockInv /\ EsdInv /\ [Next]_vars => EsdInv'
  BY EsdStep
<1>3. EsdInv => EsdArmed
  BY DEF EsdInv, EsdArmed, Free
<1>4. Spec => [](TypeOK /\ LockInv /\ RingInv)
  BY NapiOverRings
<1>5. QED
  BY <1>1, <1>2, <1>3, <1>4, PTL DEF Spec
============================================================================
