--------------------------- MODULE IossNetSafety ---------------------------
(***************************************************************************)
(* The safety of the offload life cycle of IossNet, for every number of    *)
(* channels: the inductive invariant behind the invariants that the run    *)
(* offload_lifecycle checks, its proof, and that every step is one of the  *)
(* abstract path.                                                          *)
(***************************************************************************)
EXTENDS IossNetProofs, IossNetPath

(* What the kernel survives: nothing fails but what ioss_iface_set_online  *)
(* unwinds, no diagnostic gate is set, the device keeps its namespace.     *)
Survivable == Faults \subseteq UnwoundFaults /\ Gates = {} /\ ~AllowMove

(* All that the offload path holds, and that with rings r, events e,       *)
(* enabled rings o, and h of IPA and power collapse.                       *)
Assets == [ring |-> drv.ring, ev |-> drv.ev, evOn |-> drv.evOn, on |-> drv.on,
           fl |-> fl, held |-> held]

Stock(r, e, o, h) ==
    [ring |-> r, ev |-> e, evOn |-> e, on |-> o,
     fl |-> [allocated |-> r, enabled |-> o,
             evAllocated |-> e, evEnabled |-> e],
     held |-> h]

Complete == Stock(Channels, Channels, Channels, {"ipa", "pc"})
Nothing  == Stock({}, {}, {}, {})

Deciding == {"idle", "speed", "decide"}

(* Each stage has left behind exactly what the next one expects. *)
Pipeline ==
    /\ pc \in Deciding /\ state = "ONLINE" => Assets = Complete
    /\ pc \in Deciding /\ state # "ONLINE" => Assets = Nothing
    /\ pc \notin Deciding => state # "ONLINE"
    /\ pc = "alloc" => Assets = Stock(1..(i-1), {}, {}, {})
    /\ pc = "alloc_revert" => Assets = Stock(1..i, {}, {}, {})
    /\ pc = "ipa_register" => Assets = Stock(Channels, {}, {}, {})
    /\ pc = "setup" => Assets = Stock(Channels, 1..(i-1), {}, {"ipa"})
    /\ pc = "setup_revert" => Assets = Stock(Channels, 1..i, {}, {"ipa"})
    /\ pc = "enable" => Assets = Stock(Channels, Channels, 1..(i-1), {"ipa"})
    /\ pc # "enable_revert"
    /\ pc = "disable_pc" => Assets = Stock(Channels, Channels, Channels, {"ipa"})
    /\ pc = "enable_pc" => Assets = Complete
    /\ pc = "disable" => Assets = Stock(Channels, Channels, i..N, {"ipa"})
    /\ pc = "teardown" => Assets = Stock(Channels, i..N, {}, {"ipa"})
    /\ pc = "ipa_unregister" => Assets = Stock(Channels, {}, {}, {"ipa"})
    /\ pc = "free" => Assets = Stock(i..N, {}, {}, {})

(* The RSS table points at the offload ring only while an RX event is on,  *)
(* and no teardown has failed.                                             *)
Redirected ==
    /\ drv.rss = "ipa" => RxChannels \cap drv.ev # {}
    /\ "rc" \notin err

(* The bind thread's view. *)
Registered ==
    /\ bind \in {"watched", "u_queue", "u_flush", "u_unreg"} =>
           iface = {"attached", "added", "notified"}
    /\ bind \in {"unwatched", "absent", "u_flush2"} => iface = {}
    /\ bind # "watched" => user = "idle"
    /\ bind \in {"u_queue", "u_flush", "u_unreg", "u_flush2"} =>
           "unbinding" \in idev
    /\ net \notin {"unlisted", "relisting"}

(* Who flushes waits for something. *)
Flushing ==
    /\ waitP # {} => refresh = "queued"
    /\ waitR # {} => pc # "idle"

(* Nothing is up and nothing is on its way up. *)
Down == state # "ONLINE" /\ pc \in Deciding

(* Thread t flushes a refresh that must take the path down. *)
Drained(t) ==
    /\ t \notin waitP => pc \notin BringUp \cup Revert
    /\ Flushed(t) => Down

Drains ==
    /\ bind = "u_flush" => Drained("bind")
    /\ user = "flush" /\ "offline" \in idev => Drained("user")
    /\ bind \in {"u_unreg", "u_flush2"} => Down /\ "bind" \notin waitR
    /\ bind = "u_unreg" => "bind" \notin waitP
    /\ bind = "u_flush2" /\ "bind" \notin waitP =>
           pc = "idle" /\ refresh = "idle"
    /\ bind \in {"unwatched", "absent"} =>
           pc = "idle" /\ refresh = "idle" /\ state # "ONLINE"

SafeInv == TypeInv /\ NoOops /\ Pipeline /\ Redirected /\ Registered
                   /\ Flushing /\ Drains
----------------------------------------------------------------------------
(* Lemmas. *)

(* Intervals, as the iterations over the channels use them. *)
LEMMA Intervals ==
    ASSUME NEW k \in Channels
    PROVE  /\ k \in Nat /\ k >= 1 /\ k <= N
           /\ (1..(k-1)) \cup {k} = 1..k
           /\ ((1..(k-1)) \cup {k}) \ {k} = 1..(k-1)
           /\ (1..k) \ {k} = 1..(k-1)
           /\ (k..N) \ {k} = (k+1)..N
           /\ k \in k..N /\ k \in 1..k /\ k \notin 1..(k-1)
<1>1. k \in Nat /\ k >= 1 /\ k <= N /\ N \in Nat
  BY GlueAssumption DEF Channels
<1> QED
  BY <1>1

LEMMA IntervalEnds ==
    /\ 1..0 = {} /\ (N+1)..N = {}
    /\ 1..N = Channels /\ 1..(1-1) = {}
    /\ N \in Nat /\ N >= 1
BY GlueAssumption DEF Channels

(* The assets, field by field. *)
LEMMA Fields ==
    ASSUME NEW r, NEW e, NEW o, NEW h, Assets = Stock(r, e, o, h)
    PROVE  /\ drv.ring = r /\ drv.ev = e /\ drv.evOn = e /\ drv.on = o
           /\ fl = [allocated |-> r, enabled |-> o,
                    evAllocated |-> e, evEnabled |-> e]
           /\ held = h
BY DEF Assets, Stock

LEMMA FieldsAfter ==
    ASSUME NEW r, NEW e, NEW o, NEW h, Assets' = Stock(r, e, o, h)
    PROVE  drv'.ev = e
BY DEF Assets, Stock

(* What each operation on a channel does to the assets when no gate is     *)
(* set.                                                                    *)
(* request_channel adds the channel's ring.                                *)
LEMMA AllocAssets ==
    ASSUME Gates = {}, drv \in Rings, NEW c \in Channels,
           NEW r, NEW e, NEW o, NEW h, Assets = Stock(r, e, o, h),
           drv' = RequestChannel(drv, c),
           fl' = [fl EXCEPT !.allocated = @ \cup {c}],
           held' = held
    PROVE  Assets' = Stock(r \cup {c}, e, o, h) /\ drv'.rss = drv.rss
BY Fields DEF Assets, Stock, Rings, RequestChannel

(* release_channel takes it away.                                          *)
LEMMA FreeAssets ==
    ASSUME Gates = {}, drv \in Rings, NEW c \in Channels,
           NEW r, NEW e, NEW o, NEW h, Assets = Stock(r, e, o, h),
           drv' = ReleaseChannel(drv, c),
           fl' = [fl EXCEPT !.allocated = @ \ {c}],
           held' = held
    PROVE  Assets' = Stock(r \ {c}, e, o, h) /\ drv'.rss = drv.rss
BY Fields DEF Assets, Stock, Rings, ReleaseChannel

(* A channel that is released at once leaves nothing behind.               *)
LEMMA FailedAllocAssets ==
    ASSUME Gates = {}, drv \in Rings, NEW c \in Channels,
           NEW r, NEW e, NEW o, NEW h, Assets = Stock(r, e, o, h), c \notin r,
           drv' = ReleaseChannel(RequestChannel(drv, c), c),
           fl' = fl,
           held' = held
    PROVE  Assets' = Stock(r, e, o, h) /\ drv'.rss = drv.rss
BY Fields DEF Assets, Stock, Rings, RequestChannel, ReleaseChannel

(* request_event and enable_event add the channel's event.                 *)
LEMMA SetupAssets ==
    ASSUME Gates = {}, drv \in Rings, NEW c \in Channels,
           NEW r, NEW e, NEW o, NEW h, Assets = Stock(r, e, o, h),
           drv' = EnableEvent(RequestEvent(drv, c), c),
           fl' = [fl EXCEPT !.evAllocated = @ \cup {c},
                          !.evEnabled = @ \cup {c}],
           held' = held
    PROVE  /\ Assets' = Stock(r, e \cup {c}, o, h)
           /\ drv'.rss = (IF c \in RxChannels THEN "ipa" ELSE drv.rss)
<1>1. /\ drv.ring = r /\ drv.ev = e /\ drv.evOn = e /\ drv.on = o
      /\ fl = [allocated |-> r, enabled |-> o,
               evAllocated |-> e, evEnabled |-> e]
      /\ held = h
  BY Fields
<1>2. drv.skip = {} /\ RequestEvent(drv, c).skip = {}
  BY DEF Rings, RequestEvent
<1>3. /\ drv'.ring = r /\ drv'.ev = e \cup {c} /\ drv'.evOn = e \cup {c}
      /\ drv'.on = o
      /\ drv'.rss = (IF c \in RxChannels THEN "ipa" ELSE drv.rss)
  BY <1>1, <1>2 DEF Rings, RequestEvent, EnableEvent
<1>4. fl' = [allocated |-> r, enabled |-> o,
             evAllocated |-> e \cup {c}, evEnabled |-> e \cup {c}]
  BY <1>1
<1> QED
  BY <1>1, <1>3, <1>4 DEF Assets, Stock

(* disable_event and release_event take it away.                           *)
LEMMA TeardownAssets ==
    ASSUME Gates = {}, drv \in Rings, NEW c \in Channels,
           NEW r, NEW e, NEW o, NEW h, Assets = Stock(r, e, o, h), c \in e,
           drv' = ReleaseEvent(DisableEvent(drv, c), c),
           fl' = [fl EXCEPT !.evEnabled = IF DisableEventFails(drv, c)
                                         THEN @ ELSE @ \ {c},
                          !.evAllocated = @ \ {c}],
           held' = held
    PROVE  /\ Assets' = Stock(r, e \ {c}, o, h)
           /\ drv'.rss = (IF c \in RxChannels THEN "default" ELSE drv.rss)
<1>1. /\ drv.ring = r /\ drv.ev = e /\ drv.evOn = e /\ drv.on = o
      /\ fl = [allocated |-> r, enabled |-> o,
               evAllocated |-> e, evEnabled |-> e]
      /\ held = h
  BY Fields
<1>2. ~DisableEventFails(drv, c)
  BY <1>1 DEF DisableEventFails
<1>3. /\ drv'.ring = r /\ drv'.ev = e \ {c} /\ drv'.evOn = e \ {c}
      /\ drv'.on = o
      /\ drv'.rss = (IF c \in RxChannels THEN "default" ELSE drv.rss)
  BY <1>1, <1>2 DEF Rings, ReleaseEvent, DisableEvent
<1>4. fl' = [allocated |-> r, enabled |-> o,
             evAllocated |-> e \ {c}, evEnabled |-> e \ {c}]
  BY <1>1, <1>2
<1> QED
  BY <1>1, <1>3, <1>4 DEF Assets, Stock

(* enable_channel enables the ring.                                        *)
LEMMA StartAssets ==
    ASSUME Gates = {}, drv \in Rings, NEW c \in Channels,
           NEW r, NEW e, NEW o, NEW h, Assets = Stock(r, e, o, h),
           drv' = EnableChannel(drv, c),
           fl' = [fl EXCEPT !.enabled = @ \cup {c}],
           held' = held
    PROVE  Assets' = Stock(r, e, o \cup {c}, h) /\ drv'.rss = drv.rss
BY Fields DEF Assets, Stock, Rings, EnableChannel

(* disable_channel disables it.                                            *)
LEMMA StopAssets ==
    ASSUME Gates = {}, drv \in Rings, NEW c \in Channels,
           NEW r, NEW e, NEW o, NEW h, Assets = Stock(r, e, o, h), c \in r,
           drv' = DisableChannel(drv, c),
           fl' = [fl EXCEPT !.enabled = @ \ {c}],
           held' = held
    PROVE  Assets' = Stock(r, e, o \ {c}, h) /\ drv'.rss = drv.rss
BY Fields DEF Assets, Stock, Rings, DisableChannel, NullRing

(* Registration with IPA and the power-collapse vote touch no channel. *)
LEMMA HeldAssets ==
    ASSUME NEW r, NEW e, NEW o, NEW h, Assets = Stock(r, e, o, h),
           UNCHANGED <<drv, fl>>
    PROVE  Assets' = Stock(r, e, o, held')
BY Fields DEF Assets, Stock

(* A step from stage to stage, which no flushing thread can see: a thread  *)
(* that was not flushed is not flushed by it.                              *)
LEMMA StageDrains ==
    ASSUME Drains, pc \notin Deciding, pc' \notin Deciding,
           pc \notin BringUp \cup Revert => pc' \notin BringUp \cup Revert,
           UNCHANGED <<waitP, waitR, bind, user, idev>>
    PROVE  Drains'
BY DEF Drains, Drained, Down, Flushed, Deciding

(* The work function returns from a stage. *)
LEMMA FinishDrains ==
    ASSUME Drains, pc \notin Deciding, Finish,
           state' # "ONLINE" \/ pc \in BringUp,
           UNCHANGED <<refresh, waitP, bind, user, idev>>
    PROVE  Drains'
BY DEF Drains, Drained, Down, Flushed, Deciding, Finish, BringUp, Revert

(* A notification queues a refresh only while the notifier is registered. *)
LEMMA NotifyDrains ==
    ASSUME Drains, Registered, Flushing, 
           refresh' = refresh \/ (Notified /\ refresh' = "queued"),
           UNCHANGED <<state, pc, waitP, waitR, bind, user, idev>>
    PROVE  Drains' /\ Flushing'
BY DEF Drains, Drained, Down, Flushed, Registered, Notified, Flushing

----------------------------------------------------------------------------
(* The work item. *)

(* The refresh starts, reads the link speed and decides. *)
LEMMA DecideSafe ==
    ASSUME Survivable, SafeInv,
           RefreshStart \/ FetchLinkSpeed \/ EnterSetOnline \/ EnterSetOffline
    PROVE  SafeInv'
<1> USE DEF SafeInv
<1>0. TypeInv'
  BY WorkTypes DEF Work
<1>1. CASE RefreshStart
  <2>1. NoOops' /\ Redirected' /\ Registered'
    BY <1>1 DEF RefreshStart, offloadVars, netVars, ctlVars, NoOops,
       Redirected, Registered
  <2>2. Assets' = Assets /\ state' = state
    BY <1>1 DEF RefreshStart, offloadVars, Assets
  <2>3. Pipeline'
    BY <1>1, <2>2 DEF RefreshStart, At, Pipeline, Deciding
  <2>4. Flushing'
    BY <1>1 DEF RefreshStart, At, Flushing
  <2>5. Drains'
    BY <1>1, <2>2 DEF RefreshStart, At, ctlVars, Drains, Drained, Down,
       Flushed, Flushing, Deciding, BringUp, Revert, Registered, Attached,
       TypeInv, TypeOK, ControlOK, BindSteps
  <2> QED
    BY <1>0, <2>1, <2>3, <2>4, <2>5
<1>2. CASE FetchLinkSpeed
  <2>1. NoOops' /\ Redirected' /\ Registered'
    BY <1>2 DEF FetchLinkSpeed, offloadVars, netVars, ctlVars, NoOops,
       Redirected, Registered
  <2>2. Assets' = Assets /\ state' = state
    BY <1>2 DEF FetchLinkSpeed, offloadVars, Assets
  <2>3. Pipeline'
    BY <1>2, <2>2 DEF FetchLinkSpeed, At, Pipeline, Deciding
  <2>4. Flushing'
    BY <1>2 DEF FetchLinkSpeed, At, queueVars, Flushing
  <2>5. Drains'
    BY <1>2, <2>2 DEF FetchLinkSpeed, At, ctlVars, queueVars, Drains, Drained,
       Down, Flushed, Deciding, BringUp, Revert
  <2> QED
    BY <1>0, <2>1, <2>3, <2>4, <2>5
<1>3. CASE EnterSetOnline
  <2>1. NoOops' /\ Redirected' /\ Registered'
    BY <1>3 DEF EnterSetOnline, offloadVars, netVars, ctlVars, NoOops,
       Redirected, Registered
  <2>2. Assets' = Assets /\ state' = state
    BY <1>3 DEF EnterSetOnline, offloadVars, Assets
  <2>3. Pipeline'
    BY <1>3, <2>2, IntervalEnds DEF EnterSetOnline, At, GoTo, Finish,
        Pipeline,
       Deciding, Nothing
  <2>4. Flushing'
    BY <1>3 DEF EnterSetOnline, At, GoTo, Finish, Flushing
  <2>5. Drains'
    BY <1>3 DEF EnterSetOnline, At, Wanted, ctlVars, Drains, Registered
  <2> QED
    BY <1>0, <2>1, <2>3, <2>4, <2>5
<1>4. CASE EnterSetOffline
  <2>1. NoOops' /\ Redirected' /\ Registered'
    BY <1>4 DEF EnterSetOffline, netVars, ctlVars, NoOops, Redirected,
       Registered
  <2>2. Assets' = Assets
    BY <1>4 DEF EnterSetOffline, Assets
  <2>3. Pipeline'
    BY <1>4, <2>2 DEF EnterSetOffline, At, GoTo, Finish, Pipeline, Deciding
  <2>4. Flushing'
    BY <1>4 DEF EnterSetOffline, At, GoTo, Finish, Flushing
  <2>5. Drains'
    BY <1>4 DEF EnterSetOffline, At, GoTo, Finish, ctlVars, Drains, Drained,
       Down, Flushed, Deciding, BringUp, Revert
  <2> QED
    BY <1>0, <2>1, <2>3, <2>4, <2>5
<1> QED
  BY <1>1, <1>2, <1>3, <1>4

(* The stages of ioss_iface_set_online. *)
LEMMA BringUpSafe ==
    ASSUME Survivable, SafeInv,
           \/ AllocChannel \/ AllocRevert \/ IpaRegister \/ SetupEvent
           \/ SetupRevert \/ StartChannel \/ EnableRevert \/ DisablePc
    PROVE  SafeInv'
<1> USE DEF SafeInv
<1>0. TypeInv'
  BY WorkTypes DEF Work
<1>t. drv \in Rings /\ i \in 0..N /\ Gates = {} /\ drv.skip = {}
  BY DEF TypeInv, TypeOK, OffloadOK, WorkOK, Survivable, Rings
<1>1. CASE AllocChannel
  <2>1. i \in Channels /\ pc = "alloc"
    BY <1>1 DEF AllocChannel, At, TypeInv, StageIndex, BringUp
  <2>2. /\ Assets = Stock(1..(i-1), {}, {}, {}) /\ state # "ONLINE"
        /\ UNCHANGED <<state, held, err>>
    BY <1>1, <2>1 DEF AllocChannel, Pipeline, Deciding
  <2>3. ~NullRing(RequestChannel(drv, i), i)
    BY <1>t, <2>1 DEF RequestChannel, NullRing, Rings
  <2>4. \/ /\ drv' = RequestChannel(drv, i)
           /\ fl' = [fl EXCEPT !.allocated = @ \cup {i}]
           /\ NextChannel("ipa_register")
           /\ UNCHANGED kernel
        \/ /\ drv' = ReleaseChannel(RequestChannel(drv, i), i)
           /\ RevertFrom("alloc_revert")
           /\ UNCHANGED <<fl, kernel>>
    BY <1>1, <2>3 DEF AllocChannel, Oops, Survivable, UnwoundFaults
  <2>5. drv'.rss = drv.rss
        /\ \/ Assets' = Stock(1..i, {}, {}, {}) /\ NextChannel("ipa_register")
           \/ Assets' = Stock(1..(i-1), {}, {}, {}) /\ RevertFrom("alloc_revert")
    <3>1. i \notin 1..(i-1) /\ 1..(i-1) \cup {i} = 1..i
      BY <2>1, Intervals
    <3>2. CASE /\ drv' = RequestChannel(drv, i)
               /\ fl' = [fl EXCEPT !.allocated = @ \cup {i}]
               /\ NextChannel("ipa_register")
      <4>1. Assets' = Stock(1..(i-1) \cup {i}, {}, {}, {}) /\ drv'.rss = drv.rss
        BY <1>t, <2>1, <2>2, <3>2, AllocAssets
      <4> QED
        BY <3>1, <3>2, <4>1
    <3>3. CASE /\ drv' = ReleaseChannel(RequestChannel(drv, i), i)
               /\ fl' = fl
               /\ RevertFrom("alloc_revert")
      <4>1. Assets' = Stock(1..(i-1), {}, {}, {}) /\ drv'.rss = drv.rss
        BY <1>t, <2>1, <2>2, <3>1, <3>3, FailedAllocAssets
      <4> QED
        BY <3>3, <4>1
    <3> QED
      BY <2>4, <3>2, <3>3
  <2>6. NoOops' /\ Registered' /\ Flushing'
    BY <1>1, <2>1, <2>4 DEF AllocChannel, NoOops, Registered, Flushing,
       ctlVars, queueVars, NextChannel, RevertFrom
  <2>7. Redirected'
    BY <2>2, <2>5, Fields, FieldsAfter DEF Redirected
  <2>8. Pipeline'
    BY <2>1, <2>2, <2>5, IntervalEnds, Intervals DEF Pipeline, Deciding,
       NextChannel, RevertFrom
  <2>9. Drains'
    BY <1>1, <2>1, <2>4, StageDrains DEF AllocChannel, NextChannel,
       RevertFrom, queueVars, ctlVars, Deciding, BringUp
  <2> QED
    BY <1>0, <2>6, <2>7, <2>8, <2>9
<1>2. CASE AllocRevert
  <2>1. pc = "alloc_revert" /\ Assets = Stock(1..i, {}, {}, {}) /\ state # "ONLINE"
    BY <1>2 DEF AllocRevert, At, Pipeline, Deciding
  <2>2. Registered' /\ held' = held /\ err' = err
    BY <1>2 DEF AllocRevert, Registered, ctlVars
  <2>3. CASE i = 0
    <3>1. /\ state' = "ERROR" /\ Finish /\ UNCHANGED <<fl, drv, kernel>>
      BY <1>2, <2>3 DEF AllocRevert
    <3>2. Assets' = Nothing
      BY <2>1, <2>2, <2>3, <3>1, IntervalEnds DEF Assets, Nothing
    <3>3. NoOops' /\ Redirected' /\ Flushing'
      BY <1>2, <2>2, <3>1 DEF AllocRevert, NoOops, Redirected, Flushing,
                              Finish
    <3>4. Pipeline'
      BY <3>1, <3>2 DEF Pipeline, Deciding, Finish
    <3>5. Drains'
      BY <1>2, <2>1, <3>1, FinishDrains DEF AllocRevert, ctlVars, Deciding
    <3> QED
      BY <1>0, <2>2, <3>3, <3>4, <3>5
  <2>4. CASE i > 0
    <3>1. i \in Channels
      BY <1>t, <2>4, IntervalEnds DEF Channels
    <3>2. FreeChannel /\ RevertFrom(pc) /\ UNCHANGED <<state, waitR>>
      BY <1>2, <2>4, <1>t DEF AllocRevert
    <3>3. (1..i) \ {i} = 1..(i-1) /\ i \in 1..i
      BY <3>1, Intervals
    <3>4. /\ Assets' = Stock((1..i) \ {i}, {}, {}, {}) /\ drv'.rss = drv.rss
      BY <1>t, <2>1, <2>2, <3>1, <3>2, FreeAssets DEF FreeChannel
    <3>5. drv.ring = 1..i /\ drv.ev = {} /\ drv'.ev = {}
      BY <2>1, <3>4, Fields, FieldsAfter
    <3>6. NoOops' /\ Redirected' /\ Flushing'
      BY <1>2, <2>2, <3>2, <3>3, <3>4, <3>5 DEF AllocRevert, NoOops,
         Redirected, Flushing, FreeChannel, Oops, NullRing, RevertFrom
    <3>7. Pipeline'
      BY <2>1, <3>2, <3>3, <3>4 DEF Pipeline, Deciding, RevertFrom
    <3>8. Drains'
      BY <1>2, <2>1, <3>2, StageDrains DEF AllocRevert, RevertFrom, ctlVars,
         Deciding, Revert
    <3> QED
      BY <1>0, <2>2, <3>6, <3>7, <3>8
  <2> QED
    BY <1>t, <2>3, <2>4
<1>3. CASE IpaRegister
  <2>1. /\ pc = "ipa_register" /\ Assets = Stock(Channels, {}, {}, {})
        /\ state # "ONLINE"
    BY <1>3 DEF IpaRegister, At, Pipeline, Deciding
  <2>2. NoOops' /\ Redirected' /\ Registered' /\ Flushing' /\ state' = state
    BY <1>3, <2>1 DEF IpaRegister, NoOops, Redirected, Registered, Flushing,
       GoTo, queueVars, netVars, ctlVars
  <2>3. /\ UNCHANGED <<drv, fl>>
        /\ \/ GoTo("setup") /\ held' = {"ipa"}
           \/ GoTo("free") /\ held' = {}
    BY <1>3, <2>1, Fields DEF IpaRegister
  <2>4. \/ GoTo("setup") /\ Assets' = Stock(Channels, {}, {}, {"ipa"})
        \/ GoTo("free") /\ Assets' = Stock(Channels, {}, {}, {})
    BY <2>1, <2>3, HeldAssets
  <2>5. Pipeline'
    BY <2>1, <2>2, <2>4, IntervalEnds DEF Pipeline, Deciding, GoTo
  <2>6. Drains'
    BY <1>3, <2>1, <2>3, StageDrains DEF IpaRegister, GoTo, queueVars,
        ctlVars,
       Deciding, BringUp, Revert
  <2> QED
    BY <1>0, <2>2, <2>5, <2>6
<1>4. CASE SetupEvent
  <2>1. i \in Channels /\ pc = "setup"
    BY <1>4 DEF SetupEvent, At, TypeInv, StageIndex, BringUp
  <2>2. /\ Assets = Stock(Channels, 1..(i-1), {}, {"ipa"}) /\ state # "ONLINE"
        /\ UNCHANGED <<state, held, err>>
    BY <1>4, <2>1 DEF SetupEvent, Pipeline, Deciding
  <2>3. /\ drv.ring = Channels /\ drv.ev = 1..(i-1)
        /\ i \notin 1..(i-1) /\ (1..(i-1)) \cup {i} = 1..i
    BY <2>1, <2>2, Fields, Intervals
  <2>4. /\ RequestEvent(drv, i).ev = 1..i
        /\ RequestEvent(drv, i).ring = Channels
        /\ i \in 1..i
    BY <1>t, <2>1, <2>3, Intervals DEF RequestEvent, Rings
  <2>5. ~EnableEventFails(RequestEvent(drv, i), i)
        /\ ~NullRing(RequestEvent(drv, i), i)
    BY <2>1, <2>4 DEF EnableEventFails, NullRing
  <2>6. \/ /\ drv' = EnableEvent(RequestEvent(drv, i), i)
           /\ fl' = [fl EXCEPT !.evAllocated = @ \cup {i},
                               !.evEnabled = @ \cup {i}]
           /\ NextChannel("enable")
           /\ kernel' = kernel
        \/ RevertFrom("setup_revert") /\ UNCHANGED <<drv, fl, kernel>>
    BY <1>4, <2>5 DEF SetupEvent, Oops
  <2>7. /\ \/ Assets' = Stock(Channels, 1..i, {}, {"ipa"}) /\ NextChannel("enable")
           \/ Assets' = Stock(Channels, 1..(i-1), {}, {"ipa"})
              /\ RevertFrom("setup_revert")
        /\ Redirected'
    <3>1. CASE /\ drv' = EnableEvent(RequestEvent(drv, i), i)
               /\ fl' = [fl EXCEPT !.evAllocated = @ \cup {i},
                                   !.evEnabled = @ \cup {i}]
               /\ NextChannel("enable")
      <4>1. /\ Assets' = Stock(Channels, (1..(i-1)) \cup {i}, {}, {"ipa"})
            /\ drv'.rss = (IF i \in RxChannels THEN "ipa" ELSE drv.rss)
        BY <1>t, <2>1, <2>2, <3>1, SetupAssets
      <4>2. drv'.ev = drv.ev \cup {i}
        BY <2>3, <4>1, FieldsAfter
      <4>3. Redirected'
        BY <2>2, <4>1, <4>2 DEF Redirected
      <4> QED
        BY <2>3, <3>1, <4>1, <4>3
    <3>2. CASE RevertFrom("setup_revert") /\ UNCHANGED <<drv, fl, kernel>>
      BY <2>2, <3>2 DEF Assets, Redirected
    <3> QED
      BY <2>6, <3>1, <3>2
  <2>8. NoOops' /\ Registered' /\ Flushing'
    BY <1>4, <2>1, <2>6 DEF SetupEvent, NoOops, Registered, Flushing, netVars,
       ctlVars, queueVars, NextChannel, RevertFrom
  <2>9. Pipeline'
    BY <2>1, <2>2, <2>7, IntervalEnds, Intervals DEF Pipeline, Deciding,
       NextChannel, RevertFrom
  <2>10. Drains'
    BY <1>4, <2>1, <2>6, StageDrains DEF SetupEvent, NextChannel,
       RevertFrom, queueVars, ctlVars, Deciding, BringUp
  <2> QED
    BY <1>0, <2>7, <2>8, <2>9, <2>10
<1>5. CASE SetupRevert
  <2>1. /\ pc = "setup_revert" /\ Assets = Stock(Channels, 1..i, {}, {"ipa"})
        /\ state # "ONLINE" /\ UNCHANGED <<state, held>>
    BY <1>5 DEF SetupRevert, At, Pipeline, Deciding
  <2>2. Registered' /\ UNCHANGED <<refresh, waitP, waitR, bind, user, idev>>
    BY <1>5 DEF SetupRevert, Registered, netVars, ctlVars, queueVars
  <2>3. CASE i = 0
    <3>1. /\ GoTo("ipa_unregister") /\ err' = {"unwinding"}
          /\ UNCHANGED <<fl, drv, kernel>>
      BY <1>5, <2>3 DEF SetupRevert
    <3>2. Assets' = Stock(Channels, {}, {}, {"ipa"})
      BY <2>1, <2>3, <3>1, IntervalEnds DEF Assets
    <3>3. NoOops' /\ Redirected' /\ Flushing'
      BY <2>2, <3>1 DEF NoOops, Redirected, Flushing, GoTo
    <3>4. Pipeline'
      BY <2>1, <3>1, <3>2 DEF Pipeline, Deciding, GoTo
    <3>5. Drains'
      BY <2>1, <2>2, <3>1, StageDrains DEF GoTo, Deciding, Revert, BringUp
    <3> QED
      BY <1>0, <2>2, <3>3, <3>4, <3>5
  <2>4. CASE i > 0
    <3>1. i \in Channels
      BY <1>t, <2>4, IntervalEnds DEF Channels
    <3>2. TeardownEvent /\ RevertFrom(pc) /\ UNCHANGED err
      BY <1>5, <2>4, <1>t DEF SetupRevert
    <3>3. (1..i) \ {i} = 1..(i-1) /\ i \in 1..i
      BY <3>1, Intervals
    <3>4. /\ Assets' = Stock(Channels, (1..i) \ {i}, {}, {"ipa"})
          /\ drv'.rss = (IF i \in RxChannels THEN "default" ELSE drv.rss)
      BY <1>t, <2>1, <3>1, <3>2, <3>3, TeardownAssets DEF TeardownEvent
    <3>5. drv.ring = Channels /\ drv'.ev = drv.ev \ {i}
      BY <2>1, <3>4, Fields, FieldsAfter
    <3>6. NoOops' /\ Flushing'
      BY <2>2, <3>1, <3>2, <3>5 DEF NoOops, Flushing, TeardownEvent, Oops,
         NullRing, RevertFrom
    <3>7. Redirected'
      BY <3>2, <3>4, <3>5 DEF Redirected
    <3>8. Pipeline'
      BY <2>1, <3>2, <3>3, <3>4 DEF Pipeline, Deciding, RevertFrom
    <3>9. Drains'
      BY <2>1, <2>2, <3>2, StageDrains DEF RevertFrom, Deciding, Revert
    <3> QED
      BY <1>0, <2>2, <3>6, <3>7, <3>8, <3>9
  <2> QED
    BY <1>t, <2>3, <2>4
<1>6. CASE StartChannel
  <2>1. i \in Channels /\ pc = "enable"
    BY <1>6 DEF StartChannel, At, TypeInv, StageIndex, BringUp
  <2>2. /\ Assets = Stock(Channels, Channels, 1..(i-1), {"ipa"})
        /\ state # "ONLINE" /\ UNCHANGED <<state, held, err>>
    BY <1>6, <2>1 DEF StartChannel, Pipeline, Deciding
  <2>3. drv.ring = Channels /\ drv.ev = Channels
    BY <2>2, Fields
  <2>4. /\ drv' = EnableChannel(drv, i)
        /\ fl' = [fl EXCEPT !.enabled = @ \cup {i}]
        /\ NextChannel("disable_pc")
        /\ kernel' = kernel
    BY <1>6, <2>1, <2>3 DEF StartChannel, EnableChannelFails, NullRing,
       Survivable, UnwoundFaults
  <2>5. (1..(i-1)) \cup {i} = 1..i
    BY <2>1, Intervals
  <2>6. /\ Assets' = Stock(Channels, Channels, (1..(i-1)) \cup {i}, {"ipa"})
        /\ drv'.rss = drv.rss
    BY <1>t, <2>1, <2>2, <2>4, StartAssets
  <2>7. drv'.ev = drv.ev
    BY <2>3, <2>6, FieldsAfter
  <2>8. NoOops' /\ Redirected' /\ Registered' /\ Flushing'
    BY <1>6, <2>1, <2>2, <2>4, <2>6, <2>7 DEF StartChannel, NoOops,
       Redirected, Registered, Flushing, ctlVars, queueVars, NextChannel
  <2>9. Pipeline'
    <3>1. Assets' = Stock(Channels, Channels, 1..i, {"ipa"})
      BY <2>5, <2>6
    <3> QED
      BY <2>1, <2>2, <2>4, <3>1, IntervalEnds, Intervals DEF Pipeline,
         Deciding, NextChannel
  <2>10. Drains'
    BY <1>6, <2>1, <2>4, StageDrains DEF StartChannel, NextChannel,
       queueVars, ctlVars, Deciding, BringUp
  <2> QED
    BY <1>0, <2>8, <2>9, <2>10
<1>7. CASE EnableRevert
  BY <1>7 DEF EnableRevert, At, Pipeline
<1>8. CASE DisablePc
  <2>1. /\ pc = "disable_pc"
        /\ Assets = Stock(Channels, Channels, Channels, {"ipa"})
        /\ UNCHANGED <<drv, fl>>
        /\ state # "ONLINE"
    BY <1>8 DEF DisablePc, At, Pipeline, Deciding
  <2>2. NoOops' /\ Redirected' /\ Registered' /\ Flushing'
    BY <1>8, <2>1 DEF DisablePc, NoOops, Redirected, Registered, Flushing,
       GoTo, Finish, netVars, ctlVars
  <2>3. \/ state' = "ONLINE" /\ Finish /\ held' = {"ipa", "pc"}
        \/ GoTo("disable") /\ state' = state /\ waitR' = waitR /\ held' = {"ipa"}
    BY <1>8, <2>1, Fields DEF DisablePc
  <2>4. \/ state' = "ONLINE" /\ Finish /\ Assets' = Complete
        \/ GoTo("disable") /\ state' = state
           /\ Assets' = Stock(Channels, Channels, Channels, {"ipa"})
    BY <2>1, <2>3, HeldAssets DEF Complete
  <2>5. Pipeline'
    BY <2>1, <2>4, IntervalEnds DEF Pipeline, Deciding, GoTo, Finish
  <2>6. Drains'
    BY <1>8, <2>1, <2>3, StageDrains, FinishDrains DEF DisablePc, GoTo,
       ctlVars, Deciding, BringUp, Revert
  <2> QED
    BY <1>0, <2>2, <2>5, <2>6
<1> QED
  BY <1>1, <1>2, <1>3, <1>4, <1>5, <1>6, <1>7, <1>8

(* The stages of ioss_iface_set_offline and of the error labels of         *)
(* ioss_iface_set_online.                                                  *)
LEMMA TearDownSafe ==
    ASSUME Survivable, SafeInv,
           \/ EnablePc \/ DisableChannels \/ TeardownEvents \/ IpaUnregister
           \/ FreeChannels
    PROVE  SafeInv'
<1> USE DEF SafeInv
<1>0. TypeInv'
  BY WorkTypes DEF Work
<1>t. drv \in Rings /\ Gates = {}
  BY DEF TypeInv, TypeOK, OffloadOK, Survivable
<1>1. CASE EnablePc
  <2>1. /\ pc = "enable_pc" /\ GoTo("disable") /\ UNCHANGED <<drv, fl, state>>
        /\ Assets = Complete /\ state # "ONLINE" /\ held' = held \ {"pc"}
    BY <1>1 DEF EnablePc, At, Pipeline, Deciding, Survivable, UnwoundFaults
  <2>2. NoOops' /\ Redirected' /\ Registered' /\ Flushing'
    BY <1>1, <2>1 DEF EnablePc, NoOops, Redirected, Registered, Flushing,
       GoTo, queueVars, netVars, ctlVars
  <2>3. held' = {"ipa"}
    BY <2>1, Fields DEF Complete
  <2>4. Assets' = Stock(Channels, Channels, Channels, {"ipa"})
    BY <2>1, <2>3, HeldAssets DEF Complete
  <2>5. Pipeline'
    BY <2>1, <2>4, IntervalEnds DEF Pipeline, Deciding, GoTo
  <2>6. Drains'
    BY <1>1, <2>1, StageDrains DEF EnablePc, GoTo, queueVars, ctlVars,
       Deciding, BringUp, Revert
  <2> QED
    BY <1>0, <2>2, <2>5, <2>6
<1>2. CASE DisableChannels
  <2>1. i \in Channels /\ pc = "disable"
    BY <1>2 DEF DisableChannels, At, TypeInv, StageIndex, TearDown
  <2>2. /\ Assets = Stock(Channels, Channels, i..N, {"ipa"})
        /\ state # "ONLINE" /\ UNCHANGED <<state, held, err>>
        /\ StopChannel /\ NextChannel("teardown")
    BY <1>2, <2>1 DEF DisableChannels, Pipeline, Deciding
  <2>3. /\ Assets' = Stock(Channels, Channels, (i..N) \ {i}, {"ipa"})
        /\ drv'.rss = drv.rss
    BY <1>t, <2>1, <2>2, StopAssets DEF StopChannel
  <2>4. drv'.ev = drv.ev
    BY <2>2, <2>3, Fields, FieldsAfter
  <2>5. NoOops' /\ Redirected' /\ Registered' /\ Flushing'
    BY <1>2, <2>1, <2>2, <2>3, <2>4 DEF DisableChannels, NoOops, Redirected,
       Registered, Flushing, netVars, ctlVars, queueVars, NextChannel
  <2>6. Assets' = Stock(Channels, Channels, (i+1)..N, {"ipa"})
    BY <2>1, <2>3, Intervals
  <2>7. Pipeline'
    BY <2>1, <2>2, <2>6, IntervalEnds, Intervals DEF Pipeline, Deciding,
       NextChannel
  <2>8. Drains'
    BY <1>2, <2>1, <2>2, StageDrains DEF DisableChannels, NextChannel,
       queueVars, ctlVars, Deciding, BringUp, Revert
  <2> QED
    BY <1>0, <2>5, <2>7, <2>8
<1>3. CASE TeardownEvents
  <2>1. i \in Channels /\ pc = "teardown"
    BY <1>3 DEF TeardownEvents, At, TypeInv, StageIndex, TearDown
  <2>2. /\ Assets = Stock(Channels, i..N, {}, {"ipa"}) /\ state # "ONLINE"
        /\ held' = held /\ TeardownEvent /\ NextChannel("ipa_unregister")
    BY <1>3, <2>1 DEF TeardownEvents, Pipeline, Deciding
  <2>3. /\ drv.ring = Channels /\ drv.ev = i..N /\ i \in i..N
        /\ (i..N) \ {i} = (i+1)..N
    BY <2>1, <2>2, Fields, Intervals
  <2>4. state' = state /\ "rc" \notin err'
    BY <1>3, <2>3 DEF TeardownEvents, DisableEventFails, StageFailed,
       Redirected
  <2>5. /\ Assets' = Stock(Channels, (i..N) \ {i}, {}, {"ipa"})
        /\ drv'.rss = (IF i \in RxChannels THEN "default" ELSE drv.rss)
    BY <1>t, <2>1, <2>2, <2>3, TeardownAssets DEF TeardownEvent
  <2>6. drv'.ev = drv.ev \ {i}
    BY <2>3, <2>5, FieldsAfter
  <2>7. NoOops' /\ Registered' /\ Flushing'
    BY <1>3, <2>1, <2>2, <2>3 DEF TeardownEvents, TeardownEvent, Oops,
       NullRing, NoOops, Registered, Flushing, netVars, ctlVars, queueVars,
       NextChannel
  <2>8. Redirected'
    BY <2>4, <2>5, <2>6 DEF Redirected
  <2>9. Pipeline'
    <3>1. Assets' = Stock(Channels, (i+1)..N, {}, {"ipa"})
      BY <2>3, <2>5
    <3> QED
      BY <2>1, <2>2, <2>4, <3>1, IntervalEnds, Intervals DEF Pipeline,
         Deciding, NextChannel
  <2>10. Drains'
    BY <1>3, <2>1, <2>2, StageDrains DEF TeardownEvents, NextChannel,
       queueVars, ctlVars, Deciding, BringUp, Revert
  <2> QED
    BY <1>0, <2>7, <2>8, <2>9, <2>10
<1>4. CASE IpaUnregister
  <2>1. /\ pc = "ipa_unregister" /\ GoTo("free") /\ UNCHANGED <<drv, fl, state>>
        /\ Assets = Stock(Channels, {}, {}, {"ipa"}) /\ state # "ONLINE"
        /\ held' = held \ {"ipa"}
    BY <1>4 DEF IpaUnregister, At, Pipeline, Deciding, Survivable,
       UnwoundFaults
  <2>2. NoOops' /\ Redirected' /\ Registered' /\ Flushing'
    BY <1>4, <2>1 DEF IpaUnregister, NoOops, Redirected, Registered,
       Flushing, GoTo, queueVars, netVars, ctlVars
  <2>3. held' = {}
    BY <2>1, Fields
  <2>4. Assets' = Stock(Channels, {}, {}, {})
    BY <2>1, <2>3, HeldAssets
  <2>5. Pipeline'
    BY <2>1, <2>4, IntervalEnds DEF Pipeline, Deciding, GoTo
  <2>6. Drains'
    BY <1>4, <2>1, StageDrains DEF IpaUnregister, GoTo, queueVars, ctlVars,
       Deciding, BringUp, Revert
  <2> QED
    BY <1>0, <2>2, <2>5, <2>6
<1>5. CASE FreeChannels
  <2>1. i \in Channels /\ pc = "free"
    BY <1>5 DEF FreeChannels, At, TypeInv, StageIndex, TearDown
  <2>2. /\ Assets = Stock(i..N, {}, {}, {}) /\ state # "ONLINE"
        /\ UNCHANGED <<held, err>> /\ FreeChannel
    BY <1>5, <2>1 DEF FreeChannels, Pipeline, Deciding
  <2>3. i \in i..N /\ (i..N) \ {i} = (i+1)..N
    BY <2>1, Intervals
  <2>4. Assets' = Stock((i..N) \ {i}, {}, {}, {}) /\ drv'.rss = drv.rss
    BY <1>t, <2>1, <2>2, FreeAssets DEF FreeChannel
  <2>5. drv.ring = i..N /\ drv.ev = {} /\ drv'.ev = {}
    BY <2>2, <2>4, Fields, FieldsAfter
  <2>6. NoOops' /\ Redirected' /\ Registered'
    BY <1>5, <2>2, <2>3, <2>4, <2>5 DEF FreeChannels, FreeChannel, Oops,
       NullRing, NoOops, Redirected, Registered, ctlVars
  <2>7. CASE i < N
    <3>1. pc' = pc /\ i' = i + 1 /\ UNCHANGED <<state, waitR>>
      BY <1>5, <2>1, <2>7, Intervals DEF FreeChannels
    <3>2. Pipeline'
      BY <2>1, <2>2, <2>3, <2>4, <3>1 DEF Pipeline, Deciding
    <3>3. Drains'
      BY <1>5, <2>1, <3>1, StageDrains DEF FreeChannels, ctlVars, Deciding
    <3>4. Flushing'
      BY <1>5, <2>1, <3>1 DEF FreeChannels, Flushing
    <3> QED
      BY <1>0, <2>6, <3>2, <3>3, <3>4
  <2>8. CASE i = N
    <3>1. Finish /\ state' # "ONLINE"
      BY <1>5, <2>1, <2>2, <2>8, Intervals DEF FreeChannels
    <3>2. Assets' = Nothing
      BY <2>3, <2>4, <2>8, IntervalEnds DEF Nothing
    <3>3. Pipeline'
      BY <3>1, <3>2 DEF Pipeline, Deciding, Finish
    <3>4. Drains'
      BY <1>5, <2>1, <3>1, FinishDrains DEF FreeChannels, ctlVars, Deciding
    <3>5. Flushing'
      BY <1>5, <3>1 DEF FreeChannels, Flushing, Finish
    <3> QED
      BY <1>0, <2>6, <3>3, <3>4, <3>5
  <2> QED
    BY <1>5, <2>7, <2>8 DEF FreeChannels
<1> QED
  BY <1>1, <1>2, <1>3, <1>4, <1>5

----------------------------------------------------------------------------
(* The other actors. *)

(* The net device core, without moves, changes nothing but its own state   *)
(* and the queue; the work item that waits takes the lock.                 *)
LEMMA NetSafe ==
    ASSUME Survivable, SafeInv, NetEvents \/ NetWork \/ LinkWatch \/ StartWaits
    PROVE  SafeInv'
<1> USE DEF SafeInv
<1>0. TypeInv'
  BY TypeStep DEF Next
<1>1. /\ UNCHANGED <<offloadVars, workVars, waitP, waitR, iface, ctlVars, kernel>>
      /\ net' \notin {"unlisted", "relisting"}
      /\ refresh' = refresh \/ (Notified /\ refresh' = "queued")
  <2>1. CASE DevClosing
    BY <2>1 DEF DevClosing, queueVars, Notify, Registered
  <2>2. CASE DevClosed
    BY <2>2 DEF DevClosed, queueVars, Registered
  <2>3. CASE DevOpening
    BY <2>3 DEF DevOpening, queueVars, Registered
  <2>4. CASE DevOpened
    BY <2>4 DEF DevOpened, queueVars, Notify, Registered
  <2>5. CASE CarrierChange
    BY <2>5 DEF CarrierChange, queueVars, Registered
  <2>6. CASE LinkWatch
    BY <2>6 DEF LinkWatch, queueVars, Notify, Registered
  <2>7. ~MoveBegin /\ ~MoveUnregister /\ ~MoveRegister
    BY DEF MoveBegin, MoveUnregister, MoveRegister, NetAt, Registered,
       Survivable
  <2>8. CASE StartWaits
    BY <2>8 DEF StartWaits, queueVars, Registered
  <2> QED
    BY <2>1, <2>2, <2>3, <2>4, <2>5, <2>6, <2>7, <2>8 DEF NetEvents, NetWork
<1>2. NoOops' /\ Pipeline' /\ Redirected' /\ Registered'
  BY <1>1 DEF NoOops, Pipeline, Redirected, Registered, Assets, offloadVars,
     workVars, ctlVars
<1>3. Drains' /\ Flushing'
  BY <1>1, NotifyDrains DEF offloadVars, workVars, ctlVars
<1> QED
  BY <1>0, <1>2, <1>3

(* Probe and remove. *)
LEMMA BindSafe ==
    ASSUME Survivable, SafeInv, BindStart \/ BindWork
    PROVE  SafeInv'
<1> USE DEF SafeInv
<1>0. TypeInv'
  BY BindTypes
<1>t. drv \in Rings /\ bind \in BindSteps
  BY DEF TypeInv, TypeOK, OffloadOK, ControlOK
<1>1. CASE AddDevice
  <2>1. pc = "idle" /\ state # "ONLINE" /\ Assets = Nothing /\ bind = "absent"
    BY <1>1 DEF AddDevice, BindAt, Drains, Pipeline, Deciding
  <2>2. Assets' = Nothing /\ drv'.rss = "default" /\ state' # "ONLINE"
    BY <1>1, <2>1 DEF AddDevice, Assets, Nothing, Stock, NoRings, NoFlags
  <2>3. Pipeline'
    BY <1>1, <2>1, <2>2 DEF AddDevice, workVars, Pipeline, Deciding
  <2>4. NoOops' /\ Redirected' /\ Registered' /\ Flushing'
    BY <1>1, <2>2 DEF AddDevice, BindAt, NoOops, Redirected, Registered,
       Flushing, workVars, queueVars, netVars
  <2>5. Drains'
    BY <1>1, <2>1, <2>2 DEF AddDevice, BindAt, Drains, Registered, workVars,
       queueVars
  <2> QED
    BY <1>0, <2>3, <2>4, <2>5
<1>2. CASE RemoveDevice
  <2>1. NoOops' /\ Pipeline' /\ Redirected'
    BY <1>2 DEF RemoveDevice, NoOops, Pipeline, Redirected, Assets,
                offloadVars, workVars
  <2>2. Registered' /\ Flushing'
    BY <1>2, <1>t DEF RemoveDevice, BindAt, Registered, Flushing, BindSteps,
                      workVars, queueVars, netVars
  <2>3. Drains'
    BY <1>2, <1>t DEF RemoveDevice, BindAt, Drains, BindSteps, offloadVars,
                      workVars, queueVars, Drained, Down, Flushed
  <2> QED
    BY <1>0, <2>1, <2>2, <2>3
<1>3. CASE Watch
  <2>1. NoOops' /\ Pipeline' /\ Redirected'
    BY <1>3 DEF Watch, NoOops, Pipeline, Redirected, Assets, offloadVars,
                workVars, EventRegister, Survivable, UnwoundFaults
  <2>2. Registered' /\ Flushing'
    BY <1>3, <1>t DEF Watch, BindAt, Registered, Flushing, BindSteps,
                      workVars, queueVars, netVars, EventRegister, Survivable,
                      UnwoundFaults
  <2>3. Drains'
    BY <1>3, <1>t DEF Watch, BindAt, Drains, BindSteps, offloadVars, workVars,
                      queueVars, EventRegister, Registered
  <2> QED
    BY <1>0, <2>1, <2>2, <2>3
<1>4. CASE UnwatchBegin
  <2>1. NoOops' /\ Pipeline' /\ Redirected'
    BY <1>4 DEF UnwatchBegin, NoOops, Pipeline, Redirected, Assets,
                offloadVars, workVars
  <2>2. Registered' /\ Flushing'
    BY <1>4, <1>t DEF UnwatchBegin, BindAt, Registered, Flushing, BindSteps,
                      workVars, queueVars, netVars
  <2>3. Drains'
    BY <1>4, <1>t DEF UnwatchBegin, BindAt, Drains, BindSteps, offloadVars,
                      workVars, queueVars
  <2> QED
    BY <1>0, <2>1, <2>2, <2>3
<1>5. CASE UnwatchQueue
  <2>1. NoOops' /\ Pipeline' /\ Redirected'
    BY <1>5 DEF UnwatchQueue, NoOops, Pipeline, Redirected, Assets,
                offloadVars, workVars
  <2>2. Registered' /\ Flushing'
    BY <1>5, <1>t DEF UnwatchQueue, BindAt, Registered, Flushing, BindSteps,
                      workVars, queueVars, netVars
  <2>3. Drains'
    BY <1>5, <1>t DEF UnwatchQueue, BindAt, Drains, BindSteps, offloadVars,
                      workVars, queueVars, Drained, Down, Flushed, Registered
  <2> QED
    BY <1>0, <2>1, <2>2, <2>3
<1>6. CASE UnwatchGoingDown
  <2>1. NoOops' /\ Pipeline' /\ Redirected'
    BY <1>6 DEF UnwatchGoingDown, NoOops, Pipeline, Redirected, Assets,
                offloadVars, workVars
  <2>2. Registered' /\ Flushing'
    BY <1>6, <1>t DEF UnwatchGoingDown, BindAt, Registered, Flushing,
                      BindSteps, workVars, queueVars, netVars, Notify
  <2>3. Drains'
    BY <1>6, <1>t DEF UnwatchGoingDown, BindAt, Drains, BindSteps,
                      offloadVars, workVars, queueVars, Drained, Down, Flushed
  <2> QED
    BY <1>0, <2>1, <2>2, <2>3
<1>7. CASE UnwatchUnregister
  <2>1. NoOops' /\ Pipeline' /\ Redirected'
    BY <1>7 DEF UnwatchUnregister, NoOops, Pipeline, Redirected, Assets,
                offloadVars, workVars, BindAt, EventUnregister, Oops,
                Registered
  <2>2. Registered' /\ Flushing'
    BY <1>7, <1>t DEF UnwatchUnregister, BindAt, Registered, Flushing,
                      BindSteps, workVars, queueVars, netVars, EventUnregister
  <2>3. Drains'
    BY <1>7, <1>t DEF UnwatchUnregister, BindAt, Drains, BindSteps,
                      offloadVars, workVars, queueVars, Drained, Down,
                      Flushed, EventUnregister, Registered
  <2> QED
    BY <1>0, <2>1, <2>2, <2>3
<1>8. CASE UnwatchDone
  <2>1. NoOops' /\ Pipeline' /\ Redirected'
    BY <1>8 DEF UnwatchDone, NoOops, Pipeline, Redirected, Assets,
                offloadVars, workVars
  <2>2. Registered' /\ Flushing'
    BY <1>8, <1>t DEF UnwatchDone, BindAt, Registered, Flushing, BindSteps,
                      workVars, queueVars, netVars
  <2>3. Drains'
    BY <1>8, <1>t DEF UnwatchDone, BindAt, Drains, BindSteps, offloadVars,
                      workVars, queueVars, Flushed, Down, Registered
  <2> QED
    BY <1>0, <2>1, <2>2, <2>3
<1> QED
  BY <1>1, <1>2, <1>3, <1>4, <1>5, <1>6, <1>7, <1>8 DEF BindStart, BindWork

(* Who writes suspend_ipa_offload or the online file. *)
LEMMA UserSafe ==
    ASSUME Survivable, SafeInv, UserStart \/ UserWork
    PROVE  SafeInv'
<1> USE DEF SafeInv
<1>0. TypeInv'
  BY UserTypes
<1>t. drv \in Rings /\ user \in {"idle", "queue", "flush"} /\ bind \in BindSteps
  BY DEF TypeInv, TypeOK, OffloadOK, ControlOK
<1>1. CASE StoreSuspend
  <2>1. NoOops' /\ Pipeline' /\ Redirected'
    BY <1>1 DEF StoreSuspend, NoOops, Pipeline, Redirected, Assets,
                offloadVars, workVars, Registered
  <2>2. Registered' /\ Flushing'
    BY <1>1, <1>t DEF StoreSuspend, Registered, Flushing, BindSteps, workVars,
                      queueVars, netVars, UserAt
  <2>3. Drains'
    BY <1>1, <1>t DEF StoreSuspend, Drains, BindSteps, offloadVars, workVars,
                      queueVars, UserAt, Drained
  <2> QED
    BY <1>0, <2>1, <2>2, <2>3
<1>2. CASE OnlineOfflineIdev
  <2>1. NoOops' /\ Pipeline' /\ Redirected'
    BY <1>2 DEF OnlineOfflineIdev, NoOops, Pipeline, Redirected, Assets,
                offloadVars, workVars
  <2>2. Registered' /\ Flushing'
    BY <1>2, <1>t DEF OnlineOfflineIdev, Registered, Flushing, BindSteps,
                      workVars, queueVars, netVars, UserAt
  <2>3. Drains'
    BY <1>2, <1>t DEF OnlineOfflineIdev, Drains, BindSteps, offloadVars,
                      workVars, queueVars, UserAt
  <2> QED
    BY <1>0, <2>1, <2>2, <2>3
<1>3. CASE SetDevOfflineQueue
  <2>1. NoOops' /\ Pipeline' /\ Redirected'
    BY <1>3 DEF SetDevOfflineQueue, NoOops, Pipeline, Redirected, Assets,
                offloadVars, workVars
  <2>2. Registered' /\ Flushing'
    BY <1>3, <1>t DEF SetDevOfflineQueue, Registered, Flushing, BindSteps,
                      workVars, queueVars, netVars, UserAt
  <2>3. Drains'
    BY <1>3, <1>t DEF SetDevOfflineQueue, Drains, BindSteps, offloadVars,
                      workVars, queueVars, UserAt, Drained, Flushed,
                      Registered
  <2> QED
    BY <1>0, <2>1, <2>2, <2>3
<1>4. CASE SetDevOfflineReturn
  <2>1. NoOops' /\ Pipeline' /\ Redirected'
    BY <1>4 DEF SetDevOfflineReturn, NoOops, Pipeline, Redirected, Assets,
                offloadVars, workVars
  <2>2. Registered' /\ Flushing'
    BY <1>4, <1>t DEF SetDevOfflineReturn, Registered, Flushing, BindSteps,
                      workVars, queueVars, netVars, UserAt
  <2>3. Drains'
    BY <1>4, <1>t DEF SetDevOfflineReturn, Drains, BindSteps, offloadVars,
                      workVars, queueVars, UserAt, Drained, Down, Flushed
  <2> QED
    BY <1>0, <2>1, <2>2, <2>3
<1>5. CASE ResumeIdev
  <2>1. NoOops' /\ Pipeline' /\ Redirected'
    BY <1>5 DEF ResumeIdev, NoOops, Pipeline, Redirected, Assets, offloadVars,
                workVars
  <2>2. Registered' /\ Flushing'
    BY <1>5, <1>t DEF ResumeIdev, Registered, Flushing, BindSteps, workVars,
                      queueVars, netVars, UserAt
  <2>3. Drains'
    BY <1>5, <1>t DEF ResumeIdev, Drains, BindSteps, offloadVars, workVars,
                      queueVars, UserAt
  <2> QED
    BY <1>0, <2>1, <2>2, <2>3
<1>6. ~SetGate
  BY DEF SetGate, Survivable
<1> QED
  BY <1>1, <1>2, <1>3, <1>4, <1>5, <1>6 DEF UserStart, UserWork

----------------------------------------------------------------------------
(* The invariant. *)

LEMMA SafeInit == Init => SafeInv
<1> SUFFICES ASSUME Init PROVE SafeInv
  OBVIOUS
<1>1. TypeInv
  BY TypeInit
<1>2. NoOops /\ Registered /\ Flushing /\ Drains
  BY DEF Init, NoOops, Registered, Flushing, Drains
<1>3. Assets = Nothing /\ Redirected
  BY DEF Init, Assets, Nothing, Stock, NoRings, NoFlags, Redirected
<1>4. Pipeline
  BY <1>3 DEF Init, Pipeline, Deciding
<1> QED
  BY <1>1, <1>2, <1>3, <1>4 DEF SafeInv

LEMMA SafeStep ==
    ASSUME Survivable
    PROVE  SafeInv /\ [Next]_vars => SafeInv'
<1> SUFFICES ASSUME SafeInv, [Next]_vars PROVE SafeInv'
  OBVIOUS
<1>1. CASE Next
  BY <1>1, DecideSafe, BringUpSafe, TearDownSafe, NetSafe, BindSafe, UserSafe
  DEF Next, Work
<1>2. CASE UNCHANGED vars
  <2>1. TypeInv'
    BY <1>2, TypeStep DEF SafeInv
  <2>2. UNCHANGED <<state, fl, drv, held, pc, i, err, refresh, waitP, waitR,
                    iface, dev, rtnl, net, bind, user, idev, kernel>>
    BY <1>2 DEF vars, offloadVars, workVars, queueVars, netVars, ctlVars
  <2>3. NoOops' /\ Pipeline' /\ Redirected' /\ Registered' /\ Flushing'
    BY <2>2 DEF SafeInv, NoOops, Pipeline, Redirected, Registered, Flushing,
       Assets
  <2>4. Drains'
    BY <2>2 DEF SafeInv, Drains, Drained, Down, Flushed
  <2> QED
    BY <2>1, <2>3, <2>4 DEF SafeInv
<1> QED
  BY <1>1, <1>2

(* The inductive invariant holds always: whatever ioss_iface_set_online    *)
(* unwinds fails, and however the actors interleave, each stage finds      *)
(* exactly what it expects.                                                *)
THEOREM SafeInvariant ==
    ASSUME Survivable
    PROVE  Spec => []SafeInv
<1>1. SafeInv /\ [Next]_vars => SafeInv'
  BY SafeStep
<1> QED
  BY <1>1, SafeInit, PTL DEF Spec

(* Rings, events and the RSS table, stage by stage. *)
LEMMA StockParts ==
    ASSUME SafeInv
    PROVE  /\ drv.evOn = drv.ev
           /\ \/ drv.on = {} /\ drv.ev = {} /\ "ipa" \notin held
              \/ /\ drv.ring = Channels /\ "ipa" \in held
                 /\ drv.on \subseteq Channels /\ drv.ev \subseteq Channels
<1>1. drv \in Rings /\ pc \in WorkSteps
  BY DEF SafeInv, TypeInv, TypeOK, OffloadOK, WorkOK
<1>2. \/ \E r : Assets = Stock(r, {}, {}, {})
      \/ \E e, o, h : Assets = Stock(Channels, e, o, h) /\ "ipa" \in h
  BY <1>1 DEF SafeInv, Pipeline, WorkSteps, BringUp, Revert, TearDown,
     Deciding, Complete, Nothing
<1>3. CASE \E r : Assets = Stock(r, {}, {}, {})
  BY <1>3, Fields
<1>4. CASE \E e, o, h : Assets = Stock(Channels, e, o, h) /\ "ipa" \in h
  <2>1. PICK e, o, h : Assets = Stock(Channels, e, o, h) /\ "ipa" \in h
    BY <1>4
  <2>2. drv.ring = Channels /\ "ipa" \in held /\ drv.evOn = drv.ev
    BY <2>1, Fields
  <2> QED
    BY <1>1, <2>2 DEF Rings
<1> QED
  BY <1>2, <1>3, <1>4

----------------------------------------------------------------------------
(* What it implies. *)

(* No step of the life cycle follows a NULL pointer, as long as only what  *)
(* set_online unwinds fails.                                               *)
THEOREM NeverOops ==
    ASSUME Survivable
    PROVE  Spec => []NoOops
<1>1. SafeInv => NoOops
  BY DEF SafeInv
<1> QED
  BY <1>1, SafeInvariant, PTL

(* The device never uses a ring that was freed. *)
THEOREM RingsIdleWhenFreed ==
    ASSUME Survivable
    PROVE  Spec => []FreedRingsAreIdle
<1>1. SafeInv => FreedRingsAreIdle
  BY StockParts DEF SafeInv, FreedRingsAreIdle, Redirected
<1> QED
  BY <1>1, SafeInvariant, PTL

(* No ring is freed under a connected pipe. *)
THEOREM PipesOnRings ==
    ASSUME Survivable
    PROVE  Spec => []PipesHaveRings
<1>1. SafeInv => PipesHaveRings
  BY StockParts DEF PipesHaveRings
<1> QED
  BY <1>1, SafeInvariant, PTL

(* ONLINE always means a complete offload path. *)
THEOREM OnlineComplete ==
    ASSUME Survivable
    PROVE  Spec => []OnlineIsComplete
<1>1. SafeInv => OnlineIsComplete
  <2> SUFFICES ASSUME SafeInv, state = "ONLINE"
               PROVE  OnlineIsComplete
    BY DEF OnlineIsComplete
  <2>1. Assets = Complete
    BY DEF SafeInv, Pipeline
  <2> QED
    BY <2>1, Fields DEF Complete, OnlineIsComplete
<1> QED
  BY <1>1, SafeInvariant, PTL

(* Every failed bring-up and every teardown leave nothing behind. *)
THEOREM NothingLeftBehind ==
    ASSUME Survivable
    PROVE  Spec => []IdleHoldsNothing
<1>1. SafeInv => IdleHoldsNothing
  <2> SUFFICES ASSUME SafeInv, pc = "idle", state # "ONLINE"
               PROVE  HoldsNothing
    BY DEF IdleHoldsNothing
  <2>1. Assets = Nothing /\ drv \in Rings
    BY DEF SafeInv, Pipeline, Deciding, TypeInv, TypeOK, OffloadOK
  <2>2. /\ drv.ring = {} /\ drv.ev = {} /\ drv.evOn = {} /\ drv.on = {}
        /\ fl = NoFlags /\ held = {}
    BY <2>1, Fields DEF Nothing, NoFlags
  <2>3. drv.rss = "default"
    BY <2>1, <2>2 DEF SafeInv, Redirected, Rings
  <2>4. drv = NoRings(drv.skip)
    BY <2>1, <2>2, <2>3 DEF NoRings, Rings
  <2> QED
    BY <2>2, <2>4 DEF HoldsNothing
<1> QED
  BY <1>1, SafeInvariant, PTL

(* When remove has returned nothing of the interface is in use. *)
THEOREM RemoveIsQuiet ==
    ASSUME Survivable
    PROVE  Spec => []UnwatchedIsQuiet
<1>1. SafeInv => UnwatchedIsQuiet
  BY DEF SafeInv, Drains, Registered, UnwatchedIsQuiet
<1> QED
  BY <1>1, SafeInvariant, PTL

(* A write of 1 to suspend_ipa_offload returns with the path down. *)
THEOREM SuspendIsSynchronous ==
    ASSUME Survivable
    PROVE  Spec => OfflineIsSynchronous
<1>1. SafeInv /\ [Next]_vars =>
          [user = "flush" /\ user' = "idle" /\ "offline" \in idev
               => /\ state # "ONLINE"
                  /\ pc \in TearDown => "unwinding" \in err]_vars
  <2> SUFFICES ASSUME SafeInv, Next, user = "flush", user' = "idle",
                      "offline" \in idev
               PROVE  state # "ONLINE" /\ pc \notin TearDown
    OBVIOUS
  <2>1. SetDevOfflineReturn
    <3>1. ~Work /\ ~StartWaits
      BY DEF Work, StartWaits, ctlVars, RefreshStart, FetchLinkSpeed, EnterSetOnline,
             EnterSetOffline, AllocChannel, AllocRevert, IpaRegister,
             SetupEvent, SetupRevert, StartChannel, EnableRevert, DisablePc,
             EnablePc, DisableChannels, TeardownEvents, IpaUnregister,
             FreeChannels
    <3>2. ~NetEvents /\ ~NetWork /\ ~LinkWatch
      BY DEF NetEvents, NetWork, LinkWatch, ctlVars, DevClosing, DevOpening,
             CarrierChange, MoveBegin, DevClosed, DevOpened, MoveUnregister,
             MoveRegister
    <3>3. ~BindStart /\ ~BindWork
      BY DEF BindStart, BindWork, AddDevice, RemoveDevice, Watch,
             UnwatchBegin, UnwatchQueue, UnwatchGoingDown,
             UnwatchUnregister, UnwatchDone
    <3>4. ~UserStart /\ ~SetDevOfflineQueue
      BY DEF UserStart, StoreSuspend, OnlineOfflineIdev, ResumeIdev, SetGate,
             SetDevOfflineQueue, UserAt, ctlVars
    <3> QED
      BY <3>1, <3>2, <3>3, <3>4 DEF Next, UserWork
  <2>2. Drained("user") /\ Flushed("user")
    BY <2>1 DEF SetDevOfflineReturn, SafeInv, Drains
  <2> QED
    BY <2>2 DEF Drained, Down, Deciding, TearDown
<1> QED
  BY <1>1, SafeInvariant, PTL DEF Spec, OfflineIsSynchronous

----------------------------------------------------------------------------
(* IossNet implements the safety part of OffloadPath: every step of the    *)
(* work item, the notifier, the bind thread and the user is a step of the  *)
(* abstract path, or leaves it alone.                                      *)

(* The way down of ioss_iface_set_offline begins without an error; the     *)
(* other stages of the teardown are told apart by "unwinding".             *)
WayInv == pc = "enable_pc" => "unwinding" \notin err

(* The part of the state that the abstract path sees, and that a step must *)
(* change to be seen.                                                      *)
Seen == <<drv.ring, drv.ev, drv.on, held, state, Way>>

LEMMA UnseenStutters ==
    ASSUME Seen' = Seen
    PROVE  UNCHANGED Path!vars
BY DEF Seen, Path!vars, Path!layers, Pipes, Vote

(* What the operations of the glue driver do to the layers when no gate is *)
(* set.                                                                    *)
LEMMA RingLayer ==
    ASSUME drv \in Rings, drv.skip = {}, NEW c \in Channels
    PROVE  /\ RequestChannel(drv, c).ring = drv.ring \cup {c}
           /\ RequestChannel(drv, c).ev = drv.ev
           /\ RequestChannel(drv, c).on = drv.on
           /\ ReleaseChannel(drv, c).ring = drv.ring \ {c}
           /\ ReleaseChannel(drv, c).ev = drv.ev
           /\ ReleaseChannel(drv, c).on = drv.on
           /\ c \notin drv.ring =>
                  /\ ReleaseChannel(RequestChannel(drv, c), c).ring = drv.ring
                  /\ ReleaseChannel(RequestChannel(drv, c), c).ev = drv.ev
                  /\ ReleaseChannel(RequestChannel(drv, c), c).on = drv.on
BY DEF Rings, RequestChannel, ReleaseChannel

LEMMA DoorbellLayer ==
    ASSUME drv \in Rings, drv.skip = {}, NEW c \in Channels
    PROVE  /\ EnableEvent(RequestEvent(drv, c), c).ring = drv.ring
           /\ EnableEvent(RequestEvent(drv, c), c).ev = drv.ev \cup {c}
           /\ EnableEvent(RequestEvent(drv, c), c).on = drv.on
           /\ ReleaseEvent(DisableEvent(drv, c), c).ring = drv.ring
           /\ ReleaseEvent(DisableEvent(drv, c), c).ev = drv.ev \ {c}
           /\ ReleaseEvent(DisableEvent(drv, c), c).on = drv.on
BY DEF Rings, RequestEvent, EnableEvent, ReleaseEvent, DisableEvent

LEMMA FlowLayer ==
    ASSUME drv \in Rings, drv.skip = {}, NEW c \in Channels
    PROVE  /\ EnableChannel(drv, c).ring = drv.ring
           /\ EnableChannel(drv, c).ev = drv.ev
           /\ EnableChannel(drv, c).on = drv.on \cup {c}
           /\ c \in drv.ring =>
                  /\ DisableChannel(drv, c).ring = drv.ring
                  /\ DisableChannel(drv, c).ev = drv.ev
                  /\ DisableChannel(drv, c).on = drv.on \ {c}
BY DEF Rings, EnableChannel, DisableChannel, NullRing

(* What every stage finds, layer by layer.                                 *)
LEMMA StageLayers ==
    ASSUME SafeInv
    PROVE  /\ pc = "alloc" =>
                  /\ i \in Channels /\ i \notin drv.ring
                  /\ drv.ev = {} /\ drv.on = {} /\ held = {}
           /\ pc = "alloc_revert" =>
                  /\ i \in 0..N /\ drv.ring = 1..i
                  /\ drv.ev = {} /\ drv.on = {} /\ held = {}
           /\ pc = "ipa_register" =>
                  /\ drv.ring = Channels
                  /\ drv.ev = {} /\ drv.on = {} /\ held = {}
           /\ pc = "setup" =>
                  /\ i \in Channels /\ drv.ring = Channels
                  /\ i \notin drv.ev /\ drv.on = {} /\ held = {"ipa"}
           /\ pc = "setup_revert" =>
                  /\ i \in 0..N /\ drv.ring = Channels
                  /\ drv.ev = 1..i /\ drv.on = {} /\ held = {"ipa"}
           /\ pc = "enable" =>
                  /\ i \in Channels /\ drv.ring = Channels
                  /\ drv.ev = Channels /\ i \notin drv.on /\ held = {"ipa"}
           /\ pc = "disable_pc" =>
                  /\ drv.ring = Channels
                  /\ drv.ev = Channels /\ drv.on = Channels /\ held = {"ipa"}
           /\ pc = "enable_pc" => held = {"ipa", "pc"}
           /\ pc = "disable" =>
                  /\ i \in Channels /\ drv.ring = Channels
                  /\ i \in drv.on /\ held = {"ipa"}
           /\ pc = "teardown" =>
                  /\ i \in Channels /\ drv.ring = Channels
                  /\ i \in drv.ev /\ drv.on = {} /\ held = {"ipa"}
           /\ pc = "ipa_unregister" =>
                  /\ drv.ring = Channels
                  /\ drv.ev = {} /\ drv.on = {} /\ held = {"ipa"}
           /\ pc = "free" =>
                  /\ i \in Channels /\ drv.ring = i..N
                  /\ drv.ev = {} /\ drv.on = {} /\ held = {}
<1>1. /\ i \in 0..N
      /\ pc \in BringUp \cup TearDown => i \in Channels
  BY DEF SafeInv, TypeInv, TypeOK, WorkOK, StageIndex
<1>2. \A k \in Channels : k \notin 1..(k-1) /\ k \in k..N
  BY Intervals
<1>3. Pipeline
  BY DEF SafeInv
<1>4. /\ pc = "alloc" => i \in Channels /\ Assets = Stock(1..(i-1), {}, {}, {})
      /\ pc = "setup" =>
             i \in Channels /\ Assets = Stock(Channels, 1..(i-1), {}, {"ipa"})
      /\ pc = "enable" =>
             /\ i \in Channels
             /\ Assets = Stock(Channels, Channels, 1..(i-1), {"ipa"})
      /\ pc = "disable" =>
             i \in Channels /\ Assets = Stock(Channels, Channels, i..N, {"ipa"})
      /\ pc = "teardown" =>
             i \in Channels /\ Assets = Stock(Channels, i..N, {}, {"ipa"})
      /\ pc = "free" => i \in Channels /\ Assets = Stock(i..N, {}, {}, {})
  BY <1>1, <1>3 DEF Pipeline, BringUp, TearDown
<1>5. pc = "alloc" => /\ i \in Channels /\ drv.ring = 1..(i-1)
                     /\ drv.ev = {} /\ drv.on = {} /\ held = {}
  BY <1>4, Fields
<1>6. pc = "setup" => /\ i \in Channels /\ drv.ring = Channels
                     /\ drv.ev = 1..(i-1) /\ drv.on = {} /\ held = {"ipa"}
  BY <1>4, Fields
<1>7. pc = "enable" => /\ i \in Channels /\ drv.ring = Channels
                      /\ drv.ev = Channels /\ drv.on = 1..(i-1) /\ held = {"ipa"}
  BY <1>4, Fields
<1>8. pc = "disable" => /\ i \in Channels /\ drv.ring = Channels
                       /\ drv.ev = Channels /\ drv.on = i..N /\ held = {"ipa"}
  BY <1>4, Fields
<1>9. pc = "teardown" => /\ i \in Channels /\ drv.ring = Channels
                        /\ drv.ev = i..N /\ drv.on = {} /\ held = {"ipa"}
  BY <1>4, Fields
<1>10. pc = "free" => /\ i \in Channels /\ drv.ring = i..N
                    /\ drv.ev = {} /\ drv.on = {} /\ held = {}
  BY <1>4, Fields
<1>11. /\ pc = "alloc_revert" => /\ drv.ring = 1..i
                                 /\ drv.ev = {} /\ drv.on = {} /\ held = {}
       /\ pc = "ipa_register" => /\ drv.ring = Channels
                                 /\ drv.ev = {} /\ drv.on = {} /\ held = {}
       /\ pc = "setup_revert" => /\ drv.ring = Channels /\ drv.ev = 1..i
                                 /\ drv.on = {} /\ held = {"ipa"}
  BY <1>3, Fields DEF Pipeline
<1>12. /\ pc = "disable_pc" => /\ drv.ring = Channels /\ drv.ev = Channels
                               /\ drv.on = Channels /\ held = {"ipa"}
       /\ pc = "enable_pc" => held = {"ipa", "pc"}
       /\ pc = "ipa_unregister" => /\ drv.ring = Channels
                                   /\ drv.ev = {} /\ drv.on = {}
                                   /\ held = {"ipa"}
  BY <1>3, Fields DEF Pipeline, Complete
<1> QED
  BY <1>1, <1>2, <1>5, <1>6, <1>7, <1>8, <1>9, <1>10, <1>11, <1>12
(* Which way the stages go. *)
LEMMA Ways ==
    /\ pc \in BringUp => Way = "up"
    /\ pc \in Revert => Way = "back"
    /\ pc \in TearDown /\ "unwinding" \in err => Way = "back"
    /\ pc \in TearDown /\ "unwinding" \notin err => Way = "down"
    /\ pc = "enable_pc" => Way = "down"
    /\ pc \in Deciding => Way = "none"
BY DEF Way, BringUp, Revert, TearDown, Deciding

LEMMA WaysAfter ==
    /\ pc' \in BringUp => Way' = "up"
    /\ pc' \in Revert => Way' = "back"
    /\ pc' \in TearDown /\ "unwinding" \in err' => Way' = "back"
    /\ pc' \in TearDown /\ "unwinding" \notin err' => Way' = "down"
    /\ pc' = "enable_pc" => Way' = "down"
    /\ pc' \in Deciding => Way' = "none"
BY DEF Way, BringUp, Revert, TearDown, Deciding

----------------------------------------------------------------------------
(* The steps. *)

(* What is not a step of the work item is seen only when a new device      *)
(* takes the place of the old one.                                         *)
LEMMA OthersImplement ==
    ASSUME Survivable, SafeInv, NetEvents \/ NetWork \/ LinkWatch
                                \/ BindStart \/ BindWork
                                \/ UserStart \/ UserWork
    PROVE  Path!Renew \/ UNCHANGED Path!vars
<1>1. CASE AddDevice
  <2>1. /\ pc = "idle" /\ Assets = Nothing
        /\ drv' = NoRings(drv.skip) /\ state' = "OFFLINE"
        /\ UNCHANGED <<held, pc, err>>
    BY <1>1 DEF AddDevice, BindAt, SafeInv, Drains, Pipeline, Deciding,
       workVars
  <2>2. Way = "none" /\ Way' = "none"
    BY <2>1, Ways, WaysAfter DEF Deciding
  <2>3. /\ drv.ring = {} /\ drv.ev = {} /\ drv.on = {}
        /\ drv'.ring = {} /\ drv'.ev = {} /\ drv'.on = {}
    BY <2>1, Fields DEF Nothing, NoRings
  <2> QED
    BY <2>1, <2>2, <2>3 DEF Path!Renew, Path!layers, Pipes, Vote
<1>2. CASE UNCHANGED <<drv, held, state, pc, err>>
  <2>1. Seen' = Seen
    BY <1>2 DEF Seen, Way
  <2> QED
    BY <2>1, UnseenStutters
<1>3. CASE NetEvents \/ NetWork \/ LinkWatch
  <2>1. ~MoveRegister
    BY DEF MoveRegister, NetAt, SafeInv, Registered
  <2>2. UNCHANGED <<drv, held, state, pc, err>>
    BY <1>3, <2>1 DEF NetEvents, NetWork, LinkWatch, DevClosing, DevOpening,
       CarrierChange, MoveBegin, DevClosed, DevOpened, MoveUnregister,
       offloadVars, workVars
  <2> QED
    BY <1>2, <2>2
<1>4. CASE BindStart \/ BindWork
  <2>1. CASE Watch
    BY <1>2, <2>1 DEF Watch, EventRegister, Survivable, UnwoundFaults,
       offloadVars, workVars
  <2>2. CASE ~AddDevice /\ ~Watch
    BY <1>2, <1>4, <2>2 DEF BindStart, BindWork, RemoveDevice, UnwatchBegin,
       UnwatchQueue, UnwatchGoingDown, UnwatchUnregister, UnwatchDone,
       offloadVars, workVars
  <2> QED
    BY <1>1, <2>1, <2>2
<1>5. CASE UserStart \/ UserWork
  <2>1. ~SetGate
    BY DEF SetGate, Survivable
  <2> QED
    BY <1>2, <1>5, <2>1 DEF UserStart, UserWork, StoreSuspend,
       OnlineOfflineIdev, ResumeIdev, SetDevOfflineQueue,
       SetDevOfflineReturn, offloadVars, workVars
<1> QED
  BY <1>3, <1>4, <1>5

(* The refresh decides: the path is begun, or withdrawn, or left alone.    *)
LEMMA DecideImplements ==
    ASSUME SafeInv,
           RefreshStart \/ FetchLinkSpeed \/ EnterSetOnline \/ EnterSetOffline
    PROVE  Path!Begin \/ Path!Withdraw \/ UNCHANGED Path!vars
<1>1. UNCHANGED <<drv, held>> /\ pc \in Deciding
  BY DEF RefreshStart, FetchLinkSpeed, EnterSetOnline, EnterSetOffline,
     offloadVars, At, Deciding
<1>2. CASE pc' \in Deciding /\ state' = state
  <2>1. Seen' = Seen
    BY <1>1, <1>2, Ways, WaysAfter DEF Seen
  <2> QED
    BY <2>1, UnseenStutters
<1>3. CASE pc' = "alloc" /\ state = "OFFLINE" /\ state' = state
  BY <1>1, <1>3, Ways, WaysAfter
  DEF Path!Begin, Path!layers, Pipes, Vote, BringUp
<1>4. CASE pc' = "enable_pc" /\ state = "ONLINE" /\ state' = "OFFLINE"
  BY <1>1, <1>4, Ways, WaysAfter DEF Path!Withdraw, Path!layers, Pipes, Vote
<1> QED
  BY <1>2, <1>3, <1>4 DEF RefreshStart, FetchLinkSpeed, EnterSetOnline,
     EnterSetOffline, offloadVars, At, Finish, GoTo, Deciding
(* ioss_iface_set_online builds the path layer by layer, and turns back    *)
(* where a stage fails.                                                    *)
LEMMA BringUpImplements ==
    ASSUME Survivable, SafeInv,
           \/ AllocChannel \/ AllocRevert \/ IpaRegister \/ SetupEvent
           \/ SetupRevert \/ StartChannel \/ EnableRevert \/ DisablePc
    PROVE  Path!Progress \/ UNCHANGED Path!vars
<1>t. drv \in Rings /\ drv.skip = {} /\ Gates = {} /\ i \in 0..N
  BY DEF SafeInv, TypeInv, TypeOK, OffloadOK, WorkOK, Survivable, Rings
<1> USE DEF Path!Progress
<1>1. CASE AllocChannel
  <2>1. /\ pc = "alloc" /\ i \in Channels /\ i \notin drv.ring /\ held = {}
        /\ UNCHANGED <<held, state, err>>
    BY <1>1, StageLayers DEF AllocChannel, At
  <2>2. Way = "up" /\ Pipes = "none" /\ UNCHANGED <<Pipes, Vote>>
    BY <2>1, Ways DEF Pipes, Vote, BringUp
  <2>3. \/ drv' = RequestChannel(drv, i) /\ pc' \in {"alloc", "ipa_register"}
        \/ /\ drv' = ReleaseChannel(RequestChannel(drv, i), i)
           /\ pc' = "alloc_revert"
    BY <1>1, <2>1 DEF AllocChannel, NextChannel, RevertFrom, Survivable,
       UnwoundFaults
  <2>4. CASE drv' = RequestChannel(drv, i) /\ pc' \in {"alloc", "ipa_register"}
    <3>1. /\ drv'.ring = drv.ring \cup {i} /\ drv'.ev = drv.ev
          /\ drv'.on = drv.on
      BY <1>t, <2>1, <2>4, RingLayer
    <3>2. Way' = "up"
      BY <2>4, WaysAfter DEF BringUp
    <3>3. Path!AddRing(i)
      BY <2>1, <2>2, <3>1, <3>2 DEF Path!AddRing
    <3> QED
      BY <2>1, <3>3
  <2>5. CASE /\ drv' = ReleaseChannel(RequestChannel(drv, i), i)
             /\ pc' = "alloc_revert"
    <3>1. UNCHANGED <<drv.ring, drv.ev, drv.on>>
      BY <1>t, <2>1, <2>5, RingLayer
    <3>2. Way' = "back"
      BY <2>5, WaysAfter DEF Revert
    <3>3. Path!TurnBack
      BY <2>1, <2>2, <3>1, <3>2 DEF Path!TurnBack, Path!layers
    <3> QED
      BY <3>3
  <2> QED
    BY <2>3, <2>4, <2>5
<1>2. CASE AllocRevert
  <2>1. /\ pc = "alloc_revert" /\ drv.ring = 1..i /\ held = {}
        /\ UNCHANGED <<held, err>>
    BY <1>2, StageLayers DEF AllocRevert, At
  <2>2. Way = "back" /\ Pipes = "none" /\ UNCHANGED <<Pipes, Vote>>
    BY <2>1, Ways DEF Pipes, Vote, Revert
  <2>3. CASE i = 0
    <3>1. state' = "ERROR" /\ pc' = "idle" /\ drv' = drv
      BY <1>2, <2>3 DEF AllocRevert, Finish
    <3>2. Way' = "none"
      BY <3>1, WaysAfter DEF Deciding
    <3>3. drv.ring = {} /\ 1 \in Channels
      BY <2>1, <2>3, IntervalEnds DEF Channels
    <3>4. Path!Finish
      BY <2>2, <3>1, <3>2, <3>3 DEF Path!Finish, Path!GoingDown
    <3> QED
      BY <3>4
  <2>4. CASE i > 0
    <3>1. /\ drv' = ReleaseChannel(drv, i) /\ pc' = pc /\ state' = state
      BY <1>2, <1>t, <2>4 DEF AllocRevert, FreeChannel, RevertFrom
    <3>2. i \in Channels
      BY <1>t, <2>4, IntervalEnds DEF Channels
    <3>3. i \in drv.ring
      BY <2>1, <3>2, Intervals
    <3>4. /\ drv'.ring = drv.ring \ {i} /\ drv'.ev = drv.ev
          /\ drv'.on = drv.on
      BY <1>t, <3>1, <3>2, RingLayer
    <3>5. Way' = "back"
      BY <2>1, <3>1, WaysAfter DEF Revert
    <3>6. Path!DropRing(i)
      BY <2>2, <3>1, <3>3, <3>4, <3>5 DEF Path!DropRing, Path!GoingDown
    <3> QED
      BY <3>2, <3>6
  <2> QED
    BY <1>t, <2>3, <2>4
<1>3. CASE IpaRegister
  <2>1. /\ pc = "ipa_register" /\ drv.ring = Channels /\ held = {}
        /\ UNCHANGED <<drv, state>>
    BY <1>3, StageLayers DEF IpaRegister, At
  <2>2. Way = "up" /\ Pipes = "none" /\ Vote = "none"
    BY <2>1, Ways DEF Pipes, Vote, BringUp
  <2>3. CASE held' = held \cup {"ipa"} /\ GoTo("setup")
    <3>1. Way' = "up" /\ Pipes' = "connected" /\ Vote' = "none"
      BY <2>1, <2>3, WaysAfter DEF GoTo, Pipes, Vote, BringUp
    <3>2. Path!Connect
      BY <2>1, <2>2, <3>1 DEF Path!Connect
    <3> QED
      BY <3>2
  <2>4. CASE GoTo("free") /\ err' = {"unwinding"} /\ held' = held
    <3>1. Way' = "back" /\ UNCHANGED <<Pipes, Vote>>
      BY <2>1, <2>4, WaysAfter DEF GoTo, Pipes, Vote, TearDown
    <3>2. Path!TurnBack
      BY <2>1, <2>2, <3>1 DEF Path!TurnBack, Path!layers
    <3> QED
      BY <3>2
  <2> QED
    BY <1>3, <2>3, <2>4 DEF IpaRegister
<1>4. CASE SetupEvent
  <2>1. /\ pc = "setup" /\ i \in Channels /\ i \in drv.ring
        /\ i \notin drv.ev /\ drv.on = {} /\ held = {"ipa"}
        /\ UNCHANGED <<held, state, err>>
    BY <1>4, StageLayers DEF SetupEvent, At
  <2>2. Way = "up" /\ Pipes = "connected" /\ UNCHANGED <<Pipes, Vote>>
    BY <2>1, Ways DEF Pipes, Vote, BringUp
  <2>3. ~EnableEventFails(RequestEvent(drv, i), i)
    BY <1>t, <2>1 DEF EnableEventFails, RequestEvent, Rings
  <2>4. \/ /\ drv' = EnableEvent(RequestEvent(drv, i), i)
           /\ pc' \in {"setup", "enable"}
        \/ drv' = drv /\ pc' = "setup_revert"
    BY <1>4, <2>1, <2>3 DEF SetupEvent, NextChannel, RevertFrom
  <2>5. CASE /\ drv' = EnableEvent(RequestEvent(drv, i), i)
             /\ pc' \in {"setup", "enable"}
    <3>1. /\ drv'.ring = drv.ring /\ drv'.ev = drv.ev \cup {i}
          /\ drv'.on = drv.on
      BY <1>t, <2>1, <2>5, DoorbellLayer
    <3>2. Way' = "up"
      BY <2>5, WaysAfter DEF BringUp
    <3>3. Path!AddDoorbell(i)
      BY <2>1, <2>2, <3>1, <3>2 DEF Path!AddDoorbell
    <3> QED
      BY <2>1, <3>3
  <2>6. CASE drv' = drv /\ pc' = "setup_revert"
    <3>1. Way' = "back"
      BY <2>6, WaysAfter DEF Revert
    <3>2. Path!TurnBack
      BY <2>1, <2>2, <2>6, <3>1 DEF Path!TurnBack, Path!layers
    <3> QED
      BY <3>2
  <2> QED
    BY <2>4, <2>5, <2>6
<1>5. CASE SetupRevert
  <2>1. /\ pc = "setup_revert" /\ drv.ev = 1..i /\ drv.on = {}
        /\ UNCHANGED <<held, state>>
    BY <1>5, StageLayers DEF SetupRevert, At
  <2>2. Way = "back" /\ UNCHANGED <<Pipes, Vote>>
    BY <2>1, Ways DEF Pipes, Vote, Revert
  <2>3. CASE i = 0
    <3>1. /\ pc' = "ipa_unregister" /\ err' = {"unwinding"}
          /\ drv' = drv
      BY <1>5, <2>3 DEF SetupRevert, GoTo
    <3>2. Way' = "back"
      BY <3>1, WaysAfter DEF TearDown
    <3> QED
      BY <2>1, <2>2, <3>1, <3>2 DEF Path!vars, Path!layers
  <2>4. CASE i > 0
    <3>1. /\ drv' = ReleaseEvent(DisableEvent(drv, i), i)
          /\ pc' = pc
      BY <1>5, <1>t, <2>4 DEF SetupRevert, TeardownEvent, RevertFrom
    <3>2. i \in Channels
      BY <1>t, <2>4, IntervalEnds DEF Channels
    <3>3. i \in drv.ev
      BY <2>1, <3>2, Intervals
    <3>4. /\ drv'.ring = drv.ring /\ drv'.ev = drv.ev \ {i}
          /\ drv'.on = drv.on
      BY <1>t, <3>1, <3>2, DoorbellLayer
    <3>5. Way' = "back"
      BY <2>1, <3>1, WaysAfter DEF Revert
    <3>6. Path!RemoveDoorbell(i)
      BY <2>1, <2>2, <3>1, <3>3, <3>4, <3>5
      DEF Path!RemoveDoorbell, Path!GoingDown
    <3> QED
      BY <3>2, <3>6
  <2> QED
    BY <1>t, <2>3, <2>4
<1>6. CASE StartChannel
  <2>1. /\ pc = "enable" /\ i \in Channels /\ drv.ring = Channels
        /\ drv.ev = Channels /\ i \notin drv.on
        /\ UNCHANGED <<held, state, err>>
    BY <1>6, StageLayers DEF StartChannel, At
  <2>2. drv' = EnableChannel(drv, i) /\ pc' \in {"enable", "disable_pc"}
    BY <1>6, <2>1 DEF StartChannel, EnableChannelFails, NullRing,
       NextChannel, Survivable, UnwoundFaults
  <2>3. /\ drv'.ring = drv.ring /\ drv'.ev = drv.ev
        /\ drv'.on = drv.on \cup {i}
    BY <1>t, <2>1, <2>2, FlowLayer
  <2>4. Way = "up" /\ Way' = "up" /\ UNCHANGED <<Pipes, Vote>>
    BY <2>1, <2>2, Ways, WaysAfter DEF Pipes, Vote, BringUp
  <2>5. Path!StartFlow(i)
    BY <2>1, <2>3, <2>4 DEF Path!StartFlow
  <2> QED
    BY <2>1, <2>5
<1>7. CASE EnableRevert
  BY <1>7 DEF EnableRevert, At, SafeInv, Pipeline
<1>8. CASE DisablePc
  <2>1. /\ pc = "disable_pc" /\ drv.on = Channels /\ held = {"ipa"}
        /\ drv' = drv
    BY <1>8, StageLayers DEF DisablePc, At
  <2>2. Way = "up"
    BY <2>1, Ways DEF BringUp
  <2>3. CASE held' = held \cup {"pc"} /\ state' = "ONLINE" /\ Finish
    <3>1. Way' = "none" /\ Pipes' = Pipes /\ Vote' = "held"
      BY <2>1, <2>3, WaysAfter DEF Finish, Pipes, Vote, Deciding
    <3>2. Path!Complete
      BY <2>1, <2>2, <2>3, <3>1 DEF Path!Complete
    <3> QED
      BY <3>2
  <2>4. CASE /\ GoTo("disable") /\ err' = {"unwinding"}
             /\ UNCHANGED <<held, state>>
    <3>1. Way' = "back" /\ UNCHANGED <<Pipes, Vote>>
      BY <2>4, WaysAfter DEF GoTo, Pipes, Vote, TearDown
    <3>2. Path!TurnBack
      BY <2>1, <2>2, <2>4, <3>1 DEF Path!TurnBack, Path!layers
    <3> QED
      BY <3>2
  <2> QED
    BY <1>8, <2>3, <2>4 DEF DisablePc
<1> QED
  BY <1>1, <1>2, <1>3, <1>4, <1>5, <1>6, <1>7, <1>8

(* ioss_iface_set_offline, and the error labels of ioss_iface_set_online,  *)
(* take it down again, the upper layers first.                             *)
LEMMA TearDownImplements ==
    ASSUME Survivable, SafeInv, WayInv,
           \/ EnablePc \/ DisableChannels \/ TeardownEvents \/ IpaUnregister
           \/ FreeChannels
    PROVE  Path!Progress
<1>t. drv \in Rings /\ drv.skip = {} /\ Gates = {}
  BY DEF SafeInv, TypeInv, TypeOK, OffloadOK, Survivable, Rings
<1> USE DEF Path!Progress, Path!GoingDown
<1>w. ASSUME pc \in TearDown, pc' \in TearDown,
             "unwinding" \in err' <=> "unwinding" \in err
      PROVE  Way \in {"back", "down"} /\ Way' = Way
  BY <1>w, Ways, WaysAfter
<1>1. CASE EnablePc
  <2>1. /\ pc = "enable_pc" /\ held = {"ipa", "pc"} /\ held' = held \ {"pc"}
        /\ pc' = "disable" /\ "unwinding" \notin err
        /\ UNCHANGED <<drv, state, err>>
    BY <1>1, StageLayers DEF EnablePc, At, GoTo, WayInv, Survivable,
       UnwoundFaults
  <2>2. Way = "down" /\ Way' = "down"
    BY <2>1, Ways, WaysAfter DEF TearDown
  <2>3. Path!GiveVote
    BY <2>1, <2>2 DEF Path!GiveVote, Pipes, Vote
  <2> QED
    BY <2>3
<1>2. CASE DisableChannels
  <2>1. /\ pc = "disable" /\ i \in Channels /\ i \in drv.ring
        /\ i \in drv.on /\ held = {"ipa"}
        /\ drv' = DisableChannel(drv, i) /\ pc' \in {"disable", "teardown"}
        /\ UNCHANGED <<held, state, err>>
    BY <1>2, StageLayers DEF DisableChannels, StopChannel, NextChannel, At
  <2>2. /\ drv'.ring = drv.ring /\ drv'.ev = drv.ev
        /\ drv'.on = drv.on \ {i}
    BY <1>t, <2>1, FlowLayer
  <2>3. Way \in {"back", "down"} /\ Way' = Way
    BY <1>w, <2>1 DEF TearDown
  <2>4. Path!StopFlow(i)
    BY <2>1, <2>2, <2>3 DEF Path!StopFlow, Pipes, Vote
  <2> QED
    BY <2>1, <2>4
<1>3. CASE TeardownEvents
  <2>1. /\ pc = "teardown" /\ i \in Channels /\ i \in drv.ev
        /\ drv.on = {} /\ held' = held
        /\ drv' = ReleaseEvent(DisableEvent(drv, i), i)
        /\ pc' \in {"teardown", "ipa_unregister"}
    BY <1>3, StageLayers DEF TeardownEvents, TeardownEvent, NextChannel, At
  <2>2. state' = state /\ ("unwinding" \in err' <=> "unwinding" \in err)
    BY <1>3, <2>1 DEF TeardownEvents, DisableEventFails, StageFailed,
       SafeInv, Redirected
  <2>3. /\ drv'.ring = drv.ring /\ drv'.ev = drv.ev \ {i}
        /\ drv'.on = drv.on
    BY <1>t, <2>1, DoorbellLayer
  <2>4. Way \in {"back", "down"} /\ Way' = Way
    BY <1>w, <2>1, <2>2 DEF TearDown
  <2>5. Path!RemoveDoorbell(i)
    BY <2>1, <2>2, <2>3, <2>4 DEF Path!RemoveDoorbell, Pipes, Vote
  <2> QED
    BY <2>1, <2>5
<1>4. CASE IpaUnregister
  <2>1. /\ pc = "ipa_unregister" /\ drv.ev = {} /\ held = {"ipa"}
        /\ held' = held \ {"ipa"} /\ pc' = "free"
        /\ UNCHANGED <<drv, state, err>>
    BY <1>4, StageLayers DEF IpaUnregister, At, GoTo, Survivable,
       UnwoundFaults
  <2>2. Way \in {"back", "down"} /\ Way' = Way
    BY <1>w, <2>1 DEF TearDown
  <2>3. Path!Disconnect
    BY <2>1, <2>2 DEF Path!Disconnect, Pipes, Vote
  <2> QED
    BY <2>3
<1>5. CASE FreeChannels
  <2>1. /\ pc = "free" /\ i \in Channels /\ drv.ring = i..N /\ held = {}
        /\ drv' = ReleaseChannel(drv, i)
        /\ UNCHANGED <<held, err>>
    BY <1>5, StageLayers DEF FreeChannels, FreeChannel, At
  <2>2. /\ drv'.ring = drv.ring \ {i} /\ drv'.ev = drv.ev
        /\ drv'.on = drv.on
    BY <1>t, <2>1, RingLayer
  <2>3. Pipes = "none" /\ UNCHANGED <<Pipes, Vote>> /\ i \in drv.ring
    BY <2>1, Intervals DEF Pipes, Vote
  <2>4. CASE i < N /\ pc' = pc /\ state' = state
    <3>1. Way \in {"back", "down"} /\ Way' = Way
      BY <1>w, <2>1, <2>4 DEF TearDown
    <3>2. Path!DropRing(i)
      BY <2>2, <2>3, <2>4, <3>1 DEF Path!DropRing
    <3> QED
      BY <2>1, <3>2
  <2>5. CASE /\ i = N /\ pc' = "idle"
             /\ state' = IF "unwinding" \in err THEN "ERROR" ELSE state
    <3>1. Way' = "none"
      BY <2>5, WaysAfter DEF Deciding
    <3>2. Way = IF "unwinding" \in err THEN "back" ELSE "down"
      BY <2>1, Ways DEF TearDown
    <3>3. drv.ring = {i} /\ drv'.ring = {}
      <4>1. i..N = {i}
        BY <2>1, <2>5, IntervalEnds
      <4> QED
        BY <2>1, <2>2, <4>1
    <3>4. Path!Finish
      BY <2>1, <2>2, <2>3, <2>5, <3>1, <3>2, <3>3 DEF Path!Finish
    <3> QED
      BY <3>4
  <2> QED
    BY <1>5, <2>4, <2>5 DEF FreeChannels, Finish
<1> QED
  BY <1>1, <1>2, <1>3, <1>4, <1>5

LEMMA WayStep ==
    ASSUME WayInv, [Next]_vars
    PROVE  WayInv'
<1>1. CASE Work
  BY <1>1 DEF WayInv, Work, RefreshStart, FetchLinkSpeed, EnterSetOnline,
     EnterSetOffline, AllocChannel, AllocRevert, IpaRegister, SetupEvent,
     SetupRevert, StartChannel, EnableRevert, DisablePc, EnablePc,
     DisableChannels, TeardownEvents, IpaUnregister, FreeChannels, At,
     GoTo, Finish, NextChannel, RevertFrom
<1>2. CASE NetEvents \/ NetWork \/ LinkWatch
  BY <1>2 DEF WayInv, NetEvents, NetWork, LinkWatch, DevClosing, DevOpening,
     CarrierChange, MoveBegin, DevClosed, DevOpened, MoveUnregister,
     MoveRegister, workVars
<1>3. CASE BindStart \/ BindWork
  BY <1>3 DEF WayInv, BindStart, BindWork, AddDevice, RemoveDevice, Watch,
     UnwatchBegin, UnwatchQueue, UnwatchGoingDown, UnwatchUnregister,
     UnwatchDone, workVars
<1>4. CASE UserStart \/ UserWork
  BY <1>4 DEF WayInv, UserStart, UserWork, StoreSuspend, OnlineOfflineIdev,
     ResumeIdev, SetGate, SetDevOfflineQueue, SetDevOfflineReturn, workVars
<1>5. CASE UNCHANGED vars \/ StartWaits
  BY <1>5 DEF WayInv, StartWaits, vars, workVars
<1> QED
  BY <1>1, <1>2, <1>3, <1>4, <1>5 DEF Next

LEMMA InitImplements == Init => Path!Init
BY Ways DEF Init, Path!Init, NoRings, Pipes, Vote, Deciding

LEMMA StepImplements ==
    ASSUME Survivable, SafeInv, WayInv, [Next]_vars
    PROVE  [Path!Next]_(Path!vars)
<1>1. CASE Work
  BY <1>1, DecideImplements, BringUpImplements, TearDownImplements
  DEF Work, Path!Next
<1>2. CASE NetEvents \/ NetWork \/ LinkWatch \/ BindStart \/ BindWork
              \/ UserStart \/ UserWork
  BY <1>2, OthersImplement DEF Path!Next
<1>3. CASE UNCHANGED vars \/ StartWaits
  <2>1. UNCHANGED <<drv, held, state, pc, err>>
    BY <1>3 DEF StartWaits, vars, offloadVars, workVars
  <2>2. Seen' = Seen
    BY <2>1 DEF Seen, Way
  <2> QED
    BY <2>2, UnseenStutters
<1> QED
  BY <1>1, <1>2, <1>3 DEF Next

(* The life cycle of ioss_net.c implements the abstract offload path, for  *)
(* every number of channels: with the failures ioss_iface_set_online       *)
(* unwinds, and whatever the network, the bind thread and the user do      *)
(* meanwhile, the layers are built and taken down one on the other, ONLINE *)
(* is reported over a complete path only and a failed attempt is reported  *)
(* once nothing is held. (That no path stays half built is the other half  *)
(* of ImplementsPath, which the run offload_lifecycle checks.)             *)
THEOREM ImplementsPathSafely ==
    ASSUME Survivable
    PROVE  Spec => Path!Safe
<1>1. Init => WayInv
  BY DEF Init, WayInv
<1>2. WayInv /\ [Next]_vars => WayInv'
  BY WayStep
<1>3. SafeInv /\ WayInv /\ [Next]_vars => [Path!Next]_(Path!vars)
  BY StepImplements
<1> QED
  BY <1>1, <1>2, <1>3, InitImplements, SafeInvariant, PTL DEF Spec, Path!Safe
=============================================================================
