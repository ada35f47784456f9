---------------------------- MODULE R8125TxProofs ----------------------------
(***************************************************************************)
(* Theorems about the transmit ring, for every number of fragments, every  *)
(* width of the indexes and registers and, where they say so, every size   *)
(* of the ring that divides the range of the indexes.                      *)
(***************************************************************************)
EXTENDS R8125Tx, RingIndexes

----------------------------------------------------------------------------
(* Lemmas. *)

LEMMA Sizes ==
    /\ NumDesc \in Nat \ {0} /\ Wrap \in Nat \ {0} /\ PtrWrap \in Nat \ {0}
    /\ MaxFrags \in Nat /\ MaxFrags + 1 <= NumDesc
    /\ NumDesc < Wrap /\ NumDesc < PtrWrap
    /\ Wrap % PtrWrap = 0
    /\ 0 % Wrap = 0 /\ 0 % PtrWrap = 0 /\ 0 % NumDesc = 0
    /\ 0 \in 0..(Wrap - 1) /\ 0 \in 0..(PtrWrap - 1) /\ 0 \in Entries
<1>1. /\ NumDesc \in Nat \ {0} /\ Wrap \in Nat \ {0} /\ PtrWrap \in Nat \ {0}
      /\ MaxFrags \in Nat /\ MaxFrags + 1 <= NumDesc
      /\ NumDesc < Wrap /\ NumDesc < PtrWrap
      /\ Wrap % PtrWrap = 0
  BY TxAssumption
<1>2. \A m \in Nat \ {0} : 0 % m = 0 /\ 0 \in 0..(m - 1)
  <2> TAKE m \in Nat \ {0}
  <2>1. 0 = (0 * m) + 0 /\ 0 \in 0..(m - 1)
    OBVIOUS
  <2> QED
    BY <2>1, Remainder
<1> QED
  BY <1>1, <1>2 DEF Entries

(* The unsigned difference of two indexes that stand for C >= D. *)
LEMMA Difference ==
    ASSUME NEW m \in Nat \ {0}, NEW C \in Nat, NEW D \in Nat,
           D <= C, C - D < m
    PROVE  Minus(C % m, D % m, m) = C - D
BY ModDistance DEF Minus

LEMMA MinusRange ==
    ASSUME NEW m \in Nat \ {0}, NEW a \in 0..(m - 1), NEW b \in 0..(m - 1)
    PROVE  Minus(a, b, m) \in 0..(m - 1)
<1>1. a + m - b \in Int
  OBVIOUS
<1> QED
  BY <1>1, ModRange DEF Minus

(* rtl8125_tx_slots_avail computes the room. *)
LEMMA SlotsAvailIs ==
    ASSUME NEW C \in Nat, NEW D \in Nat, D <= C, C - D <= NumDesc
    PROVE  SlotsAvail(D % Wrap, C % Wrap) <=> NumDesc - (C - D) > MaxFrags
<1> DEFINE d == D % Wrap
           c == C % Wrap
<1>1. d \in Nat /\ c \in 0..(Wrap - 1)
  BY Sizes, ModRange
<1>2. Wrap - c \in Nat /\ d + NumDesc \in Nat /\ D + NumDesc \in Nat
  BY <1>1, Sizes
<1>3. (d + NumDesc) % Wrap = (D + NumDesc) % Wrap
  BY Sizes, ModAdd
<1>4. (((d + NumDesc) % Wrap) + (Wrap - c)) % Wrap
          = ((d + NumDesc) + (Wrap - c)) % Wrap
  BY <1>2, Sizes, ModAdd
<1>5. (((D + NumDesc) % Wrap) + Wrap - c) % Wrap = (D + NumDesc) - C
  <2>1. C <= D + NumDesc /\ (D + NumDesc) - C < Wrap
    BY Sizes
  <2> QED
    BY <1>2, <2>1, Sizes, ModDistance
<1>6. (D + NumDesc) % Wrap \in Nat
  BY <1>2, Sizes, ModRange
<1>7. ((D + NumDesc) % Wrap) + Wrap - c = ((D + NumDesc) % Wrap) + (Wrap - c)
  BY <1>1, <1>6, Sizes
<1>8. d + NumDesc + Wrap - c = (d + NumDesc) + (Wrap - c)
  BY <1>1, Sizes
<1>9. Minus(d + NumDesc, c, Wrap) = (D + NumDesc) - C
  BY <1>3, <1>4, <1>5, <1>7, <1>8 DEF Minus
<1> QED
  BY <1>9, Sizes DEF SlotsAvail

(* The entries from an index that stands for a on. *)
LEMMA FromIs ==
    ASSUME RingSizeDivides,
           NEW a \in Nat, NEW n \in Nat, NEW w \in {Wrap, NumDesc}
    PROVE  /\ \A e \in From(a % w, n) :
                  e \in Entries /\ \E k \in a..(a + n - 1) : e = k % NumDesc
           /\ \A k \in a..(a + n - 1) : k % NumDesc \in From(a % w, n)
<1>1. w \in Nat \ {0} /\ w % NumDesc = 0
  <2>1. NumDesc = (1 * NumDesc) + 0 /\ 0 \in 0..(NumDesc - 1)
    BY Sizes
  <2>2. NumDesc % NumDesc = 0
    BY <2>1, Sizes, Remainder
  <2> QED
    BY <2>2, Sizes DEF RingSizeDivides
<1>2. \A j \in Nat : ((a % w) + j) % NumDesc = (a + j) % NumDesc
  BY <1>1, Sizes, EntryAfter
<1>3. ASSUME NEW e \in From(a % w, n)
      PROVE  e \in Entries /\ \E k \in a..(a + n - 1) : e = k % NumDesc
  <2>1. PICK j \in 0..(n - 1) : e = ((a % w) + j) % NumDesc
    BY DEF From
  <2>2. e = (a + j) % NumDesc /\ a + j \in a..(a + n - 1) /\ a + j \in Nat
    BY <1>2, <2>1
  <2>3. e \in Entries
    BY <2>2, Sizes, ModRange DEF Entries
  <2> QED
    BY <2>2, <2>3
<1>4. ASSUME NEW k \in a..(a + n - 1)
      PROVE  k % NumDesc \in From(a % w, n)
  <2>1. k - a \in 0..(n - 1) /\ a + (k - a) = k
    OBVIOUS
  <2>2. ((a % w) + (k - a)) % NumDesc = k % NumDesc
    BY <1>2, <2>1
  <2> QED
    BY <2>1, <2>2 DEF From
<1> QED
  BY <1>3, <1>4

LEMMA EntryType ==
    ASSUME NEW a \in Nat
    PROVE  a % NumDesc \in Entries
BY Sizes, ModRange DEF Entries

----------------------------------------------------------------------------
(* Types. *)

LEMMA ReclaimedType ==
    ASSUME TypeOK
    PROVE  /\ Reclaimed \in Nat /\ Reclaimed <= left
           /\ Reclaimed \in 0..(Wrap - 1)
<1>1. Minus(closed, begin, PtrWrap) \in 0..(PtrWrap - 1)
  BY Sizes, MinusRange DEF TypeOK
<1> QED
  BY <1>1, Sizes DEF TypeOK, Reclaimed

LEMMA TypeInit == Init => TypeOK
<1>1. 0 \in 0..(MaxFrags + 2) /\ 0 \in 0..(Wrap - 1) /\ 0 \in 0..(PtrWrap - 1)
      /\ 0 \in Entries
  BY Sizes
<1> QED
  BY <1>1 DEF Init, TypeOK, XmitSteps, PollSteps, TaskSteps

LEMMA TypeNext == TypeOK /\ [Next]_vars => TypeOK'
<1> SUFFICES ASSUME TypeOK, [Next]_vars
             PROVE  TypeOK'
  OBVIOUS
<1> USE DEF TypeOK, XmitSteps, PollSteps, TaskSteps,
            ringVars, chipVars, xmitVars, pollVars
<1>1. CASE XmitBusy
  BY <1>1 DEF XmitBusy
<1>2. ASSUME NEW f \in 0..MaxFrags, NEW n \in Needed(f), XmitFill(n)
      PROVE  TypeOK'
  <2>1. n \in 0..MaxFrags + 2
    BY Sizes DEF Needed
  <2> QED
    BY <1>2, <2>1 DEF XmitFill
<1>3. CASE XmitPublish
  <2>1. cur' \in 0..Wrap - 1
    <3>1. cur + need \in Int
      BY Sizes
    <3> QED
      BY <1>3, <3>1, Sizes, ModRange DEF XmitPublish
  <2>2. need' \in 0..MaxFrags + 2
    BY <1>3, Sizes DEF XmitPublish
  <2> QED
    BY <1>3, <2>1, <2>2 DEF XmitPublish
<1>4. CASE XmitStop
  BY <1>4 DEF XmitStop
<1>5. CASE XmitKick
  <2>1. tail' \in 0..PtrWrap - 1
    <3>1. cur \in Int
      BY Sizes
    <3> QED
      BY <1>5, <3>1, Sizes, ModRange DEF XmitKick
  <2> QED
    BY <1>5, <2>1 DEF XmitKick
<1>6. CASE XmitRecheck
  BY <1>6 DEF XmitRecheck
<1>7. CASE HwClose
  <2>1. closed' \in 0..PtrWrap - 1
    <3>1. closed + 1 \in Int
      BY Sizes
    <3> QED
      BY <1>7, <3>1, Sizes, ModRange DEF HwClose
  <2>2. hwAt' \in Entries
    <3>1. hwAt + 1 \in Int
      BY Sizes DEF Entries
    <3> QED
      BY <1>7, <3>1, Sizes, ModRange DEF HwClose, Entries
  <2> QED
    BY <1>7, <2>1, <2>2 DEF HwClose
<1>8. CASE PollStart
  <2>1. left' \in 0..Wrap - 1
    BY <1>8, Sizes, MinusRange DEF PollStart
  <2> QED
    BY <1>8, <2>1 DEF PollStart
<1>9. CASE PollClose
  <2>1. Reclaimed \in 0..Wrap - 1
    BY ReclaimedType
  <2> QED
    BY <1>9, <2>1 DEF PollClose
<1>10. CASE PollPublish
  <2>1. dirty' \in 0..Wrap - 1
    <3>1. dirty + left \in Int
      BY Sizes
    <3> QED
      BY <1>10, <3>1, Sizes, ModRange DEF PollPublish
  <2>2. left' \in 0..Wrap - 1
    BY <1>10, Sizes DEF PollPublish
  <2> QED
    BY <1>10, <2>1, <2>2 DEF PollPublish
<1>11. CASE PollLate
  <2>1. dirty' \in 0..Wrap - 1
    <3>1. dirty + left \in Int
      BY Sizes
    <3> QED
      BY <1>11, <3>1, Sizes, ModRange DEF PollLate
  <2> QED
    BY <1>11, <2>1, Sizes DEF PollLate
<1>12. CASE PollWake
  BY <1>12 DEF PollWake
<1>13. CASE TxTimeout
  BY <1>13 DEF TxTimeout
<1>14. CASE ResetQuiesce
  BY <1>14 DEF ResetQuiesce
<1>15. CASE ResetStop
  BY <1>15 DEF ResetStop
<1>16. CASE ResetClear
  BY <1>16, Sizes DEF ResetClear, HwReset, TxClear
<1>17. CASE ResetInit
  BY <1>17, Sizes DEF ResetInit, TxClear
<1>18. CASE ResetRxStuck
  BY <1>18 DEF ResetRxStuck
<1>19. CASE LinkOn
  BY <1>19, Sizes DEF LinkOn, Started, HwReset
<1>20. CASE LinkDown
  BY <1>20, Sizes DEF LinkDown, HwReset, RingRenewed, TxClear
<1>21. CASE LibEnable
  BY <1>21, Sizes DEF LibEnable, HwReset, RingRenewed, TxClear
<1>22. CASE LibDisable
  BY <1>22, Sizes DEF LibDisable, HwReset
<1>23. CASE LibRelease
  BY <1>23, Sizes DEF LibRelease, HwReset, RingRenewed, TxClear
<1>24. CASE UNCHANGED vars
  BY <1>24 DEF vars
<1> QED
  BY <1>1, <1>2, <1>3, <1>4, <1>5, <1>6, <1>7, <1>8, <1>9, <1>10, <1>11,
     <1>12, <1>13, <1>14, <1>15, <1>16, <1>17, <1>18, <1>19, <1>20, <1>21,
     <1>22, <1>23, <1>24
     DEF Next

----------------------------------------------------------------------------
(* The inductive invariants. *)

(* What start_xmit has filled ends here, and what tx_interrupt has not yet *)
(* freed begins there, when dirty_tx and cur_tx stand for D and C.         *)
Top(C)    == IF xmit = "publish" THEN C + need ELSE C
Bottom(D) == IF poll \in {"publish", "late"} THEN D + left ELSE D

(* The driver's side of the ring: dirty_tx and cur_tx stand for numbers    *)
(* that never wrap, at most a ring apart with what is under way, and the   *)
(* descriptors with a packet are those between.                            *)
Ring(D, C) ==
    /\ D <= C /\ dirty = D % Wrap /\ cur = C % Wrap
    /\ Top(C) - D <= NumDesc /\ Bottom(D) <= C
    /\ poll = "close" => left <= C - D
    /\ \A k \in Bottom(D)..(Top(C) - 1) : slot[k % NumDesc] # "free"
    /\ \A e \in Entries : slot[e] # "free" =>
           \E k \in Bottom(D)..(Top(C) - 1) : e = k % NumDesc

(* The chip's side: BeginHwDesCloPtr, the close pointer (and with it the   *)
(* chip's position) and the tail pointer stand for numbers between the     *)
(* two, in this order, and the descriptors not sent yet are the chip's.    *)
Chip(D, B, H, T, C) ==
    /\ Bottom(D) <= B /\ B <= H /\ H <= T /\ T <= C
    /\ closed = H % PtrWrap /\ tail = T % PtrWrap /\ hwAt = H % NumDesc
    /\ \/ begin = B % PtrWrap
       \/ chip = "off" /\ task \notin {"idle", "pending"}
    /\ \A k \in H..(Top(C) - 1) : slot[k % NumDesc] = "chip"

(* Once the chip is off, or a reset has stopped the queues, nobody is at   *)
(* work, and the chip's pointers stay where the reset has put them.        *)
Quiet ==
    /\ chip = "off" \/ task \in {"clear", "init"} =>
           xmit = "idle" /\ poll = "idle" /\ queue = "stopped"
    /\ chip = "off" => tail = 0 /\ closed = 0 /\ hwAt = 0
    /\ task = "init" => chip = "off"

RingInv == TypeOK /\ Quiet /\ \E D, C \in Nat : Ring(D, C)

(* The chip and the ring were reset together.                              *)
Together == chip \in {"on", "off"}

(* The library may have stopped the chip under the driver, and a link      *)
(* check may have started it with the ring kept.                           *)
ChipInv ==
    Together =>
        \E D, B, H, T, C \in Nat : Ring(D, C) /\ Chip(D, B, H, T, C)

(* What the driver's side relies on: the ring size divides the range of    *)
(* the indexes, the chip has no large-send erratum, and the ring is not    *)
(* cleared under an xmit or a poll.                                        *)
Sheltered == RingSizeDivides /\ ~LsoPatch /\ "clear" \notin Races

LEMMA Bounds ==
    ASSUME TypeOK, NEW D \in Nat, NEW C \in Nat, Ring(D, C)
    PROVE  /\ Top(C) \in Nat /\ C <= Top(C) /\ Top(C) - D <= NumDesc
           /\ Bottom(D) \in Nat /\ D <= Bottom(D) /\ Bottom(D) <= C /\ D <= C
           /\ need \in Nat /\ left \in Nat
BY Sizes DEF Top, Bottom, TypeOK, Ring

LEMMA QuietHolds ==
    ASSUME "clear" \notin Races, Quiet, [Next]_vars
    PROVE  Quiet'
<1> USE DEF Quiet, ringVars, chipVars, xmitVars, pollVars
<1>1. CASE XmitBusy
  BY <1>1 DEF XmitBusy
<1>2. ASSUME NEW n, XmitFill(n)
      PROVE  Quiet'
  BY <1>2 DEF XmitFill
<1>3. CASE XmitPublish
  BY <1>3 DEF XmitPublish
<1>4. CASE XmitStop
  BY <1>4 DEF XmitStop
<1>5. CASE XmitKick
  BY <1>5 DEF XmitKick
<1>6. CASE XmitRecheck
  BY <1>6 DEF XmitRecheck
<1>7. CASE HwClose
  BY <1>7 DEF HwClose
<1>8. CASE PollStart
  BY <1>8 DEF PollStart, Masked, Running
<1>9. CASE PollClose
  BY <1>9 DEF PollClose
<1>10. CASE PollPublish
  BY <1>10 DEF PollPublish
<1>11. CASE PollLate
  BY <1>11 DEF PollLate
<1>12. CASE PollWake
  BY <1>12 DEF PollWake
<1>13. CASE TxTimeout
  BY <1>13 DEF TxTimeout
<1>14. CASE ResetQuiesce
  BY <1>14 DEF ResetQuiesce
<1>15. CASE ResetStop
  BY <1>15 DEF ResetStop, OthersDone
<1>16. CASE ResetClear
  BY <1>16 DEF ResetClear, HwReset, TxClear
<1>17. CASE ResetInit
  BY <1>17 DEF ResetInit, TxClear
<1>18. CASE ResetRxStuck
  BY <1>18 DEF ResetRxStuck
<1>19. CASE LinkOn
  BY <1>19 DEF LinkOn, Started, HwReset, RtnlFree
<1>20. CASE LinkDown
  BY <1>20 DEF LinkDown, HwReset, RingRenewed, OthersDone, RtnlFree
<1>21. CASE LibEnable
  BY <1>21 DEF LibEnable, HwReset, RingRenewed, RtnlFree
<1>22. CASE LibDisable
  BY <1>22 DEF LibDisable, HwReset, RtnlFree
<1>23. CASE LibRelease
  BY <1>23 DEF LibRelease, HwReset, RingRenewed, RtnlFree
<1>24. CASE UNCHANGED vars
  BY <1>24 DEF vars
<1> QED
  BY <1>1, <1>2, <1>3, <1>4, <1>5, <1>6, <1>7, <1>8, <1>9, <1>10, <1>11,
     <1>12, <1>13, <1>14, <1>15, <1>16, <1>17, <1>18, <1>19, <1>20, <1>21,
     <1>22, <1>23, <1>24
     DEF Next

----------------------------------------------------------------------------
(* The driver's side. *)

(* A step that leaves the ring and its indexes alone.                      *)
LEMMA RingIdles ==
    ASSUME NEW D \in Nat, NEW C \in Nat, Ring(D, C),
           \/ XmitBusy \/ XmitStop \/ XmitKick \/ XmitRecheck \/ PollWake
           \/ TxTimeout \/ ResetQuiesce \/ ResetStop \/ ResetRxStuck
           \/ LinkOn \/ LibDisable \/ UNCHANGED vars
    PROVE  Ring(D, C)' /\ Top(C)' = Top(C) /\ Bottom(D)' = Bottom(D)
<1>1. UNCHANGED <<cur, dirty, slot, need, left>>
  BY DEF XmitBusy, XmitStop, XmitKick, XmitRecheck, PollWake, TxTimeout,
         ResetQuiesce, ResetStop, ResetRxStuck, LinkOn, LibDisable, vars,
         ringVars, xmitVars, pollVars
<1>2. /\ xmit' = "publish" <=> xmit = "publish"
      /\ poll' \in {"publish", "late"} <=> poll \in {"publish", "late"}
      /\ poll' = "close" <=> poll = "close"
  BY DEF XmitBusy, XmitStop, XmitKick, XmitRecheck, PollWake, TxTimeout,
         ResetQuiesce, ResetStop, ResetRxStuck, LinkOn, LibDisable, vars,
         ringVars, xmitVars, pollVars
<1>3. Top(C)' = Top(C) /\ Bottom(D)' = Bottom(D)
  BY <1>1, <1>2 DEF Top, Bottom
<1> QED
  BY <1>1, <1>2, <1>3 DEF Ring

(* A packet is put into the free descriptors after cur_tx, of which        *)
(* rtl8125_tx_slots_avail has found enough.                                *)
LEMMA RingFills ==
    ASSUME Sheltered, TypeOK, NEW D \in Nat, NEW C \in Nat, Ring(D, C),
           NEW f \in 0..MaxFrags, NEW n \in Needed(f), XmitFill(n)
    PROVE  /\ Ring(D, C)'
           /\ \A e \in From(cur, n) : slot[e] = "free"
           /\ n \in Nat /\ Top(C) = C /\ Top(C)' = C + n /\ Bottom(D)' = Bottom(D)
           /\ \A k \in C..(C + n - 1) : slot'[k % NumDesc] = "chip"
           /\ \A k \in Nat : slot[k % NumDesc] = "chip" =>
                  slot'[k % NumDesc] = "chip"
<1>1. n \in 1..(MaxFrags + 1) /\ n \in Nat
  BY Sizes DEF Needed, Sheltered
<1>2. /\ Top(C) = C /\ Top(C)' = C + n /\ Bottom(D)' = Bottom(D)
      /\ UNCHANGED <<cur, dirty, poll, left>>
  BY DEF XmitFill, Top, Bottom, pollVars
<1>3. /\ Bottom(D) \in Nat /\ D <= C /\ C - D <= NumDesc
      /\ D <= Bottom(D) /\ Bottom(D) <= C
  BY <1>2, Bounds
<1>4. C + n - D <= NumDesc
  <2>1. SlotsAvail(D % Wrap, C % Wrap)
    BY DEF XmitFill, Ring
  <2>2. NumDesc - (C - D) > MaxFrags
    BY <1>3, <2>1, SlotsAvailIs
  <2> QED
    BY <1>1, <1>3, <2>2, Sizes
<1>5. cur = C % Wrap
  BY DEF Ring
<1>6. /\ \A e \in From(cur, n) :
             e \in Entries /\ \E k \in C..(C + n - 1) : e = k % NumDesc
      /\ \A k \in C..(C + n - 1) : k % NumDesc \in From(cur, n)
  BY <1>1, <1>5, FromIs DEF Sheltered
<1>7. ASSUME NEW k \in C..(C + n - 1), NEW j \in Bottom(D)..(C - 1)
      PROVE  k % NumDesc # j % NumDesc
  <2>1. k \in Nat /\ j \in Nat /\ j < k /\ k - j < NumDesc
    BY <1>1, <1>3, <1>4, Sizes
  <2> QED
    BY <2>1, Sizes, Apart
<1>8. \A e \in From(cur, n) : slot[e] = "free"
  <2> SUFFICES ASSUME NEW e \in From(cur, n), slot[e] # "free"
               PROVE  FALSE
    OBVIOUS
  <2>1. PICK k \in C..(C + n - 1) : e = k % NumDesc
    BY <1>6
  <2>2. PICK j \in Bottom(D)..(C - 1) : e = j % NumDesc
    BY <1>2, <1>6 DEF Ring
  <2> QED
    BY <1>7, <2>1, <2>2
<1>9. \A e \in Entries :
          slot'[e] = IF e \in From(cur, n) THEN "chip" ELSE slot[e]
  BY DEF XmitFill
<1>10. \A k \in Nat : k % NumDesc \in Entries
  BY EntryType
<1>11. \A k \in C..(C + n - 1) : slot'[k % NumDesc] = "chip"
  BY <1>3, <1>6, <1>9, <1>10
<1>12. \A k \in Nat : slot[k % NumDesc] = "chip" => slot'[k % NumDesc] = "chip"
  BY <1>9, <1>10
<1>13. ASSUME NEW k \in Bottom(D)..(C + n - 1)
       PROVE  slot'[k % NumDesc] # "free"
  <2>1. CASE k \in C..(C + n - 1)
    BY <1>11, <2>1
  <2>2. CASE k \in Bottom(D)..(C - 1)
    <3>1. k \in Nat /\ slot[k % NumDesc] # "free"
      BY <1>2, <1>3, <2>2 DEF Ring
    <3> QED
      BY <1>9, <1>10, <3>1
  <2> QED
    BY <1>1, <1>3, <2>1, <2>2
<1>14. ASSUME NEW e \in Entries, slot'[e] # "free"
       PROVE  \E k \in Bottom(D)..(C + n - 1) : e = k % NumDesc
  <2>1. CASE e \in From(cur, n)
    <3>1. PICK k \in C..(C + n - 1) : e = k % NumDesc
      BY <1>6, <2>1
    <3>2. k \in Bottom(D)..(C + n - 1)
      BY <1>1, <1>3
    <3> QED
      BY <3>1, <3>2
  <2>2. CASE e \notin From(cur, n)
    <3>1. PICK k \in Bottom(D)..(C - 1) : e = k % NumDesc
      BY <1>2, <1>9, <1>14, <2>2 DEF Ring
    <3>2. k \in Bottom(D)..(C + n - 1)
      BY <1>1, <1>3
    <3> QED
      BY <3>1, <3>2
  <2> QED
    BY <2>1, <2>2
<1>15. (Bottom(D)..(Top(C) - 1))' = Bottom(D)..(C + n - 1)
  BY <1>1, <1>2
<1>16. (Top(C) - D <= NumDesc /\ Bottom(D) <= C)'
  BY <1>1, <1>2, <1>3, <1>4
<1>17. Ring(D, C)'
  BY <1>2, <1>13, <1>14, <1>15, <1>16 DEF Ring
<1> QED
  BY <1>1, <1>2, <1>8, <1>11, <1>12, <1>17

(* cur_tx moves past what was filled. *)
LEMMA RingPublishes ==
    ASSUME TypeOK, NEW D \in Nat, NEW C \in Nat, Ring(D, C), XmitPublish,
           NEW E, E = C + need
    PROVE  /\ E \in Nat /\ C <= E /\ Ring(D, E)'
           /\ Top(E)' = Top(C) /\ Bottom(D)' = Bottom(D)
<1>1. need \in Nat /\ E \in Nat /\ C <= E
  BY Sizes DEF TypeOK
<1>2. need' = 0 /\ xmit' # "publish" /\ UNCHANGED <<dirty, slot, poll, left>>
  BY DEF XmitPublish, pollVars
<1>3. Top(C) = E /\ Top(E)' = E
  BY <1>2 DEF Top, XmitPublish
<1>4. Bottom(D)' = Bottom(D)
  BY <1>2 DEF Bottom
<1>5. cur' = E % Wrap
  BY <1>1, Sizes, ModAdd DEF Ring, XmitPublish
<1>6. D <= C /\ Bottom(D) \in Nat /\ Bottom(D) <= C /\ left \in Nat
  BY Bounds
<1>7. D <= E /\ Bottom(D) <= E /\ (poll = "close" => left <= E - D)
  BY <1>1, <1>6 DEF Ring
<1>8. Ring(D, E)'
  BY <1>2, <1>3, <1>4, <1>5, <1>7 DEF Ring
<1> QED
  BY <1>1, <1>3, <1>4, <1>8

(* The chip sends a descriptor, whichever it is at: no packet appears in   *)
(* the ring or disappears from it.                                         *)
LEMMA RingSends ==
    ASSUME TypeOK, NEW D \in Nat, NEW C \in Nat, Ring(D, C), HwClose
    PROVE  /\ Ring(D, C)' /\ Top(C)' = Top(C) /\ Bottom(D)' = Bottom(D)
           /\ \A e \in Entries : e # hwAt => slot'[e] = slot[e]
<1>1. UNCHANGED <<cur, dirty, xmit, need, poll, left>>
  BY DEF HwClose, xmitVars, pollVars
<1>2. Top(C)' = Top(C) /\ Bottom(D)' = Bottom(D)
  BY <1>1 DEF Top, Bottom
<1>3. /\ \A e \in Entries : e # hwAt => slot'[e] = slot[e]
      /\ slot'[hwAt] = IF slot[hwAt] = "chip" THEN "sent" ELSE slot[hwAt]
  BY DEF HwClose, TypeOK
<1>4. \A e \in Entries : slot'[e] = "free" <=> slot[e] = "free"
  BY <1>3
<1>5. \A k \in Bottom(D)..(Top(C) - 1) : k % NumDesc \in Entries
  BY Bounds, EntryType
<1>6. \A k \in Bottom(D)..(Top(C) - 1) : slot'[k % NumDesc] # "free"
  BY <1>4, <1>5 DEF Ring
<1>7. Ring(D, C)'
  BY <1>1, <1>2, <1>4, <1>6 DEF Ring
<1> QED
  BY <1>2, <1>3, <1>7

(* tx_interrupt takes its view of cur_tx. *)
LEMMA RingPolls ==
    ASSUME TypeOK, NEW D \in Nat, NEW C \in Nat, Ring(D, C), PollStart
    PROVE  Ring(D, C)' /\ Top(C)' = Top(C) /\ Bottom(D)' = Bottom(D)
<1>1. /\ UNCHANGED <<cur, dirty, slot, xmit, need>>
      /\ poll = "idle" /\ poll' = "close"
  BY DEF PollStart, ringVars, xmitVars
<1>2. Top(C)' = Top(C) /\ Bottom(D)' = Bottom(D)
  BY <1>1 DEF Top, Bottom
<1>3. D <= C /\ C - D < Wrap
  BY Bounds, Sizes
<1>4. left' = C - D
  BY <1>3, Sizes, Difference DEF Ring, PollStart
<1> QED
  BY <1>1, <1>2, <1>4 DEF Ring

(* The close pointer is read; whatever it says, no more is freed than the  *)
(* view of cur_tx allows.                                                  *)
LEMMA RingReclaims ==
    ASSUME RingSizeDivides, TypeOK, NEW D \in Nat, NEW C \in Nat, Ring(D, C),
           PollClose
    PROVE  /\ Ring(D, C)' /\ Top(C)' = Top(C)
           /\ Reclaimed \in Nat /\ Bottom(D)' = D + Reclaimed
           /\ \A k \in (D + Reclaimed)..(Top(C) - 1) :
                  slot'[k % NumDesc] = slot[k % NumDesc]
<1>1. /\ UNCHANGED <<cur, dirty, xmit, need>>
      /\ poll = "close" /\ left' = Reclaimed
      /\ poll' = IF Reclaimed = 0 THEN "idle" ELSE "publish"
  BY DEF PollClose, xmitVars
<1>2. /\ Top(C) \in Nat /\ C <= Top(C) /\ Top(C)' = Top(C)
      /\ Top(C) - D <= NumDesc /\ D <= C
  BY <1>1, Bounds DEF Top
<1>3. Reclaimed \in Nat /\ Reclaimed <= C - D
  BY <1>1, <1>2, ReclaimedType DEF Ring, TypeOK
<1>4. Bottom(D) = D /\ Bottom(D)' = D + Reclaimed
  BY <1>1, <1>3 DEF Bottom
<1>5. dirty = D % Wrap
  BY DEF Ring
<1>6. /\ \A e \in From(dirty, Reclaimed) :
             e \in Entries /\ \E k \in D..(D + Reclaimed - 1) : e = k % NumDesc
      /\ \A k \in D..(D + Reclaimed - 1) : k % NumDesc \in From(dirty, Reclaimed)
  BY <1>3, <1>5, FromIs
<1>7. \A e \in Entries :
          slot'[e] = IF e \in From(dirty, Reclaimed) THEN "free" ELSE slot[e]
  BY DEF PollClose
<1>8. ASSUME NEW k \in (D + Reclaimed)..(Top(C) - 1)
      PROVE  slot'[k % NumDesc] = slot[k % NumDesc]
  <2>1. k \in Nat /\ k % NumDesc \in Entries
    BY <1>3, EntryType
  <2>2. ASSUME NEW j \in D..(D + Reclaimed - 1)
        PROVE  k % NumDesc # j % NumDesc
    <3>1. j \in Nat /\ j < k /\ k - j < NumDesc
      BY <1>2, <1>3, Sizes
    <3> QED
      BY <2>1, <3>1, Sizes, Apart
  <2>3. k % NumDesc \notin From(dirty, Reclaimed)
    BY <1>6, <2>2
  <2> QED
    BY <1>7, <2>1, <2>3
<1>9. ASSUME NEW k \in (D + Reclaimed)..(Top(C) - 1)
      PROVE  slot'[k % NumDesc] # "free"
  <2>1. k \in D..(Top(C) - 1)
    BY <1>3
  <2> QED
    BY <1>4, <1>8, <2>1 DEF Ring
<1>10. ASSUME NEW e \in Entries, slot'[e] # "free"
       PROVE  \E k \in (D + Reclaimed)..(Top(C) - 1) : e = k % NumDesc
  <2>1. e \notin From(dirty, Reclaimed) /\ slot[e] # "free"
    BY <1>7, <1>10
  <2>2. PICK k \in D..(Top(C) - 1) : e = k % NumDesc
    BY <1>4, <2>1 DEF Ring
  <2>3. k \notin D..(D + Reclaimed - 1)
    BY <1>6, <2>1, <2>2
  <2>4. k \in (D + Reclaimed)..(Top(C) - 1)
    BY <1>2, <1>3, <2>3
  <2> QED
    BY <2>2, <2>4
<1>11. (Bottom(D)..(Top(C) - 1))' = (D + Reclaimed)..(Top(C) - 1)
  BY <1>2, <1>4
<1>12. (Top(C) - D <= NumDesc /\ Bottom(D) <= C)'
  BY <1>2, <1>3, <1>4
<1>13. Ring(D, C)'
  BY <1>1, <1>9, <1>10, <1>11, <1>12 DEF Ring
<1> QED
  BY <1>2, <1>3, <1>4, <1>8, <1>13

(* dirty_tx moves past what was freed, before or after the queue is looked *)
(* at.                                                                     *)
LEMMA RingFrees ==
    ASSUME TypeOK, NEW D \in Nat, NEW C \in Nat, Ring(D, C),
           PollPublish \/ PollLate,
           dirty' = (dirty + left) % Wrap, poll' \in {"wake", "idle"},
           NEW E, E = D + left
    PROVE  /\ E \in Nat /\ Ring(E, C)'
           /\ Top(C)' = Top(C) /\ Bottom(E)' = Bottom(D)
<1>1. /\ UNCHANGED <<cur, slot, xmit, need>>
      /\ poll \in {"publish", "late"}
  BY DEF PollPublish, PollLate, xmitVars
<1>2. left \in Nat /\ E \in Nat /\ D <= E
  BY Sizes DEF TypeOK
<1>3. Top(C) \in Nat /\ Top(C)' = Top(C) /\ Top(C) - D <= NumDesc
  BY <1>1, Bounds DEF Top
<1>4. Bottom(D) = E /\ Bottom(E)' = E
  BY <1>1 DEF Bottom
<1>5. dirty' = E % Wrap
  BY <1>2, Sizes, ModAdd DEF Ring
<1>6. E <= C
  BY <1>4 DEF Ring
<1>7. (Top(C) - E <= NumDesc /\ Bottom(E) <= C)'
  BY <1>2, <1>3, <1>4, <1>6, Sizes
<1>8. Ring(E, C)'
  BY <1>1, <1>3, <1>4, <1>5, <1>6, <1>7 DEF Ring
<1> QED
  BY <1>2, <1>3, <1>4, <1>8

(* The read of the queue's state comes first: nothing is published yet. *)
LEMMA RingWaits ==
    ASSUME NEW D \in Nat, NEW C \in Nat, Ring(D, C), PollPublish,
           poll' = "late", UNCHANGED <<dirty, left>>
    PROVE  Ring(D, C)' /\ Top(C)' = Top(C) /\ Bottom(D)' = Bottom(D)
<1>1. UNCHANGED <<cur, slot, xmit, need>> /\ poll = "publish"
  BY DEF PollPublish, xmitVars
<1>2. Top(C)' = Top(C) /\ Bottom(D)' = Bottom(D)
  BY <1>1 DEF Top, Bottom
<1> QED
  BY <1>1, <1>2 DEF Ring

LEMMA RingClears ==
    ASSUME "clear" \notin Races, Quiet,
           ResetClear \/ ResetInit \/ LinkDown \/ LibEnable \/ LibRelease
    PROVE  Ring(0, 0)' /\ Top(0)' = 0 /\ Bottom(0)' = 0
<1>1. /\ slot' = [e \in Entries |-> "free"] /\ cur' = 0 /\ dirty' = 0
      /\ xmit' = "idle" /\ poll' = "idle"
  <2>1. CASE ResetClear
    BY <2>1 DEF ResetClear, TxClear, Quiet, xmitVars, pollVars
  <2>2. CASE ResetInit
    BY <2>2 DEF ResetInit, TxClear, Quiet, xmitVars, pollVars
  <2>3. CASE LinkDown
    BY <2>3 DEF LinkDown, RingRenewed, TxClear, OthersDone, xmitVars, pollVars
  <2>4. CASE LibEnable
    BY <2>4 DEF LibEnable, RingRenewed, TxClear, xmitVars, pollVars
  <2>5. CASE LibRelease
    BY <2>5 DEF LibRelease, RingRenewed, TxClear, xmitVars, pollVars
  <2> QED
    BY <2>1, <2>2, <2>3, <2>4, <2>5
<1>2. Top(0)' = 0 /\ Bottom(0)' = 0
  BY <1>1 DEF Top, Bottom
<1>3. (Bottom(0)..(Top(0) - 1))' = {}
  BY <1>2
<1>4. Ring(0, 0)'
  BY <1>1, <1>2, <1>3, Sizes DEF Ring
<1> QED
  BY <1>2, <1>4

LEMMA RingInit == Init => Ring(0, 0) /\ Top(0) = 0 /\ Bottom(0) = 0
<1> SUFFICES ASSUME Init
             PROVE  Ring(0, 0) /\ Top(0) = 0 /\ Bottom(0) = 0
  OBVIOUS
<1>1. Top(0) = 0 /\ Bottom(0) = 0
  BY DEF Init, Top, Bottom
<1>2. Bottom(0)..(Top(0) - 1) = {}
  BY <1>1
<1> QED
  BY <1>1, <1>2, Sizes DEF Init, Ring

LEMMA RingInvHolds ==
    ASSUME Sheltered
    PROVE  Spec => []RingInv
<1>1. Init => RingInv
  <2> SUFFICES ASSUME Init
               PROVE  Quiet
    BY TypeInit, RingInit DEF RingInv
  <2> QED
    BY DEF Init, Quiet
<1>2. RingInv /\ [Next]_vars => RingInv'
  <2> SUFFICES ASSUME RingInv, [Next]_vars
               PROVE  RingInv'
    OBVIOUS
  <2>1. TypeOK /\ Quiet
    BY DEF RingInv
  <2>2. TypeOK' /\ Quiet'
    BY <2>1, TypeNext, QuietHolds DEF Sheltered
  <2>3. PICK D \in Nat, C \in Nat : Ring(D, C)
    BY DEF RingInv
  <2> DEFINE Seen == \E a, b \in Nat : Ring(a, b)'
  <2> SUFFICES Seen
    BY <2>2 DEF RingInv
  <2>4. CASE \/ XmitBusy \/ XmitStop \/ XmitKick \/ XmitRecheck \/ PollWake
             \/ TxTimeout \/ ResetQuiesce \/ ResetStop \/ ResetRxStuck
             \/ LinkOn \/ LibDisable \/ UNCHANGED vars
    BY <2>3, <2>4, RingIdles
  <2>5. ASSUME NEW f \in 0..MaxFrags, NEW n \in Needed(f), XmitFill(n)
        PROVE  Seen
    BY <2>1, <2>3, <2>5, RingFills
  <2>6. CASE XmitPublish
    <3>1. PICK E : E = C + need
      OBVIOUS
    <3>2. E \in Nat /\ Ring(D, E)'
      BY <2>1, <2>3, <2>6, <3>1, RingPublishes
    <3> QED
      BY <3>2
  <2>7. CASE HwClose
    BY <2>1, <2>3, <2>7, RingSends
  <2>8. CASE PollStart
    BY <2>1, <2>3, <2>8, RingPolls
  <2>9. CASE PollClose
    BY <2>1, <2>3, <2>9, RingReclaims DEF Sheltered
  <2>10. ASSUME PollPublish \/ PollLate,
                dirty' = (dirty + left) % Wrap, poll' \in {"wake", "idle"}
         PROVE  Seen
    <3>1. PICK E : E = D + left
      OBVIOUS
    <3>2. E \in Nat /\ Ring(E, C)'
      BY <2>1, <2>3, <2>10, <3>1, RingFrees
    <3> QED
      BY <3>2
  <2>11. CASE PollPublish
    <3>1. CASE dirty' = (dirty + left) % Wrap /\ poll' = "wake"
      BY <2>10, <2>11, <3>1
    <3>2. CASE poll' = "late" /\ UNCHANGED <<dirty, left>>
      BY <2>3, <2>11, <3>2, RingWaits
    <3> QED
      BY <2>11, <3>1, <3>2 DEF PollPublish
  <2>12. CASE PollLate
    BY <2>10, <2>12 DEF PollLate
  <2>13. CASE ResetClear \/ ResetInit \/ LinkDown \/ LibEnable \/ LibRelease
    BY <2>1, <2>13, RingClears DEF Sheltered
  <2> QED
    BY <2>4, <2>5, <2>6, <2>7, <2>8, <2>9, <2>11, <2>12, <2>13 DEF Next
<1> QED
  BY <1>1, <1>2, PTL DEF Spec

----------------------------------------------------------------------------
(* The chip's side. *)

LEMMA ChipIdles ==
    ASSUME TypeOK, Quiet, Together, Together',
           NEW D \in Nat, NEW B \in Nat, NEW H \in Nat,
           NEW T \in Nat, NEW C \in Nat, Ring(D, C), Chip(D, B, H, T, C),
           \/ XmitBusy \/ XmitStop \/ XmitRecheck \/ PollWake \/ TxTimeout
           \/ ResetQuiesce \/ ResetStop \/ ResetRxStuck \/ LinkOn \/ LibDisable
           \/ UNCHANGED vars
    PROVE  Chip(D, B, H, T, C)'
<1>1. UNCHANGED <<slot, begin, tail, closed, hwAt>>
  <2>1. CASE LinkOn \/ LibDisable
    <3>1. chip = "off" /\ UNCHANGED <<slot, begin>> /\ HwReset
      BY <2>1 DEF Together, LinkOn, LibDisable, Started, Running, ringVars
    <3> QED
      BY <3>1 DEF Quiet, HwReset
  <2>2. CASE ~(LinkOn \/ LibDisable)
    BY <2>2 DEF XmitBusy, XmitStop, XmitRecheck, PollWake, TxTimeout,
                ResetQuiesce, ResetStop, ResetRxStuck, vars, ringVars, chipVars
  <2> QED
    BY <2>1, <2>2
<1>2. chip = "off" /\ task \notin {"idle", "pending"} =>
          chip' = "off" /\ task' \notin {"idle", "pending"}
  BY DEF XmitBusy, XmitStop, XmitRecheck, PollWake, TxTimeout, ResetQuiesce,
         ResetStop, ResetRxStuck, LinkOn, LibDisable, Started, Running,
         Together, RtnlFree, vars, ringVars, chipVars
<1>3. Top(C)' = Top(C) /\ Bottom(D)' = Bottom(D)
  BY RingIdles
<1> QED
  BY <1>1, <1>2, <1>3 DEF Chip

LEMMA ChipFilled ==
    ASSUME Sheltered, TypeOK, NEW D \in Nat, NEW B \in Nat, NEW H \in Nat,
           NEW T \in Nat, NEW C \in Nat, Ring(D, C), Chip(D, B, H, T, C),
           NEW f \in 0..MaxFrags, NEW n \in Needed(f), XmitFill(n)
    PROVE  Chip(D, B, H, T, C)'
<1>1. UNCHANGED <<begin, tail, closed, hwAt, chip, task>>
  BY DEF XmitFill, chipVars
<1>2. /\ n \in Nat /\ Top(C) = C /\ Top(C)' = C + n /\ Bottom(D)' = Bottom(D)
      /\ \A k \in C..(C + n - 1) : slot'[k % NumDesc] = "chip"
      /\ \A k \in Nat : slot[k % NumDesc] = "chip" => slot'[k % NumDesc] = "chip"
  BY RingFills
<1>3. ASSUME NEW k \in H..(C + n - 1)
      PROVE  slot'[k % NumDesc] = "chip"
  <2>1. CASE k \in C..(C + n - 1)
    BY <1>2, <2>1
  <2>2. CASE k \in H..(C - 1)
    <3>1. k \in Nat /\ slot[k % NumDesc] = "chip"
      BY <1>2, <2>2 DEF Chip
    <3> QED
      BY <1>2, <3>1
  <2> QED
    BY <1>2, <2>1, <2>2
<1>4. (H..(Top(C) - 1))' = H..(C + n - 1)
  BY <1>2
<1> QED
  BY <1>1, <1>2, <1>3, <1>4 DEF Chip

LEMMA ChipPublished ==
    ASSUME TypeOK, NEW D \in Nat, NEW B \in Nat, NEW H \in Nat,
           NEW T \in Nat, NEW C \in Nat, Ring(D, C), Chip(D, B, H, T, C),
           XmitPublish, NEW E, E = C + need
    PROVE  E \in Nat /\ Ring(D, E)' /\ Chip(D, B, H, T, E)'
<1>1. UNCHANGED <<slot, begin, tail, closed, hwAt, chip, task>>
  BY DEF XmitPublish, chipVars
<1>2. /\ E \in Nat /\ C <= E /\ Ring(D, E)'
      /\ Top(E)' = Top(C) /\ Bottom(D)' = Bottom(D)
  BY RingPublishes
<1>3. T <= E
  BY <1>2 DEF Chip
<1>4. Chip(D, B, H, T, E)'
  BY <1>1, <1>2, <1>3 DEF Chip
<1> QED
  BY <1>2, <1>4

(* The tail register is told of cur_tx. *)
LEMMA ChipKicked ==
    ASSUME NEW D \in Nat, NEW B \in Nat, NEW H \in Nat,
           NEW T \in Nat, NEW C \in Nat, Ring(D, C), Chip(D, B, H, T, C),
           XmitKick
    PROVE  Chip(D, B, H, C, C)'
<1>1. UNCHANGED <<slot, begin, closed, hwAt, chip, task>>
  BY DEF XmitKick, ringVars
<1>2. Top(C)' = Top(C) /\ Bottom(D)' = Bottom(D)
  BY RingIdles
<1>3. tail' = C % PtrWrap
  BY Sizes, ModMod DEF Ring, XmitKick
<1>4. H <= C
  BY DEF Chip
<1> QED
  BY <1>1, <1>2, <1>3, <1>4 DEF Chip

(* The chip sends the next descriptor, one that is its own. *)
LEMMA ChipSends ==
    ASSUME TypeOK, NEW D \in Nat, NEW B \in Nat, NEW H \in Nat,
           NEW T \in Nat, NEW C \in Nat, Ring(D, C), Chip(D, B, H, T, C),
           HwClose
    PROVE  Chip(D, B, H + 1, T, C)'
<1>1. UNCHANGED <<begin, tail, chip, task>>
  BY DEF HwClose
<1>2. /\ Top(C)' = Top(C) /\ Bottom(D)' = Bottom(D)
      /\ \A e \in Entries : e # hwAt => slot'[e] = slot[e]
  BY RingSends
<1>3. /\ Top(C) \in Nat /\ C <= Top(C) /\ Top(C) - D <= NumDesc
      /\ D <= Bottom(D) /\ Bottom(D) \in Nat
  BY Bounds
<1>4. H < T /\ T <= C /\ Bottom(D) <= B /\ B <= H
  <2>1. H # T /\ H <= T /\ T <= C /\ Bottom(D) <= B /\ B <= H
    BY DEF HwClose, Chip
  <2> QED
    BY <2>1
<1>5. closed' = (H + 1) % PtrWrap
  <2>1. ((H % PtrWrap) + 1) % PtrWrap = (H + 1) % PtrWrap
    BY Sizes, 1 \in Nat, ModAdd
  <2> QED
    BY <2>1 DEF Chip, HwClose
<1>6. hwAt' = (H + 1) % NumDesc
  <2>1. ((H % NumDesc) + 1) % NumDesc = (H + 1) % NumDesc
    BY Sizes, 1 \in Nat, ModAdd
  <2> QED
    BY <2>1 DEF Chip, HwClose
<1>7. ASSUME NEW k \in (H + 1)..(Top(C) - 1)
      PROVE  slot'[k % NumDesc] = "chip"
  <2>1. k \in Nat /\ H < k /\ k - H < NumDesc /\ k \in H..(Top(C) - 1)
    BY <1>3, <1>4, Sizes
  <2>2. k % NumDesc # hwAt
    BY <2>1, Sizes, Apart DEF Chip
  <2>3. slot[k % NumDesc] = "chip" /\ k % NumDesc \in Entries
    BY <2>1, EntryType DEF Chip
  <2> QED
    BY <1>2, <2>2, <2>3
<1>8. B <= H + 1 /\ H + 1 <= T
  BY <1>3, <1>4
<1> QED
  BY <1>1, <1>2, <1>5, <1>6, <1>7, <1>8 DEF Chip

LEMMA ChipPolled ==
    ASSUME TypeOK, NEW D \in Nat, NEW B \in Nat, NEW H \in Nat,
           NEW T \in Nat, NEW C \in Nat, Ring(D, C), Chip(D, B, H, T, C),
           PollStart
    PROVE  Chip(D, B, H, T, C)'
<1>1. UNCHANGED <<slot, begin, tail, closed, hwAt, chip, task>>
  BY DEF PollStart, ringVars
<1>2. Top(C)' = Top(C) /\ Bottom(D)' = Bottom(D)
  BY RingPolls
<1> QED
  BY <1>1, <1>2 DEF Chip

(* No descriptor is freed that the chip has not closed. *)
LEMMA ChipReclaimed ==
    ASSUME RingSizeDivides, TypeOK, Quiet, NEW D \in Nat, NEW B \in Nat, NEW H \in Nat,
           NEW T \in Nat, NEW C \in Nat, Ring(D, C), Chip(D, B, H, T, C),
           PollClose
    PROVE  Chip(D, H, H, T, C)'
<1>1. /\ UNCHANGED <<tail, closed, hwAt, chip, task>>
      /\ poll = "close" /\ begin' = closed
  BY DEF PollClose, chipVars
<1>2. /\ Top(C)' = Top(C) /\ Reclaimed \in Nat /\ Bottom(D)' = D + Reclaimed
      /\ \A k \in (D + Reclaimed)..(Top(C) - 1) :
             slot'[k % NumDesc] = slot[k % NumDesc]
  BY RingReclaims
<1>3. /\ Top(C) \in Nat /\ C <= Top(C) /\ Top(C) - D <= NumDesc
      /\ Bottom(D) = D
  BY <1>1, Bounds DEF Bottom
<1>4. D <= B /\ B <= H /\ H <= T /\ T <= C
  BY <1>3 DEF Chip
<1>5. Reclaimed <= H - B
  <2>1. begin = B % PtrWrap /\ closed = H % PtrWrap
    BY <1>1 DEF Quiet, Chip
  <2>2. H - B < PtrWrap
    BY <1>3, <1>4, Sizes
  <2>3. Minus(closed, begin, PtrWrap) = H - B
    BY <1>4, <2>1, <2>2, Sizes, Difference
  <2> QED
    BY <2>3, <1>4, ReclaimedType DEF Reclaimed, TypeOK
<1>6. D + Reclaimed <= H
  BY <1>2, <1>4, <1>5
<1>7. ASSUME NEW k \in H..(Top(C) - 1)
      PROVE  slot'[k % NumDesc] = "chip"
  <2>1. k \in (D + Reclaimed)..(Top(C) - 1)
    BY <1>2, <1>6
  <2> QED
    BY <1>2, <2>1 DEF Chip
<1>8. Bottom(D)' <= H
  BY <1>2, <1>6
<1> QED
  BY <1>1, <1>2, <1>4, <1>7, <1>8 DEF Chip

LEMMA ChipFreed ==
    ASSUME TypeOK, NEW D \in Nat, NEW B \in Nat, NEW H \in Nat,
           NEW T \in Nat, NEW C \in Nat, Ring(D, C), Chip(D, B, H, T, C),
           PollPublish \/ PollLate,
           dirty' = (dirty + left) % Wrap, poll' \in {"wake", "idle"},
           NEW E, E = D + left
    PROVE  E \in Nat /\ Ring(E, C)' /\ Chip(E, B, H, T, C)'
<1>1. UNCHANGED <<slot, begin, tail, closed, hwAt, chip, task>>
  BY DEF PollPublish, PollLate, chipVars
<1>2. /\ E \in Nat /\ Ring(E, C)'
      /\ Top(C)' = Top(C) /\ Bottom(E)' = Bottom(D)
  BY RingFrees
<1>3. Chip(E, B, H, T, C)'
  BY <1>1, <1>2 DEF Chip
<1> QED
  BY <1>2, <1>3

LEMMA ChipWaits ==
    ASSUME NEW D \in Nat, NEW B \in Nat, NEW H \in Nat,
           NEW T \in Nat, NEW C \in Nat, Ring(D, C), Chip(D, B, H, T, C),
           PollPublish, poll' = "late", UNCHANGED <<dirty, left>>
    PROVE  Chip(D, B, H, T, C)'
<1>1. UNCHANGED <<slot, begin, tail, closed, hwAt, chip, task>>
  BY DEF PollPublish, chipVars
<1>2. Top(C)' = Top(C) /\ Bottom(D)' = Bottom(D)
  BY RingWaits
<1> QED
  BY <1>1, <1>2 DEF Chip

LEMMA ChipCleared ==
    ASSUME "clear" \notin Races, Quiet,
           ResetClear \/ ResetInit \/ LinkDown \/ LibEnable \/ LibRelease
    PROVE  Chip(0, 0, 0, 0, 0)'
<1>1. /\ tail' = 0 /\ closed' = 0 /\ hwAt' = 0
      /\ begin' = 0 \/ (chip' = "off" /\ task' \notin {"idle", "pending"})
  <2>1. CASE ResetClear
    BY <2>1 DEF ResetClear, HwReset, Quiet
  <2>2. CASE ResetInit
    BY <2>2 DEF ResetInit, Quiet, chipVars
  <2>3. CASE LinkDown
    BY <2>3 DEF LinkDown, HwReset, RingRenewed
  <2>4. CASE LibEnable
    BY <2>4 DEF LibEnable, HwReset, RingRenewed
  <2>5. CASE LibRelease
    BY <2>5 DEF LibRelease, HwReset, RingRenewed
  <2> QED
    BY <2>1, <2>2, <2>3, <2>4, <2>5
<1>2. Top(0)' = 0 /\ Bottom(0)' = 0
  BY RingClears
<1>3. (0..(Top(0) - 1))' = {}
  BY <1>2
<1> QED
  BY <1>1, <1>2, <1>3, Sizes DEF Chip

LEMMA ChipInvHolds ==
    ASSUME Sheltered
    PROVE  Spec => []ChipInv
<1>1. Init => ChipInv
  <2> SUFFICES ASSUME Init
               PROVE  Chip(0, 0, 0, 0, 0)
    BY RingInit DEF ChipInv
  <2>1. Top(0) = 0 /\ Bottom(0) = 0
    BY RingInit
  <2>2. 0..(Top(0) - 1) = {}
    BY <2>1
  <2> QED
    BY <2>1, <2>2, Sizes DEF Init, Chip
<1>2. RingInv /\ ChipInv /\ [Next]_vars => ChipInv'
  <2> SUFFICES ASSUME RingInv, ChipInv, [Next]_vars
               PROVE  ChipInv'
    OBVIOUS
  <2>1. TypeOK /\ Quiet
    BY DEF RingInv
  <2> DEFINE Seen == \E a, b, c, d, e \in Nat : Ring(a, e)' /\ Chip(a, b, c, d, e)'
  <2> SUFFICES ASSUME Together'
               PROVE  Seen
    BY DEF ChipInv
  <2>0. CASE ResetClear \/ ResetInit \/ LinkDown \/ LibEnable \/ LibRelease
    <3>1. Ring(0, 0)' /\ Chip(0, 0, 0, 0, 0)'
      BY <2>1, <2>0, RingClears, ChipCleared DEF Sheltered
    <3> QED
      BY <3>1
  <2> SUFFICES ASSUME ~(ResetClear \/ ResetInit \/ LinkDown \/ LibEnable
                        \/ LibRelease)
               PROVE  Seen
    BY <2>0
  <2>A. Together
    BY DEF Together, Started, Next, vars, chipVars, XmitBusy, XmitFill, XmitPublish, XmitStop,
           XmitKick, XmitRecheck, HwClose, PollStart, PollClose, PollPublish,
           PollLate, PollWake, TxTimeout, ResetQuiesce, ResetStop,
           ResetRxStuck, LinkOn, LibDisable
  <2>2. PICK D \in Nat, B \in Nat, H \in Nat, T \in Nat, C \in Nat :
            Ring(D, C) /\ Chip(D, B, H, T, C)
    BY <2>A DEF ChipInv
  <2>3. CASE \/ XmitBusy \/ XmitStop \/ XmitRecheck \/ PollWake \/ TxTimeout
             \/ ResetQuiesce \/ ResetStop \/ ResetRxStuck \/ LinkOn
             \/ LibDisable \/ UNCHANGED vars
    <3>1. Ring(D, C)'
      BY <2>2, <2>3, RingIdles
    <3>2. Chip(D, B, H, T, C)'
      BY <2>A, <2>1, <2>2, <2>3, ChipIdles
    <3> QED
      BY <3>1, <3>2
  <2>4. ASSUME NEW f \in 0..MaxFrags, NEW n \in Needed(f), XmitFill(n)
        PROVE  Seen
    <3>1. Ring(D, C)'
      BY <2>1, <2>2, <2>4, RingFills
    <3>2. Chip(D, B, H, T, C)'
      BY <2>1, <2>2, <2>4, ChipFilled
    <3> QED
      BY <3>1, <3>2
  <2>5. CASE XmitPublish
    <3>1. PICK E : E = C + need
      OBVIOUS
    <3>2. E \in Nat /\ Ring(D, E)' /\ Chip(D, B, H, T, E)'
      BY <2>1, <2>2, <2>5, <3>1, ChipPublished
    <3> QED
      BY <3>2
  <2>6. CASE XmitKick
    <3>1. Ring(D, C)'
      BY <2>2, <2>6, RingIdles
    <3>2. Chip(D, B, H, C, C)'
      BY <2>2, <2>6, ChipKicked
    <3> QED
      BY <3>1, <3>2
  <2>7. CASE HwClose
    <3>1. Ring(D, C)'
      BY <2>1, <2>2, <2>7, RingSends
    <3>2. H + 1 \in Nat /\ Chip(D, B, H + 1, T, C)'
      BY <2>1, <2>2, <2>7, ChipSends
    <3> QED
      BY <3>1, <3>2
  <2>8. CASE PollStart
    <3>1. Ring(D, C)'
      BY <2>1, <2>2, <2>8, RingPolls
    <3>2. Chip(D, B, H, T, C)'
      BY <2>1, <2>2, <2>8, ChipPolled
    <3> QED
      BY <3>1, <3>2
  <2>9. CASE PollClose
    <3>1. Ring(D, C)'
      BY <2>1, <2>2, <2>9, RingReclaims DEF Sheltered
    <3>2. Chip(D, H, H, T, C)'
      BY <2>1, <2>2, <2>9, ChipReclaimed DEF Sheltered
    <3> QED
      BY <3>1, <3>2
  <2>10. ASSUME PollPublish \/ PollLate,
                dirty' = (dirty + left) % Wrap, poll' \in {"wake", "idle"}
         PROVE  Seen
    <3>1. PICK E : E = D + left
      OBVIOUS
    <3>2. E \in Nat /\ Ring(E, C)' /\ Chip(E, B, H, T, C)'
      BY <2>1, <2>2, <2>10, <3>1, ChipFreed
    <3> QED
      BY <3>2
  <2>11. CASE PollPublish
    <3>1. CASE dirty' = (dirty + left) % Wrap /\ poll' = "wake"
      BY <2>10, <2>11, <3>1
    <3>2. CASE poll' = "late" /\ UNCHANGED <<dirty, left>>
      <4>1. Ring(D, C)' /\ Chip(D, B, H, T, C)'
        BY <2>2, <2>11, <3>2, RingWaits, ChipWaits
      <4> QED
        BY <4>1
    <3> QED
      BY <2>11, <3>1, <3>2 DEF PollPublish
  <2>12. CASE PollLate
    BY <2>10, <2>12 DEF PollLate
  <2> QED
    BY <2>3, <2>4, <2>5, <2>6, <2>7, <2>8, <2>9, <2>11, <2>12 DEF Next
<1>3. Sheltered
  BY DEF Sheltered
<1> QED
  BY <1>1, <1>2, <1>3, RingInvHolds, PTL DEF Spec

----------------------------------------------------------------------------
(* What the invariant implies. *)

LEMMA InvAccounted ==
    ASSUME RingSizeDivides
    PROVE  RingInv => RingIsAccounted
<1> SUFFICES ASSUME RingInv
             PROVE  RingIsAccounted
  OBVIOUS
<1>1. PICK D \in Nat, C \in Nat : Ring(D, C)
  BY DEF RingInv
<1>2. TypeOK
  BY DEF RingInv
<1>3. /\ Top(C) \in Nat /\ C <= Top(C) /\ Top(C) - D <= NumDesc
      /\ Bottom(D) \in Nat /\ D <= Bottom(D) /\ Bottom(D) <= C /\ D <= C
      /\ need \in Nat /\ left \in Nat
  BY <1>1, <1>2, Bounds
<1>4. dirty = D % Wrap /\ cur = C % Wrap
  BY <1>1 DEF Ring
<1>5. InUse = From(dirty, C - D) /\ C - D \in Nat
  <2>1. C - D < Wrap
    BY <1>3, Sizes
  <2> QED
    BY <1>3, <1>4, <2>1, Sizes, Difference DEF InUse
<1>6. /\ \A e \in InUse : e \in Entries /\ \E k \in D..(C - 1) : e = k % NumDesc
      /\ \A k \in D..(C - 1) : k % NumDesc \in InUse
  <2>1. D + (C - D) - 1 = C - 1
    OBVIOUS
  <2> QED
    BY <1>4, <1>5, <2>1, FromIs
<1>7. /\ \A e \in FreedEarly : \E k \in D..(Bottom(D) - 1) : e = k % NumDesc
      /\ \A k \in D..(Bottom(D) - 1) : k % NumDesc \in FreedEarly
  <2>1. CASE poll \in {"publish", "late"}
    <3>1. Bottom(D) = D + left /\ FreedEarly = From(dirty, left)
      BY <2>1 DEF Bottom, FreedEarly
    <3> QED
      BY <1>3, <1>4, <3>1, FromIs
  <2>2. CASE poll \notin {"publish", "late"}
    <3>1. Bottom(D) = D /\ FreedEarly = {}
      BY <2>2 DEF Bottom, FreedEarly
    <3> QED
      BY <3>1
  <2> QED
    BY <2>1, <2>2
<1>8. /\ \A e \in FilledEarly :
             e \in Entries /\ \E k \in C..(Top(C) - 1) : e = k % NumDesc
      /\ \A k \in C..(Top(C) - 1) : k % NumDesc \in FilledEarly
  <2>1. CASE xmit = "publish"
    <3>1. Top(C) = C + need /\ FilledEarly = From(cur, need)
      BY <2>1 DEF Top, FilledEarly
    <3> QED
      BY <1>3, <1>4, <3>1, FromIs
  <2>2. CASE xmit # "publish"
    <3>1. Top(C) = C /\ FilledEarly = {}
      BY <2>2 DEF Top, FilledEarly
    <3> QED
      BY <3>1
  <2> QED
    BY <2>1, <2>2
<1>9. ASSUME NEW e \in Entries, slot[e] # "free"
      PROVE  e \in (InUse \ FreedEarly) \cup FilledEarly
  <2>1. PICK k \in Bottom(D)..(Top(C) - 1) : e = k % NumDesc
    BY <1>1, <1>9 DEF Ring
  <2>2. CASE k \in C..(Top(C) - 1)
    BY <1>8, <2>1, <2>2
  <2>3. CASE k \in Bottom(D)..(C - 1)
    <3>1. e \in InUse
      <4>1. k \in D..(C - 1)
        BY <1>3, <2>3
      <4> QED
        BY <1>6, <2>1, <4>1
    <3>2. ASSUME e \in FreedEarly
          PROVE  FALSE
      <4>1. PICK j \in D..(Bottom(D) - 1) : e = j % NumDesc
        BY <1>7, <3>2
      <4>2. j \in Nat /\ k \in Nat /\ j < k /\ k - j < NumDesc
        BY <1>3, Sizes
      <4> QED
        BY <2>1, <4>1, <4>2, Sizes, Apart
    <3> QED
      BY <3>1, <3>2
  <2> QED
    BY <1>3, <2>2, <2>3
<1>10. ASSUME NEW e \in (InUse \ FreedEarly) \cup FilledEarly
       PROVE  e \in Entries /\ slot[e] # "free"
  <2>1. ASSUME NEW k \in Bottom(D)..(Top(C) - 1), e = k % NumDesc
        PROVE  slot[e] # "free"
    BY <1>1, <2>1 DEF Ring
  <2>2. CASE e \in FilledEarly
    <3>1. PICK k \in C..(Top(C) - 1) : e = k % NumDesc
      BY <1>8, <2>2
    <3>2. k \in Bottom(D)..(Top(C) - 1)
      BY <1>3
    <3> QED
      BY <1>8, <2>1, <2>2, <3>1, <3>2
  <2>3. CASE e \in InUse \ FreedEarly
    <3>1. PICK k \in D..(C - 1) : e = k % NumDesc
      BY <1>6, <2>3
    <3>2. k \notin D..(Bottom(D) - 1)
      BY <1>7, <2>3, <3>1
    <3>3. k \in Bottom(D)..(Top(C) - 1)
      BY <1>3, <3>2
    <3> QED
      BY <1>6, <2>1, <2>3, <3>1, <3>3
  <2> QED
    BY <2>2, <2>3
<1> QED
  BY <1>9, <1>10 DEF RingIsAccounted

LEMMA InvInStep ==
    ASSUME RingSizeDivides
    PROVE  RingInv /\ ChipInv => ChipInStep
<1> SUFFICES ASSUME RingInv, ChipInv, chip = "on", Together,
                    NEW e \in From(hwAt, Minus(tail, closed, PtrWrap))
             PROVE  slot[e] = "chip"
  BY DEF ChipInStep, Together
<1>1. PICK D \in Nat, B \in Nat, H \in Nat, T \in Nat, C \in Nat :
          Ring(D, C) /\ Chip(D, B, H, T, C)
  BY DEF ChipInv
<1>2. /\ Top(C) \in Nat /\ C <= Top(C) /\ Top(C) - D <= NumDesc
      /\ D <= B /\ B <= H /\ H <= T /\ T <= C
  <2>1. TypeOK
    BY DEF RingInv
  <2>2. /\ Bottom(D) \in Nat /\ D <= Bottom(D)
        /\ Top(C) \in Nat /\ C <= Top(C) /\ Top(C) - D <= NumDesc
    BY <1>1, <2>1, Bounds
  <2>3. Bottom(D) <= B /\ B <= H /\ H <= T /\ T <= C
    BY <1>1 DEF Chip
  <2> QED
    BY <2>2, <2>3
<1>3. closed = H % PtrWrap /\ tail = T % PtrWrap /\ hwAt = H % NumDesc
  BY <1>1 DEF Chip
<1>4. Minus(tail, closed, PtrWrap) = T - H /\ T - H \in Nat
  <2>1. T - H < PtrWrap /\ T - H \in Nat
    BY <1>2, Sizes
  <2>2. Minus(T % PtrWrap, H % PtrWrap, PtrWrap) = T - H
    BY <1>2, <2>1, Sizes, Difference
  <2> QED
    BY <1>3, <2>1, <2>2
<1>5. e \in From(H % NumDesc, T - H)
  BY <1>3, <1>4
<1>6. PICK k \in H..(H + (T - H) - 1) : e = k % NumDesc
  BY <1>4, <1>5, FromIs
<1>7. k \in H..(Top(C) - 1)
  BY <1>2
<1> QED
  BY <1>1, <1>6, <1>7 DEF Chip

----------------------------------------------------------------------------
(* Whatever races with the ring being cleared, whatever the chip requires  *)
(* of large sends and whatever the size of the ring, the indexes of the    *)
(* ring, its registers and tx_left stay unsigned values of their widths,   *)
(* and the descriptors are never in a state the code does not know.        *)
THEOREM TxTypes ==
    Spec => []TypeOK
BY TypeInit, TypeNext, PTL DEF Spec

(* For a ring size that divides the range of the indexes: unless the ring  *)
(* is cleared under a running xmit or poll, or the large-send patch        *)
(* lengthens a packet, start_xmit and tx_interrupt lose and leak no packet *)
(* of the ring, across the wrap of the 32-bit indexes and of the ring, and *)
(* after a link that went down or a reset. A link check between a stuck    *)
(* reset and its retry, one that resets a running chip, and a reset of the *)
(* chip by the library do not change this.                                 *)
THEOREM TxRingIsAccounted ==
    ASSUME Sheltered
    PROVE  Spec => []RingIsAccounted
BY RingInvHolds, InvAccounted, PTL DEF Sheltered

(* Under the same conditions, a chip that was started with its ring is     *)
(* told only of descriptors that start_xmit has filled, finds them in      *)
(* order, and tx_interrupt frees none before it is sent: the wrapped       *)
(* registers stay in step with the wrapped indexes, and come back in step  *)
(* from every reset of the ring, also where the library, a second link-up  *)
(* or a link-up before a reset's retry had reset the chip alone.           *)
THEOREM TxChipInStep ==
    ASSUME Sheltered
    PROVE  Spec => []ChipInStep
<1>1. RingInv /\ ChipInv => ChipInStep
  BY InvInStep DEF Sheltered
<1> QED
  BY <1>1, RingInvHolds, ChipInvHolds, PTL

(* For a ring size that divides the range of the indexes: unless the ring  *)
(* is cleared under a running xmit or poll, or the large-send patch        *)
(* lengthens a packet, start_xmit fills only descriptors that hold no      *)
(* packet: the room rtl8125_tx_slots_avail computes from a dirty_tx that   *)
(* may be behind is enough for the largest packet.                         *)
THEOREM XmitOverwritesNothing ==
    ASSUME Sheltered
    PROVE  Spec => NoOverwrite
<1>1. ASSUME RingInv, [Next]_vars, xmit = "idle", xmit' = "publish"
      PROVE  \A e \in From(cur, need') : slot[e] = "free"
  <2>1. TypeOK
    BY <1>1 DEF RingInv
  <2>2. PICK D \in Nat, C \in Nat : Ring(D, C)
    BY <1>1 DEF RingInv
  <2>3. PICK f \in 0..MaxFrags : \E n \in Needed(f) : XmitFill(n)
    BY <1>1 DEF Next, vars, ringVars, chipVars, xmitVars, pollVars,
                XmitBusy, XmitPublish, XmitStop, XmitKick, XmitRecheck, HwClose,
                PollStart, PollClose, PollPublish, PollLate, PollWake,
                TxTimeout, ResetQuiesce, ResetStop, ResetClear, ResetInit,
                ResetRxStuck, LinkOn, LinkDown, LibEnable, LibDisable,
                LibRelease
  <2>4. PICK n \in Needed(f) : XmitFill(n)
    BY <2>3
  <2>5. \A e \in From(cur, n) : slot[e] = "free"
    BY <2>1, <2>2, <2>4, RingFills
  <2> QED
    BY <2>4, <2>5 DEF XmitFill
<1> QED
  BY <1>1, RingInvHolds, PTL DEF Spec, NoOverwrite
============================================================================
