---------------------------- MODULE R8125RxProofs ----------------------------
(***************************************************************************)
(* Theorems about the receive ring, for every size of the ring, every      *)
(* budget of a poll and every width of the indexes. Each names the races   *)
(* and the kinds of frames it does without; the two that are about entries *)
(* across the wrap of the indexes need a size that divides their range.    *)
(***************************************************************************)
EXTENDS R8125Rx, RingIndexes

----------------------------------------------------------------------------
(* Lemmas. *)

LEMMA Sizes ==
    /\ NumDesc \in Nat \ {0} /\ Wrap \in Nat \ {0} /\ Budget \in Nat \ {0}
    /\ NumDesc < Wrap
    /\ 0 % Wrap = 0 /\ 0 % NumDesc = 0
    /\ 0 \in 0..(Wrap - 1) /\ 0 \in Entries
    /\ Frames \subseteq AllFrames
<1>1. /\ NumDesc \in Nat \ {0} /\ Wrap \in Nat \ {0} /\ Budget \in Nat \ {0}
      /\ NumDesc < Wrap /\ Frames \subseteq AllFrames
  BY RxAssumption
<1>2. \A m \in Nat \ {0} : 0 % m = 0 /\ 0 \in 0..(m - 1)
  <2> TAKE m \in Nat \ {0}
  <2>1. 0 = (0 * m) + 0 /\ 0 \in 0..(m - 1)
    OBVIOUS
  <2> QED
    BY <2>1, Remainder
<1> QED
  BY <1>1, <1>2 DEF Entries

LEMMA EntryType ==
    ASSUME NEW i \in Nat
    PROVE  Entry(i) \in Entries
BY Sizes, ModRange DEF Entry, Entries

LEMMA MinusRange ==
    ASSUME NEW a \in Nat, NEW b \in 0..(Wrap - 1)
    PROVE  Minus(a, b) \in 0..(Wrap - 1)
<1>1. a + Wrap - b \in Int
  BY Sizes
<1> QED
  BY <1>1, Sizes, ModRange DEF Minus

LEMMA NextIndex ==
    ASSUME NEW i \in 0..(Wrap - 1), NEW n \in Nat
    PROVE  (i + n) % Wrap \in 0..(Wrap - 1)
<1>1. i + n \in Int
  BY Sizes
<1> QED
  BY <1>1, Sizes, ModRange

(* What is between dirty_rx and the driver's place. *)
LEMMA Difference ==
    ASSUME NEW P \in Nat, NEW D \in Nat, D <= P, P - D <= NumDesc
    PROVE  Minus(P % Wrap, D % Wrap) = P - D
<1>1. P - D < Wrap
  BY Sizes
<1> QED
  BY <1>1, Sizes, ModDistance DEF Minus

(* What is filled from the driver's place on. *)
LEMMA FilledIs ==
    ASSUME NEW P \in Nat, NEW D \in Nat, D <= P, P - D <= NumDesc
    PROVE  Minus(NumDesc + (D % Wrap), P % Wrap) = (D + NumDesc) - P
<1> DEFINE d == D % Wrap
           c == P % Wrap
<1>1. d \in Nat /\ c \in 0..(Wrap - 1)
  BY Sizes, ModRange
<1>2. Wrap - c \in Nat /\ d + NumDesc \in Nat /\ D + NumDesc \in Nat
  BY <1>1, Sizes
<1>3. (d + NumDesc) % Wrap = (D + NumDesc) % Wrap
  BY Sizes, ModAdd
<1>4. (((d + NumDesc) % Wrap) + (Wrap - c)) % Wrap
          = ((d + NumDesc) + (Wrap - c)) % Wrap
  BY <1>2, Sizes, ModAdd
<1>5. (((D + NumDesc) % Wrap) + Wrap - c) % Wrap = (D + NumDesc) - P
  <2>1. P <= D + NumDesc /\ (D + NumDesc) - P < Wrap
    BY Sizes
  <2> QED
    BY <1>2, <2>1, Sizes, ModDistance
<1>6. (D + NumDesc) % Wrap \in Nat
  BY <1>2, Sizes, ModRange
<1>7. ((D + NumDesc) % Wrap) + Wrap - c = ((D + NumDesc) % Wrap) + (Wrap - c)
  BY <1>1, <1>6, Sizes
<1>8. NumDesc + d + Wrap - c = (d + NumDesc) + (Wrap - c)
  BY <1>1, Sizes
<1> QED
  BY <1>3, <1>4, <1>5, <1>7, <1>8 DEF Minus

(* The entries from an index that stands for a on. *)
LEMMA EntryIs ==
    ASSUME RingSizeDivides, NEW a \in Nat, NEW j \in Nat
    PROVE  Entry((a % Wrap) + j) = (a + j) % NumDesc
<1>1. \A i \in Nat : ((a % Wrap) + i) % NumDesc = (a + i) % NumDesc
  BY Sizes, EntryAfter DEF RingSizeDivides
<1> QED
  BY <1>1 DEF Entry

LEMMA FromIs ==
    ASSUME RingSizeDivides, NEW a \in Nat, NEW n \in Nat
    PROVE  /\ \A e \in From(a % Wrap, n) :
                  e \in Entries /\ \E k \in a..(a + n - 1) : e = k % NumDesc
           /\ \A k \in a..(a + n - 1) : k % NumDesc \in From(a % Wrap, n)
<1>1. \A j \in Nat : Entry((a % Wrap) + j) = (a + j) % NumDesc
  BY EntryIs
<1>2. ASSUME NEW e \in From(a % Wrap, n)
      PROVE  e \in Entries /\ \E k \in a..(a + n - 1) : e = k % NumDesc
  <2>1. PICK j \in 0..(n - 1) : e = Entry((a % Wrap) + j)
    BY DEF From
  <2>2. e = (a + j) % NumDesc /\ a + j \in a..(a + n - 1) /\ a + j \in Nat
    BY <1>1, <2>1
  <2>3. e \in Entries
    BY <2>2, Sizes, ModRange DEF Entries
  <2> QED
    BY <2>2, <2>3
<1>3. ASSUME NEW k \in a..(a + n - 1)
      PROVE  k % NumDesc \in From(a % Wrap, n)
  <2>1. k - a \in 0..(n - 1) /\ a + (k - a) = k
    OBVIOUS
  <2>2. Entry((a % Wrap) + (k - a)) = k % NumDesc
    BY <1>1, <2>1
  <2> QED
    BY <2>1, <2>2 DEF From
<1> QED
  BY <1>2, <1>3

----------------------------------------------------------------------------
(* The inductive invariants, in layers. *)

(* Types, whatever happens. *)
Types ==
    /\ cur \in 0..(Wrap - 1) /\ dirty \in 0..(Wrap - 1) /\ at \in 0..(Wrap - 1)
    /\ left \in Nat
    /\ own \subseteq Entries /\ buf \subseteq Entries
    /\ frame \in [Entries -> AllFrames \cup {"none"}]
    /\ asic \in Entries /\ chip \in {"on", "off", "stopped", "astray"}
    /\ isr \in BOOLEAN /\ imr \in BOOLEAN
    /\ run \in {"idle", "again", "poll", "reset"}
    /\ got \in AllFrames \cup {"none"}
    /\ task \in {"idle", "pending", "quiet", "taken", "retry"}

(* A descriptor has a buffer as long as the chip owns it or it holds a     *)
(* frame, and no longer.                                                   *)
Buffers ==
    /\ \A e \in Entries : e \in buf <=> e \in own \/ frame[e] # "none"
    /\ \A e \in Entries : ~(e \in own /\ frame[e] # "none")

(* The frame that is being taken is still in its descriptor. *)
Held == got # "none" => Entry(at) \notin own /\ frame[Entry(at)] = got

(* The reset work runs with the poll stopped; nothing is left to take when *)
(* nobody takes; a chip that was reset is at the first entry.              *)
Phases ==
    /\ task = "taken" => run = "idle"
    /\ task = "quiet" => run \in {"idle", "reset"}
    /\ run = "reset" => task = "quiet"
    /\ ~Taking => left = 0
    /\ got # "none" => Taking /\ left > 0
    /\ ~Running => asic = 0

(* dirty_rx and the driver's place stand for numbers that never wrap, at   *)
(* most a ring apart, with what is left to take.                           *)
Index(D, P) ==
    /\ D <= P /\ dirty = D % Wrap /\ Place = P % Wrap
    /\ P - D <= NumDesc
    /\ Taking => left + (P - D) <= NumDesc

(* Only entries between the two wait for a buffer.                         *)
Holes(D, P) ==
    \A e \in Entries : e \notin buf => \E k \in D..(P - 1) : e = k % NumDesc

(* The chip and the ring were reset together, and no reset is under way    *)
(* that has left the ring as it was.                                       *)
Together == chip = "on" \/ (chip = "off" /\ task \in {"idle", "pending"})

(* The frames not taken yet are those between the driver's place and the   *)
(* chip's.                                                                 *)
Order(P, A) ==
    /\ P <= A /\ A - P <= NumDesc
    /\ asic = A % NumDesc
    /\ \A k \in P..(A - 1) : frame[k % NumDesc] # "none"
    /\ \A e \in Entries :
           frame[e] # "none" => \E k \in P..(A - 1) : e = k % NumDesc
    /\ \A e \in Entries : frame[e] # "over"

IndexInv == \E D, P \in Nat : Index(D, P)
HoleInv  == \E D, P \in Nat : Index(D, P) /\ Holes(D, P)
OrderInv == Together => \E D, P, A \in Nat : Index(D, P) /\ Order(P, A)

----------------------------------------------------------------------------
(* What holds whatever happens. *)

LEMMA TypesInit == Init => Types
<1>1. 0 \in 0..(Wrap - 1) /\ 0 \in Entries
  BY Sizes
<1>2. Empty \in [Entries -> AllFrames \cup {"none"}]
  BY DEF Empty
<1> SUFFICES ASSUME Init
             PROVE  Types
  OBVIOUS
<1>3. /\ cur \in 0..(Wrap - 1) /\ dirty \in 0..(Wrap - 1) /\ at \in 0..(Wrap - 1)
      /\ left \in Nat /\ own \subseteq Entries /\ buf \subseteq Entries
      /\ frame \in [Entries -> AllFrames \cup {"none"}] /\ asic \in Entries
  BY <1>1, <1>2 DEF Init
<1>4. /\ chip \in {"on", "off", "stopped", "astray"} /\ isr \in BOOLEAN /\ imr \in BOOLEAN
      /\ run \in {"idle", "again", "poll", "reset"}
      /\ got \in AllFrames \cup {"none"}
      /\ task \in {"idle", "pending", "quiet", "taken", "retry"}
  BY DEF Init
<1> QED
  BY <1>3, <1>4 DEF Types

LEMMA TypesNext == Types /\ Phases /\ [Next]_vars => Types'
<1> SUFFICES ASSUME Types, Phases, [Next]_vars
             PROVE  Types'
  OBVIOUS
<1> USE DEF Types, ringVars, chipVars, loopVars
<1>1. CASE Receive
  <2>1. asic' \in Entries
    <3>1. asic + 1 \in Nat
      BY Sizes DEF Entries
    <3> QED
      BY <1>1, <3>1, EntryType DEF Receive
  <2>2. frame' \in [Entries -> AllFrames \cup {"none"}]
    BY <1>1, Sizes DEF Receive
  <2> QED
    BY <1>1, <2>1, <2>2 DEF Receive
<1>2. ASSUME NEW who \in {"poll", "reset"}, NEW quota \in Nat,
             TakeFrom(who, quota)
      PROVE  run' = who /\ at' \in 0..(Wrap - 1) /\ left' \in Nat /\ got' = got
  <2>1. NumDesc + dirty \in Nat
    BY Sizes
  <2>2. Minus(NumDesc + dirty, cur) \in Nat
    BY <2>1, Sizes, MinusRange
  <2> QED
    BY <1>2, <2>2 DEF TakeFrom
<1>3. CASE PollStart
  <2>1. TakeFrom("poll", Budget) /\ Budget \in Nat
    BY <1>3, Sizes DEF PollStart
  <2> QED
    BY <1>2, <1>3, <2>1 DEF PollStart
<1>4. CASE PollAgain
  <2>1. TakeFrom("poll", Budget) /\ Budget \in Nat
    BY <1>4, Sizes DEF PollAgain
  <2> QED
    BY <1>2, <1>4, <2>1 DEF PollAgain
<1>5. CASE ResetTake
  <2>1. TakeFrom("reset", NumDesc) /\ NumDesc \in Nat
    BY <1>5, Sizes DEF ResetTake
  <2> QED
    BY <1>2, <1>5, <2>1 DEF ResetTake
<1>6. Entry(at) \in Entries
  <2>1. at \in Nat
    BY Sizes
  <2> QED
    BY <2>1, EntryType
<1>7. (at + 1) % Wrap \in 0..(Wrap - 1)
  BY Sizes, NextIndex
<1>8. CASE FrameReturned
  <2>1. left' \in Nat
    BY <1>8 DEF FrameReturned, Phases
  <2>2. own' \subseteq Entries /\ frame' \in [Entries -> AllFrames \cup {"none"}]
    BY <1>6, <1>8 DEF FrameReturned
  <2>3. at' \in 0..(Wrap - 1)
    BY <1>7, <1>8 DEF FrameReturned
  <2> QED
    BY <1>8, <2>1, <2>2, <2>3 DEF FrameReturned
<1>9. CASE FrameHandedUp
  <2>1. left' \in Nat
    BY <1>9 DEF FrameHandedUp, Phases
  <2>2. buf' \subseteq Entries /\ frame' \in [Entries -> AllFrames \cup {"none"}]
    BY <1>6, <1>9 DEF FrameHandedUp
  <2> QED
    BY <1>7, <1>9, <2>1, <2>2 DEF FrameHandedUp
<1>10. CASE LoopEnd
  <2>1. PICK n \in 0..NumDesc : Fill(n) /\ dirty' = (dirty + n) % Wrap
    BY <1>10 DEF LoopEnd
  <2>2. n \in Nat
    BY Sizes
  <2>3. dirty' \in 0..(Wrap - 1)
    BY <2>1, <2>2, NextIndex
  <2>4. From(dirty, n) \subseteq Entries
    <3>1. \A k \in 0..(n - 1) : dirty + k \in Nat
      BY Sizes
    <3> QED
      BY <3>1, EntryType DEF From
  <2>5. buf' \subseteq Entries /\ own' \subseteq Entries
    BY <2>1, <2>4 DEF Fill
  <2>6. /\ cur' \in 0..(Wrap - 1) /\ at' \in 0..(Wrap - 1) /\ left' \in Nat
        /\ UNCHANGED <<frame, asic, chip, isr, got>>
    BY <1>10, Sizes DEF LoopEnd
  <2>7. /\ run' \in {"idle", "again"} /\ imr' \in BOOLEAN
        /\ task' \in {"idle", "pending", "quiet", "taken", "retry"}
    <3>1. CASE run = "poll" /\ PollComplete(Minus(at, cur))
      BY <1>10, <3>1 DEF LoopEnd
    <3>2. CASE run = "poll" /\ ~PollComplete(Minus(at, cur))
      BY <1>10, <3>2 DEF LoopEnd
    <3>3. CASE run = "reset"
      BY <1>10, <3>3 DEF LoopEnd
    <3> QED
      BY <1>10, <3>1, <3>2, <3>3 DEF LoopEnd
  <2> QED
    BY <2>3, <2>5, <2>6, <2>7
<1>11. CASE ScheduleReset
  BY <1>11 DEF ScheduleReset
<1>12. CASE ResetQuiesce
  BY <1>12 DEF ResetQuiesce, NapiDisabled
<1>13. CASE ResetRing
  BY <1>13, Sizes DEF ResetRing, HwReset, InitRing, Empty
<1>14. CASE ResetStuck
  BY <1>14, Sizes DEF ResetStuck, HwReset
<1>15. CASE LinkOn
  BY <1>15, Sizes DEF LinkOn, HwReset
<1>16. CASE LinkDown
  BY <1>16, Sizes DEF LinkDown, HwReset, RingRenewed, InitRing, Empty
<1>17. CASE UNCHANGED vars
  BY <1>17 DEF vars
<1>18. CASE FrameSeen
  BY <1>6, <1>18 DEF FrameSeen
<1>19. CASE LibEnable
  BY <1>19, Sizes DEF LibEnable, NapiDisabled, HwReset, RingRenewed, InitRing,
                      Empty
<1>20. CASE LibDisable
  BY <1>20, Sizes DEF LibDisable, Running, HwReset
<1>21. CASE LibRelease
  BY <1>21, Sizes DEF LibRelease, NapiDisabled, HwReset, RingRenewed, InitRing,
                      Empty
<1> QED
  BY <1>1, <1>3, <1>4, <1>5, <1>8, <1>9, <1>10, <1>11, <1>12, <1>13, <1>14,
     <1>15, <1>16, <1>17, <1>18, <1>19, <1>20, <1>21 DEF Next, Poll, Task

LEMMA PhasesNext == Types /\ Phases /\ [Next]_vars => Phases'
<1> SUFFICES ASSUME Types, Phases, [Next]_vars
             PROVE  Phases'
  OBVIOUS
<1> USE DEF Running, Phases, Taking, ringVars, chipVars, loopVars
<1>1. CASE Receive
  BY <1>1 DEF Receive
<1>2. CASE PollStart
  BY <1>2 DEF PollStart, TakeFrom
<1>3. CASE PollAgain
  BY <1>3 DEF PollAgain, TakeFrom
<1>4. CASE FrameSeen
  BY <1>4 DEF FrameSeen
<1>5. CASE FrameReturned
  BY <1>5 DEF FrameReturned
<1>6. CASE FrameHandedUp
  BY <1>6 DEF FrameHandedUp
<1>7. CASE LoopEnd
  BY <1>7 DEF LoopEnd
<1>8. CASE ScheduleReset
  BY <1>8 DEF ScheduleReset
<1>9. CASE ResetQuiesce
  BY <1>9 DEF ResetQuiesce, NapiDisabled
<1>10. CASE ResetTake
  BY <1>10 DEF ResetTake, TakeFrom
<1>11. CASE ResetRing
  BY <1>11 DEF ResetRing, HwReset
<1>12. CASE ResetStuck
  BY <1>12 DEF ResetStuck, HwReset
<1>13. CASE LinkOn
  BY <1>13 DEF LinkOn, HwReset, RtnlFree
<1>14. CASE LinkDown
  BY <1>14 DEF LinkDown, HwReset, RingRenewed, RtnlFree
<1>15. CASE LibEnable
  BY <1>15 DEF LibEnable, HwReset, RingRenewed, RtnlFree, NapiDisabled
<1>16. CASE LibDisable
  BY <1>16 DEF LibDisable, HwReset, RtnlFree
<1>17. CASE LibRelease
  BY <1>17 DEF LibRelease, HwReset, RingRenewed, RtnlFree, NapiDisabled
<1>18. CASE UNCHANGED vars
  BY <1>18 DEF vars
<1> QED
  BY <1>1, <1>2, <1>3, <1>4, <1>5, <1>6, <1>7, <1>8, <1>9, <1>10, <1>11,
     <1>12, <1>13, <1>14, <1>15, <1>16, <1>17, <1>18 DEF Next, Poll, Task

LEMMA BuffersNext ==
    ASSUME "clear" \notin Races
    PROVE  Types /\ Phases /\ Buffers /\ Held /\ [Next]_vars => Buffers'
<1> SUFFICES ASSUME Types, Phases, Buffers, Held, [Next]_vars
             PROVE  Buffers'
  OBVIOUS
<1> USE DEF Types, Buffers, ringVars, chipVars, loopVars
<1>1. CASE Receive
  <2>1. PICK f \in Frames : frame' = [frame EXCEPT ![asic] = f]
    BY <1>1 DEF Receive
  <2>2. f # "none"
    BY Sizes DEF AllFrames
  <2> QED
    BY <1>1, <2>1, <2>2 DEF Receive
<1>2. CASE FrameReturned
  BY <1>2 DEF FrameReturned, Held
<1>3. CASE FrameHandedUp
  BY <1>3 DEF FrameHandedUp, Held
<1>4. CASE LoopEnd
  <2>1. PICK n \in 0..NumDesc : Fill(n)
    BY <1>4 DEF LoopEnd
  <2> QED
    BY <1>4, <2>1 DEF LoopEnd, Fill
<1>5. CASE ResetRing \/ LinkDown \/ LibEnable \/ LibRelease
  BY <1>5 DEF ResetRing, LinkDown, LibEnable, LibRelease, RingRenewed, InitRing,
              Empty
<1>6. CASE \/ PollStart \/ PollAgain \/ FrameSeen \/ ScheduleReset
           \/ ResetQuiesce \/ ResetTake \/ ResetStuck \/ LinkOn \/ LibDisable
           \/ UNCHANGED vars
  BY <1>6 DEF PollStart, PollAgain, FrameSeen, ScheduleReset, ResetQuiesce,
              ResetTake, ResetStuck, LinkOn, LibDisable, vars
<1> QED
  BY <1>1, <1>2, <1>3, <1>4, <1>5, <1>6 DEF Next, Poll, Task

(* The chip writes only to a descriptor it owns, and nobody else touches   *)
(* the ring while a frame is being taken.                                  *)
LEMMA HeldNext ==
    ASSUME "clear" \notin Races
    PROVE  Types /\ Phases /\ Held /\ [Next]_vars => Held'
<1> SUFFICES ASSUME Types, Phases, Held, [Next]_vars, got' # "none"
             PROVE  Held'
  BY DEF Held
<1> USE DEF Types, Held, ringVars, chipVars, loopVars
<1>1. CASE Receive
  BY <1>1 DEF Receive
<1>2. CASE FrameSeen
  BY <1>2 DEF FrameSeen
<1>3. CASE PollStart \/ PollAgain \/ ResetTake \/ LoopEnd
  BY <1>3 DEF PollStart, PollAgain, ResetTake, LoopEnd, TakeFrom, Phases, Taking
<1>4. CASE FrameReturned \/ FrameHandedUp
  BY <1>4 DEF FrameReturned, FrameHandedUp
<1>5. CASE ResetRing \/ LinkDown \/ LibEnable \/ LibRelease
  BY <1>5 DEF ResetRing, LinkDown, LibEnable, LibRelease, NapiDisabled, Phases,
              Taking
<1>6. CASE ResetQuiesce
  BY <1>6 DEF ResetQuiesce, NapiDisabled
<1>7. CASE \/ ScheduleReset \/ ResetStuck \/ LinkOn \/ LibDisable
           \/ UNCHANGED vars
  BY <1>7 DEF ScheduleReset, ResetStuck, LinkOn, LibDisable, vars
<1> QED
  BY <1>1, <1>2, <1>3, <1>4, <1>5, <1>6, <1>7 DEF Next, Poll, Task

----------------------------------------------------------------------------
(* The indexes. *)

LEMMA IndexTakes ==
    ASSUME Types, NEW D \in Nat, NEW P \in Nat, Index(D, P),
           PollStart \/ PollAgain \/ ResetTake
    PROVE  Index(D, P)'
<1>1. ~Taking /\ Taking' /\ at' = cur /\ dirty' = dirty
  BY DEF PollStart, PollAgain, ResetTake, TakeFrom, Taking, ringVars
<1>2. PICK quota \in Nat : TakeFrom("poll", quota) \/ TakeFrom("reset", quota)
  <2>1. TakeFrom("poll", Budget) \/ TakeFrom("reset", NumDesc)
    BY DEF PollStart, PollAgain, ResetTake
  <2>2. Budget \in Nat /\ NumDesc \in Nat
    BY Sizes
  <2> QED
    BY <2>1, <2>2
<1>3. cur = P % Wrap /\ dirty = D % Wrap /\ D <= P /\ P - D <= NumDesc
  BY <1>1 DEF Index, Place
<1>4. Minus(NumDesc + dirty, cur) = (D + NumDesc) - P
  BY <1>3, FilledIs
<1>5. left' \in Nat /\ left' <= (D + NumDesc) - P
  BY <1>2, <1>3, <1>4, Sizes DEF TakeFrom
<1>6. Place' = P % Wrap
  BY <1>1, <1>3 DEF Place
<1>7. left' + (P - D) <= NumDesc
  <2>1. ASSUME NEW l \in Nat, NEW m \in Nat, l <= (D + m) - P
        PROVE  l + (P - D) <= m
    BY <2>1
  <2> QED
    BY <1>5, <2>1, Sizes
<1> QED
  BY <1>1, <1>3, <1>6, <1>7 DEF Index

(* The frame at the driver's place is taken and its index moves on, or it  *)
(* is dropped where it is.                                                 *)
LEMMA IndexMoves ==
    ASSUME Types, Phases, NEW D \in Nat, NEW P \in Nat, Index(D, P),
           FrameReturned \/ FrameHandedUp, at' = (at + 1) % Wrap
    PROVE  Index(D, P + 1)'
<1>1. /\ Taking /\ Taking' /\ dirty' = dirty /\ left > 0 /\ left' = left - 1
  BY DEF FrameReturned, FrameHandedUp, Phases, Taking
<1>2. at = P % Wrap /\ dirty = D % Wrap /\ D <= P /\ left + (P - D) <= NumDesc
  BY <1>1 DEF Index, Place
<1>3. at' = (P + 1) % Wrap
  <2>1. ((P % Wrap) + 1) % Wrap = (P + 1) % Wrap
    BY Sizes, 1 \in Nat, ModAdd
  <2> QED
    BY <1>2, <2>1
<1>4. Place' = (P + 1) % Wrap
  BY <1>1, <1>3 DEF Place
<1>5. /\ D <= P + 1 /\ (P + 1) - D <= NumDesc
      /\ left' + ((P + 1) - D) <= NumDesc
  BY <1>1, <1>2, Sizes DEF Types
<1> QED
  BY <1>1, <1>2, <1>4, <1>5 DEF Index

LEMMA IndexDrops ==
    ASSUME Types, Phases, NEW D \in Nat, NEW P \in Nat, Index(D, P),
           FrameReturned, at' = at
    PROVE  Index(D, P)'
<1>1. /\ Taking /\ Taking' /\ dirty' = dirty /\ left > 0 /\ left' = left - 1
  BY DEF FrameReturned, Phases, Taking
<1>2. Place' = Place
  BY <1>1 DEF Place
<1>3. left' + (P - D) <= NumDesc
  BY <1>1, Sizes DEF Index, Types
<1> QED
  BY <1>1, <1>2, <1>3 DEF Index

(* rtl8125_rx_fill moves dirty_rx on, at most up to the driver's place. *)
LEMMA IndexEnds ==
    ASSUME Types, NEW D \in Nat, NEW P \in Nat, Index(D, P), LoopEnd,
           NEW n \in 0..NumDesc, Fill(n), dirty' = (dirty + n) % Wrap
    PROVE  n \in Nat /\ D + n <= P /\ Index(D + n, P)'
<1>1. Taking /\ ~Taking' /\ cur' = at
  BY DEF LoopEnd, Taking
<1>2. at = P % Wrap /\ dirty = D % Wrap /\ D <= P /\ P - D <= NumDesc
  BY <1>1 DEF Index, Place
<1>3. Minus(at, dirty) = P - D
  BY <1>2, Difference
<1>4. n \in Nat /\ D + n <= P
  BY <1>2, <1>3, Sizes DEF Fill
<1>5. dirty' = (D + n) % Wrap
  BY <1>2, <1>4, Sizes, ModAdd
<1>6. Place' = P % Wrap
  BY <1>1, <1>2 DEF Place
<1>7. P - (D + n) <= NumDesc
  BY <1>2, <1>4, Sizes
<1> QED
  BY <1>1, <1>4, <1>5, <1>6, <1>7 DEF Index

LEMMA IndexClears ==
    ASSUME "clear" \notin Races, Phases,
           ResetRing \/ LinkDown \/ LibEnable \/ LibRelease
    PROVE  Index(0, 0)'
<1>1. ~Taking' /\ cur' = 0 /\ dirty' = 0
  BY DEF ResetRing, LinkDown, LibEnable, LibRelease, NapiDisabled, RingRenewed,
         InitRing, Phases, Taking, loopVars
<1>2. Place' = 0
  BY <1>1 DEF Place
<1> QED
  BY <1>1, <1>2, Sizes DEF Index

LEMMA IndexStays ==
    ASSUME NEW D \in Nat, NEW P \in Nat, Index(D, P),
           \/ Receive \/ FrameSeen \/ ScheduleReset \/ ResetQuiesce
           \/ ResetStuck \/ LinkOn \/ LibDisable \/ UNCHANGED vars
    PROVE  Index(D, P)'
<1>1. UNCHANGED <<cur, dirty, at, left>> /\ Taking' = Taking
  BY DEF Receive, FrameSeen, ScheduleReset, ResetQuiesce, NapiDisabled,
         ResetStuck, LinkOn, LibDisable, Taking, vars, ringVars, loopVars
<1> QED
  BY <1>1 DEF Index, Place

LEMMA IndexInit == Init => Index(0, 0)
<1> SUFFICES ASSUME Init
             PROVE  Index(0, 0)
  OBVIOUS
<1>1. ~Taking /\ cur = 0 /\ dirty = 0
  BY DEF Init, Taking
<1> QED
  BY <1>1, Sizes DEF Index, Place

LEMMA IndexNext ==
    ASSUME "clear" \notin Races, Types, Phases, IndexInv, [Next]_vars
    PROVE  IndexInv'
<1>1. PICK D \in Nat, P \in Nat : Index(D, P)
  BY DEF IndexInv
<1> DEFINE Seen == \E a, b \in Nat : Index(a, b)'
<1> SUFFICES Seen
  BY DEF IndexInv
<1>2. CASE PollStart \/ PollAgain \/ ResetTake
  BY <1>1, <1>2, IndexTakes
<1>3. CASE FrameReturned \/ FrameHandedUp
  <2>1. CASE at' = (at + 1) % Wrap
    <3>1. P + 1 \in Nat /\ Index(D, P + 1)'
      BY <1>1, <1>3, <2>1, IndexMoves
    <3> QED
      BY <3>1
  <2>2. CASE FrameReturned /\ at' = at
    BY <1>1, <2>2, IndexDrops
  <2> QED
    BY <1>3, <2>1, <2>2 DEF FrameReturned, FrameHandedUp
<1>4. CASE LoopEnd
  <2>1. PICK n \in 0..NumDesc : Fill(n) /\ dirty' = (dirty + n) % Wrap
    BY <1>4 DEF LoopEnd
  <2>2. n \in Nat /\ Index(D + n, P)'
    BY <1>1, <1>4, <2>1, IndexEnds
  <2>3. D + n \in Nat
    BY <2>2
  <2> QED
    BY <2>2, <2>3
<1>5. CASE ResetRing \/ LinkDown \/ LibEnable \/ LibRelease
  BY <1>5, IndexClears
<1>6. CASE \/ Receive \/ FrameSeen \/ ScheduleReset \/ ResetQuiesce
           \/ ResetStuck \/ LinkOn \/ LibDisable \/ UNCHANGED vars
  BY <1>1, <1>6, IndexStays
<1> QED
  BY <1>2, <1>3, <1>4, <1>5, <1>6 DEF Next, Poll, Task

(* The entry the driver takes from. *)
LEMMA EntryOfPlace ==
    ASSUME RingSizeDivides, NEW D \in Nat, NEW P \in Nat, Index(D, P), Taking
    PROVE  Entry(at) = P % NumDesc /\ P % NumDesc \in Entries
<1>1. at = P % Wrap
  BY DEF Index, Place
<1>2. (P % Wrap) % NumDesc = P % NumDesc
  BY Sizes, ModMod DEF RingSizeDivides
<1>3. P % NumDesc \in Entries
  BY Sizes, ModRange DEF Entries
<1> QED
  BY <1>1, <1>2, <1>3 DEF Entry

----------------------------------------------------------------------------
(* The entries that wait for a buffer. *)

LEMMA HolesNext ==
    ASSUME RingSizeDivides, Races \cap {"clear", "refill"} = {},
           Types, Phases, HoleInv, [Next]_vars
    PROVE  HoleInv'
<1>1. PICK D \in Nat, P \in Nat : Index(D, P) /\ Holes(D, P)
  BY DEF HoleInv
<1> DEFINE Seen == \E a, b \in Nat : Index(a, b)' /\ Holes(a, b)'
<1> SUFFICES Seen
  BY DEF HoleInv
<1>2. CASE PollStart \/ PollAgain \/ ResetTake
  <2>1. buf' = buf
    BY <1>2 DEF PollStart, PollAgain, ResetTake, ringVars
  <2>2. Holes(D, P)'
    BY <1>1, <2>1 DEF Holes
  <2> QED
    BY <1>1, <1>2, <2>2, IndexTakes
<1>3. CASE FrameReturned
  <2>1. buf' = buf
    BY <1>3 DEF FrameReturned
  <2>2. CASE at' = (at + 1) % Wrap
    <3>1. P + 1 \in Nat /\ Index(D, P + 1)'
      BY <1>1, <1>3, <2>2, IndexMoves
    <3>2. \A k \in D..(P - 1) : k \in D..((P + 1) - 1)
      OBVIOUS
    <3>3. Holes(D, P + 1)'
      BY <1>1, <2>1, <3>2 DEF Holes
    <3> QED
      BY <3>1, <3>3
  <2>3. CASE at' = at
    <3>1. Holes(D, P)'
      BY <1>1, <2>1 DEF Holes
    <3> QED
      BY <1>1, <1>3, <2>3, <3>1, IndexDrops
  <2> QED
    BY <1>3, <2>2, <2>3 DEF FrameReturned
<1>4. CASE FrameHandedUp
  <2>1. at' = (at + 1) % Wrap /\ Taking /\ buf' = buf \ {Entry(at)}
    BY <1>4 DEF FrameHandedUp, Phases
  <2>2. P + 1 \in Nat /\ Index(D, P + 1)'
    BY <1>1, <1>4, <2>1, IndexMoves
  <2>3. Entry(at) = P % NumDesc
    BY <1>1, <2>1, EntryOfPlace
  <2>4. P \in D..((P + 1) - 1) /\ \A k \in D..(P - 1) : k \in D..((P + 1) - 1)
    BY <1>1 DEF Index
  <2>5. ASSUME NEW e \in Entries, e \notin buf'
        PROVE  \E k \in D..((P + 1) - 1) : e = k % NumDesc
    <3>1. CASE e = P % NumDesc
      BY <2>4, <3>1
    <3>2. CASE e # P % NumDesc
      <4>1. e \notin buf
        BY <2>1, <2>3, <2>5, <3>2
      <4> QED
        BY <1>1, <2>4, <4>1 DEF Holes
    <3> QED
      BY <3>1, <3>2
  <2>6. Holes(D, P + 1)'
    BY <2>5 DEF Holes
  <2> QED
    BY <2>2, <2>6
<1>5. CASE LoopEnd
  <2>1. PICK n \in 0..NumDesc : Fill(n) /\ dirty' = (dirty + n) % Wrap
    BY <1>5 DEF LoopEnd
  <2>2. n \in Nat /\ Index(D + n, P)'
    BY <1>1, <1>5, <2>1, IndexEnds
  <2>3. D + n \in Nat
    BY <2>2
  <2>4. dirty = D % Wrap /\ buf' = buf \cup (From(dirty, n) \ buf)
    BY <1>1, <2>1 DEF Index, Fill
  <2>5. \A k \in D..(D + n - 1) : k % NumDesc \in From(dirty, n)
    BY <2>2, <2>4, FromIs
  <2>6. ASSUME NEW e \in Entries, e \notin buf'
        PROVE  \E k \in (D + n)..(P - 1) : e = k % NumDesc
    <3>1. e \notin buf /\ e \notin From(dirty, n)
      BY <2>4, <2>6
    <3>2. PICK k \in D..(P - 1) : e = k % NumDesc
      BY <1>1, <3>1 DEF Holes
    <3>3. k \notin D..(D + n - 1)
      BY <2>5, <3>1, <3>2
    <3>4. k \in (D + n)..(P - 1)
      BY <2>2, <3>3
    <3> QED
      BY <3>2, <3>4
  <2>7. Holes(D + n, P)'
    BY <2>6 DEF Holes
  <2> QED
    BY <2>2, <2>3, <2>7
<1>6. CASE ResetRing \/ LinkDown \/ LibEnable \/ LibRelease
  <2>1. buf' = Entries
    BY <1>6 DEF ResetRing, LinkDown, LibEnable, LibRelease, RingRenewed,
                InitRing
  <2>2. Holes(0, 0)'
    BY <2>1 DEF Holes
  <2> QED
    BY <1>6, <2>2, IndexClears
<1>7. CASE \/ Receive \/ FrameSeen \/ ScheduleReset \/ ResetQuiesce
           \/ ResetStuck \/ LinkOn \/ LibDisable \/ UNCHANGED vars
  <2>1. buf' = buf
    BY <1>7 DEF Receive, FrameSeen, ScheduleReset, ResetQuiesce, ResetStuck,
                LinkOn, LibDisable, vars, ringVars
  <2>2. Holes(D, P)'
    BY <1>1, <2>1 DEF Holes
  <2> QED
    BY <1>1, <1>7, <2>2, IndexStays
<1> QED
  BY <1>2, <1>3, <1>4, <1>5, <1>6, <1>7 DEF Next, Poll, Task

----------------------------------------------------------------------------
(* The order of the frames. *)

(* The chip writes the next frame, after all those not taken yet. *)
LEMMA OrderReceives ==
    ASSUME "over" \notin Frames, Types, Buffers,
           NEW P \in Nat, NEW A \in Nat, Order(P, A), Receive
    PROVE  Order(P, A + 1)'
<1>1. asic = A % NumDesc /\ asic \in Entries /\ asic \in own /\ frame[asic] = "none"
  BY DEF Order, Receive, Types, Buffers
<1>2. PICK f \in Frames : frame' = [frame EXCEPT ![asic] = f]
  BY DEF Receive
<1>3. f # "none" /\ f # "over"
  BY Sizes DEF AllFrames
<1>4. \A e \in Entries : frame'[e] = IF e = asic THEN f ELSE frame[e]
  BY <1>2 DEF Types
<1>5. P <= A /\ A - P < NumDesc
  <2>1. P <= A /\ A - P <= NumDesc /\ NumDesc \in Nat \ {0}
    BY Sizes DEF Order
  <2>2. ASSUME A - P = NumDesc
        PROVE  FALSE
    <3>1. P + NumDesc = A /\ P \in P..(A - 1)
      BY <2>1, <2>2
    <3>2. A % NumDesc = P % NumDesc
      BY <2>1, <3>1, ModTurn
    <3>3. frame[P % NumDesc] # "none"
      BY <3>1 DEF Order
    <3> QED
      BY <1>1, <3>2, <3>3
  <2> QED
    BY <2>1, <2>2
<1>6. asic' = (A + 1) % NumDesc
  <2>1. ((A % NumDesc) + 1) % NumDesc = (A + 1) % NumDesc
    BY Sizes, 1 \in Nat, ModAdd
  <2> QED
    BY <1>1, <2>1 DEF Receive, Entry
<1>7. P <= A + 1 /\ (A + 1) - P <= NumDesc
  BY <1>5, Sizes
<1>8. ASSUME NEW k \in P..((A + 1) - 1)
      PROVE  frame'[k % NumDesc] # "none"
  <2>1. k \in Nat /\ k % NumDesc \in Entries
    BY Sizes, ModRange DEF Entries
  <2>2. CASE k % NumDesc = asic
    BY <1>3, <1>4, <2>1, <2>2
  <2>3. CASE k % NumDesc # asic
    <3>1. k # A
      BY <1>1, <2>3
    <3>2. k \in P..(A - 1)
      BY <1>5, <3>1
    <3>3. frame[k % NumDesc] # "none"
      BY <3>2 DEF Order
    <3> QED
      BY <1>4, <2>1, <2>3, <3>3
  <2> QED
    BY <2>2, <2>3
<1>9. ASSUME NEW e \in Entries, frame'[e] # "none"
      PROVE  \E k \in P..((A + 1) - 1) : e = k % NumDesc
  <2>1. A \in P..((A + 1) - 1) /\ \A k \in P..(A - 1) : k \in P..((A + 1) - 1)
    BY <1>5
  <2>2. CASE e = asic
    BY <1>1, <2>1, <2>2
  <2>3. CASE e # asic
    <3>1. frame[e] # "none"
      BY <1>4, <1>9, <2>3
    <3>2. PICK k \in P..(A - 1) : e = k % NumDesc
      BY <3>1 DEF Order
    <3> QED
      BY <2>1, <3>2
  <2> QED
    BY <2>2, <2>3
<1>10. \A e \in Entries : frame'[e] # "over"
  BY <1>3, <1>4 DEF Order
<1> QED
  BY <1>6, <1>7, <1>8, <1>9, <1>10 DEF Order

(* The driver takes the oldest frame. *)
LEMMA OrderTakes ==
    ASSUME RingSizeDivides, Types, Phases, Held,
           NEW D \in Nat, NEW P \in Nat, NEW A \in Nat,
           Index(D, P), Order(P, A), FrameReturned \/ FrameHandedUp
    PROVE  at' = (at + 1) % Wrap /\ Order(P + 1, A)'
<1>1. Taking /\ UNCHANGED asic
  BY DEF FrameReturned, FrameHandedUp, Phases, chipVars
<1>2. Entry(at) = P % NumDesc /\ P % NumDesc \in Entries
  BY <1>1, EntryOfPlace
<1>3. /\ frame[P % NumDesc] # "none" /\ frame[P % NumDesc] # "over"
      /\ got # "over"
  BY <1>2 DEF FrameReturned, FrameHandedUp, Held, Order
<1>4. at' = (at + 1) % Wrap
  BY <1>3 DEF FrameReturned, FrameHandedUp
<1>5. \A e \in Entries :
          frame'[e] = IF e = P % NumDesc THEN "none" ELSE frame[e]
  BY <1>2 DEF FrameReturned, FrameHandedUp, Types
<1>6. P + 1 <= A /\ A - P <= NumDesc
  <2>1. PICK k \in P..(A - 1) : P % NumDesc = k % NumDesc
    BY <1>2, <1>3 DEF Order
  <2> QED
    BY <2>1 DEF Order
<1>7. ASSUME NEW k \in (P + 1)..(A - 1)
      PROVE  frame'[k % NumDesc] # "none"
  <2>1. k \in Nat /\ P < k /\ k - P < NumDesc /\ k \in P..(A - 1)
    BY <1>6, Sizes
  <2>2. k % NumDesc # P % NumDesc
    BY <2>1, Sizes, Apart
  <2>3. k % NumDesc \in Entries
    BY <2>1, Sizes, ModRange DEF Entries
  <2>4. frame[k % NumDesc] # "none"
    BY <2>1 DEF Order
  <2> QED
    BY <1>5, <2>2, <2>3, <2>4
<1>8. ASSUME NEW e \in Entries, frame'[e] # "none"
      PROVE  \E k \in (P + 1)..(A - 1) : e = k % NumDesc
  <2>1. e # P % NumDesc /\ frame[e] # "none"
    BY <1>5, <1>8
  <2>2. PICK k \in P..(A - 1) : e = k % NumDesc
    BY <2>1 DEF Order
  <2>3. k \in (P + 1)..(A - 1)
    BY <2>1, <2>2
  <2> QED
    BY <2>2, <2>3
<1>9. \A e \in Entries : frame'[e] # "over"
  BY <1>5 DEF Order
<1>10. A - (P + 1) <= NumDesc
  BY <1>6, Sizes
<1>11. Order(P + 1, A)'
  BY <1>1, <1>6, <1>7, <1>8, <1>9, <1>10 DEF Order
<1> QED
  BY <1>4, <1>11

LEMMA OrderNext ==
    ASSUME RingSizeDivides, "clear" \notin Races, "over" \notin Frames,
           Types, Phases, Buffers, Held, OrderInv, [Next]_vars
    PROVE  OrderInv'
<1> DEFINE Seen == \E a, b, c \in Nat : Index(a, b)' /\ Order(b, c)'
<1> SUFFICES ASSUME Together'
             PROVE  Seen
  BY DEF OrderInv
<1>0. CASE ResetRing \/ LinkDown \/ LibEnable \/ LibRelease
  <2>1. frame' = Empty /\ asic' = 0
    BY <1>0 DEF ResetRing, LinkDown, LibEnable, LibRelease, RingRenewed,
                InitRing, HwReset
  <2>2. 0..(0 - 1) = {}
    OBVIOUS
  <2>3. Order(0, 0)'
    BY <2>1, <2>2, Sizes DEF Order, Empty
  <2> QED
    BY <1>0, <2>3, IndexClears
<1> SUFFICES ASSUME ~(ResetRing \/ LinkDown \/ LibEnable \/ LibRelease)
             PROVE  Seen
  BY <1>0
<1>A. Together /\ (LinkOn \/ LibDisable \/ ResetStuck => asic' = asic)
  BY DEF Together, Next, Poll, Task, vars, chipVars, Receive, PollStart,
         PollAgain, FrameSeen, FrameReturned, FrameHandedUp, LoopEnd,
         ScheduleReset, ResetQuiesce, ResetTake, ResetStuck, LinkOn,
         LibDisable, HwReset, RtnlFree, Running, Phases
<1>1. PICK D \in Nat, P \in Nat, A \in Nat : Index(D, P) /\ Order(P, A)
  BY <1>A DEF OrderInv
<1>2. CASE Receive
  <2>1. A + 1 \in Nat /\ Order(P, A + 1)'
    BY <1>1, <1>2, OrderReceives
  <2>2. Index(D, P)'
    BY <1>1, <1>2, IndexStays
  <2> QED
    BY <2>1, <2>2
<1>3. CASE FrameReturned \/ FrameHandedUp
  <2>1. at' = (at + 1) % Wrap /\ Order(P + 1, A)'
    BY <1>1, <1>3, OrderTakes
  <2>2. P + 1 \in Nat /\ Index(D, P + 1)'
    BY <1>1, <1>3, <2>1, IndexMoves
  <2> QED
    BY <2>1, <2>2
<1>4. ASSUME UNCHANGED <<frame, asic>>
      PROVE  Order(P, A)'
  BY <1>1, <1>4 DEF Order
<1>5. CASE PollStart \/ PollAgain \/ ResetTake
  <2>1. Order(P, A)'
    BY <1>4, <1>5 DEF PollStart, PollAgain, ResetTake, ringVars, chipVars
  <2> QED
    BY <1>1, <1>5, <2>1, IndexTakes
<1>6. CASE LoopEnd
  <2>1. PICK n \in 0..NumDesc : Fill(n) /\ dirty' = (dirty + n) % Wrap
    BY <1>6 DEF LoopEnd
  <2>2. n \in Nat /\ Index(D + n, P)'
    BY <1>1, <1>6, <2>1, IndexEnds
  <2>3. D + n \in Nat
    BY <2>2
  <2>4. Order(P, A)'
    BY <1>4, <1>6 DEF LoopEnd
  <2> QED
    BY <2>2, <2>3, <2>4
<1>8. CASE \/ FrameSeen \/ ScheduleReset \/ ResetQuiesce \/ ResetStuck
           \/ LibDisable \/ LinkOn
  <2>1. frame' = frame /\ asic' = asic
    BY <1>A, <1>8 DEF FrameSeen, ScheduleReset, ResetQuiesce, ResetStuck,
                      LibDisable, LinkOn, ringVars, chipVars
  <2>2. Order(P, A)'
    BY <1>1, <2>1 DEF Order
  <2> QED
    BY <1>1, <1>8, <2>2, IndexStays
<1>10. CASE UNCHANGED vars
  <2>1. Order(P, A)'
    BY <1>4, <1>10 DEF vars, ringVars, chipVars
  <2> QED
    BY <1>1, <1>10, <2>1, IndexStays
<1> QED
  BY <1>2, <1>3, <1>5, <1>6, <1>8, <1>10 DEF Next, Poll, Task

----------------------------------------------------------------------------
LEMMA RxBasics == Spec => [](Types /\ Phases)
<1>1. Init => Types /\ Phases
  BY TypesInit DEF Init, Phases
<1>2. Types /\ Phases /\ [Next]_vars => (Types /\ Phases)'
  BY TypesNext, PhasesNext
<1> QED
  BY <1>1, <1>2, PTL DEF Spec

LEMMA RxBuffers ==
    ASSUME "clear" \notin Races
    PROVE  Spec => [](Buffers /\ Held)
<1>1. Init => Buffers /\ Held
  BY DEF Init, Empty, Buffers, Held
<1>2. Types /\ Phases /\ Buffers /\ Held /\ [Next]_vars => (Buffers /\ Held)'
  BY BuffersNext, HeldNext
<1> QED
  BY <1>1, <1>2, RxBasics, PTL DEF Spec

(* Unless the ring is cleared under the poll, the chip never has a         *)
(* descriptor whose buffer rtl8125_rx_interrupt has handed up or           *)
(* rtl8125_rx_clear has freed, no descriptor is the chip's and holds a     *)
(* frame at once, and every frame is found in its buffer: a frame is taken *)
(* in several steps and the chip goes on writing in between, whatever      *)
(* frames arrive, resets fail and sizes the ring has.                      *)
THEOREM RxDmaIsSafe ==
    ASSUME "clear" \notin Races
    PROVE  Spec => []DmaHasBuffer
<1>1. Types /\ Buffers => DmaHasBuffer
  BY DEF Types, Buffers, DmaHasBuffer, Filled
<1> QED
  BY <1>1, RxBasics, RxBuffers, PTL

LEMMA RxIndexes ==
    ASSUME "clear" \notin Races
    PROVE  Spec => []IndexInv
<1>1. Init => IndexInv
  BY IndexInit DEF IndexInv
<1>2. Types /\ Phases /\ IndexInv /\ [Next]_vars => IndexInv'
  BY IndexNext
<1> QED
  BY <1>1, <1>2, RxBasics, PTL DEF Spec

(* Unless the ring is cleared under the poll, every variable keeps its     *)
(* type; in particular rx_left is at most the size of the ring whatever    *)
(* the budget of the poll, across the wrap of the 32-bit indexes.          *)
THEOREM RxTypes ==
    ASSUME "clear" \notin Races
    PROVE  Spec => []TypeOK
<1>1. Types /\ Phases /\ IndexInv => TypeOK
  <2> SUFFICES ASSUME Types, Phases, IndexInv
               PROVE  left \in 0..NumDesc
    BY DEF Types, TypeOK
  <2>1. PICK D \in Nat, P \in Nat : Index(D, P)
    BY DEF IndexInv
  <2>2. left \in Nat /\ NumDesc \in Nat
    BY Sizes DEF Types
  <2>3. CASE Taking
    <3>1. D <= P /\ left + (P - D) <= NumDesc
      BY <2>1, <2>3 DEF Index
    <3> QED
      BY <2>2, <3>1
  <2>4. CASE ~Taking
    BY <2>2, <2>4 DEF Phases
  <2> QED
    BY <2>3, <2>4
<1> QED
  BY <1>1, RxBasics, RxIndexes, PTL

(* For a ring size that divides the range of the indexes, and unless the   *)
(* ring is cleared under the poll or a reset finds no memory for it, every *)
(* descriptor is the chip's, holds a frame, or waits for a buffer between  *)
(* dirty_rx and the driver's place: rtl8125_rx_fill misses none, wherever  *)
(* memory runs out and whatever frames are dropped.                        *)
THEOREM RxRingIsAccounted ==
    ASSUME RingSizeDivides, Races \cap {"clear", "refill"} = {}
    PROVE  Spec => []RingIsAccounted
<1>1. Init => HoleInv
  <2> SUFFICES ASSUME Init
               PROVE  Holes(0, 0)
    BY IndexInit DEF HoleInv
  <2> QED
    BY DEF Init, Holes
<1>2. Types /\ Phases /\ HoleInv /\ [Next]_vars => HoleInv'
  BY HolesNext
<1>3. Types /\ Buffers /\ HoleInv => RingIsAccounted
  <2> SUFFICES ASSUME Types, Buffers, HoleInv
               PROVE  RingIsAccounted
    OBVIOUS
  <2>1. PICK D \in Nat, P \in Nat : Index(D, P) /\ Holes(D, P)
    BY DEF HoleInv
  <2>2. D <= P /\ P - D <= NumDesc /\ dirty = D % Wrap /\ Place = P % Wrap
    BY <2>1 DEF Index
  <2>3. Minus(Place, dirty) = P - D /\ P - D \in Nat
    BY <2>2, Difference
  <2>4. D + (P - D) - 1 = P - 1
    OBVIOUS
  <2>5. /\ \A e \in From(dirty, P - D) : e \in Entries
        /\ \A k \in D..(P - 1) : k % NumDesc \in From(dirty, P - D)
    BY <2>2, <2>3, <2>4, FromIs
  <2>6. ASSUME NEW e \in Entries
        PROVE  e \in own \cup Filled \cup From(dirty, P - D)
    <3>1. CASE e \in buf
      BY <3>1 DEF Buffers, Filled
    <3>2. CASE e \notin buf
      BY <2>1, <2>5, <3>2 DEF Holes
    <3> QED
      BY <3>1, <3>2
  <2>7. own \cup Filled \cup From(dirty, P - D) \subseteq Entries
    BY <2>5 DEF Types, Filled
  <2> QED
    BY <2>2, <2>3, <2>6, <2>7 DEF RingIsAccounted
<1>4. Spec => [](Buffers /\ Held)
  BY RxBuffers
<1> QED
  BY <1>1, <1>2, <1>3, <1>4, RxBasics, PTL DEF Spec

(* For a ring size that divides the range of the indexes, and unless the   *)
(* ring is cleared under the poll or an oversized frame is dropped without *)
(* moving on, rtl8125_rx_interrupt takes every frame in the order a chip   *)
(* started with the ring wrote them, and waits at the entry that chip      *)
(* writes next: driver and chip count the same frames although they share  *)
(* no index, and come back in step from every reset of the ring, also      *)
(* where the library, a second link-up or a link-up before a reset's retry *)
(* had reset the chip alone.                                               *)
THEOREM RxStaysInStep ==
    ASSUME RingSizeDivides, "clear" \notin Races, "over" \notin Frames
    PROVE  Spec => []InStep
<1>1. Init => OrderInv
  <2> SUFFICES ASSUME Init
               PROVE  Order(0, 0)
    BY IndexInit DEF OrderInv
  <2>1. 0..(0 - 1) = {}
    OBVIOUS
  <2> QED
    BY <2>1, Sizes DEF Init, Order, Empty
<1>2. Types /\ Phases /\ Buffers /\ Held /\ OrderInv /\ [Next]_vars => OrderInv'
  BY OrderNext
<1>3. OrderInv => InStep
  <2> SUFFICES ASSUME OrderInv, chip = "on"
               PROVE  InStep
    BY DEF InStep
  <2>1. PICK D \in Nat, P \in Nat, A \in Nat : Index(D, P) /\ Order(P, A)
    BY DEF OrderInv, Together
  <2>2. Place = P % Wrap /\ P <= A /\ A - P <= NumDesc /\ A - P \in Nat
    BY <2>1 DEF Index, Order
  <2>3. /\ \A e \in From(Place, A - P) :
               e \in Entries /\ \E k \in P..(A - 1) : e = k % NumDesc
        /\ \A k \in P..(A - 1) : k % NumDesc \in From(Place, A - P)
    <3>1. P + (A - P) - 1 = A - 1
      OBVIOUS
    <3> QED
      BY <2>2, <3>1, FromIs
  <2>4. Filled = From(Place, A - P)
    <3>1. ASSUME NEW e \in Filled
          PROVE  e \in From(Place, A - P)
      BY <2>1, <2>3 DEF Filled, Order
    <3>2. ASSUME NEW e \in From(Place, A - P)
          PROVE  e \in Filled
      BY <2>1, <2>3 DEF Filled, Order
    <3> QED
      BY <3>1, <3>2
  <2>5. Filled = {k % NumDesc : k \in P..(A - 1)}
    BY <2>3, <2>4
  <2>6. Cardinality({k % NumDesc : k \in P..(A - 1)}) = A - P
    BY <2>2, Sizes, EntriesCount
  <2>7. Cardinality(Filled) = A - P
    BY <2>5, <2>6
  <2>8. Entry(Place + (A - P)) = A % NumDesc
    <3>1. Entry((P % Wrap) + (A - P)) = (P + (A - P)) % NumDesc
      BY <2>2, EntryIs
    <3>2. P + (A - P) = A
      OBVIOUS
    <3> QED
      BY <2>2, <3>1, <3>2
  <2>9. asic = A % NumDesc
    BY <2>1 DEF Order
  <2> QED
    BY <2>4, <2>7, <2>8, <2>9 DEF InStep
<1>4. Spec => [](Buffers /\ Held)
  BY RxBuffers
<1> QED
  BY <1>1, <1>2, <1>3, <1>4, RxBasics, PTL DEF Spec
============================================================================
