--------------------------- MODULE NicPollProofs ---------------------------
(***************************************************************************)
(* Proofs about the NIC adapter, for every size of the ring buffer, every  *)
(* loop score and every number of frames.                                  *)
(***************************************************************************)
EXTENDS NicProps, TLAPS, SequenceTheorems

-----------------------------------------------------------------------------
(* The inductive invariant.                                                *)

\* What the phase of nic_poll_data() says about the driver and the locals.
PhaseInv ==
    /\ isLegacyInterface => legacyDriver
    /\ ctl.pc \in {"ring", "take", "clear"} => legacyDriver
    /\ ctl.pc \in {"recv", "exited"} => ~legacyDriver
    /\ ~legacyDriver => \A i \in Slots : slots[i].len = NoFrame
    /\ ctl.pc \in {"recv", "take"} => ctl.score > 0
    /\ ctl.pc = "recv" => ctl.ok \/ mayFail
    /\ ctl.pc = "recv" /\ ctl.ok =>
            slots[0].data \in Frames /\ ctl.len = slots[0].data
    /\ ctl.pc \in {"take", "clear"} => slots[pos].len # NoFrame
    /\ drv.pc = "publish" =>
            /\ legacyDriver
            /\ drv.frame \in Frames
            /\ slots[drv.pos] = [data |-> drv.frame, len |-> NoFrame]

\* The elements that belong to the network stack are those from pos up to
\* the driver's position, and each holds a whole frame.
RingInv ==
    /\ \A k \in 0..RingSize - 1 :
            slots[After(pos, k)].len # NoFrame <=> k < Filled
    /\ \A i \in Slots :
            slots[i].len # NoFrame => slots[i].data = slots[i].len

IInv == TypeOK /\ PhaseInv /\ RingInv

USE DEF kindVars

\* A frame in the event driver that the poll under way will not fetch has a
\* wake-up on its way.
WakeInv ==
    ~legacyDriver /\ ~mayFail /\ nicQueue # <<>> =>
        \/ loopEvent
        \/ drv.pc = "emit"
        \/ ctl.pc \in {"read", "recv"} /\ ctl.more
        \/ ctl.pc = "exited"

-----------------------------------------------------------------------------
(* Sequences.                                                              *)

\* A function on 1..n is a sequence of length n.
LEMMA FunctionIsSeq ==
  ASSUME NEW S, NEW n \in Nat, NEW s \in [1..n -> S]
  PROVE  s \in Seq(S) /\ Len(s) = n
  OBVIOUS

\* A sequence that goes on where s ends.
LEMMA AppendIs ==
  ASSUME NEW S, NEW s \in Seq(S), NEW t \in Seq(S), NEW e \in S,
         Len(t) = Len(s) + 1, \A i \in 1..Len(s) : t[i] = s[i],
         t[Len(s) + 1] = e
  PROVE  t = Append(s, e)
  <1>1. /\ Append(s, e) \in Seq(S)
        /\ Len(Append(s, e)) = Len(t)
        /\ \A i \in 1..Len(t) : t[i] = Append(s, e)[i]
    BY AppendProperties
  <1> QED BY <1>1, SeqEqual

\* A sequence that starts one element later than s.
LEMMA TailIs ==
  ASSUME NEW S, NEW s \in Seq(S), NEW t \in Seq(S), s # <<>>,
         Len(t) = Len(s) - 1, \A i \in 1..Len(t) : t[i] = s[i + 1]
  PROVE  t = Tail(s)
  <1>1. /\ Tail(s) \in Seq(S)
        /\ Len(Tail(s)) = Len(t)
        /\ \A i \in 1..Len(t) : t[i] = Tail(s)[i]
    BY HeadTailProperties
  <1> QED BY <1>1, SeqEqual

\* An element put in front of a sequence.
LEMMA InFront ==
  ASSUME NEW S, NEW s \in Seq(S), NEW e \in S
  PROVE  /\ <<e>> \o s \in Seq(S)
         /\ <<e>> \o s # <<>>
         /\ Head(<<e>> \o s) = e
         /\ Tail(<<e>> \o s) = s
  <1>1. <<e>> \in Seq(S) /\ Len(<<e>>) = 1 /\ <<e>>[1] = e
    OBVIOUS
  <1>2. /\ <<e>> \o s \in Seq(S)
        /\ Len(<<e>> \o s) = Len(s) + 1
        /\ \A i \in 1..Len(s) + 1 :
              (<<e>> \o s)[i] = IF i <= 1 THEN e ELSE s[i - 1]
    BY <1>1, ConcatProperties
  <1>3. <<e>> \o s # <<>>
    BY <1>2
  <1>4. s = Tail(<<e>> \o s)
    BY <1>2, <1>3, TailIs
  <1> QED BY <1>2, <1>3, <1>4

\* The head put back in front.
LEMMA HeadInFront ==
  ASSUME NEW S, NEW s \in Seq(S), s # <<>>
  PROVE  <<Head(s)>> \o Tail(s) = s
  <1>1. /\ Head(s) \in S /\ Tail(s) \in Seq(S) /\ Len(Tail(s)) = Len(s) - 1
        /\ \A i \in 1..Len(Tail(s)) : Tail(s)[i] = s[i + 1]
    BY HeadTailProperties
  <1>2. <<Head(s)>> \in Seq(S) /\ Len(<<Head(s)>>) = 1
        /\ <<Head(s)>>[1] = s[1]
    BY <1>1
  <1>3. /\ <<Head(s)>> \o Tail(s) \in Seq(S)
        /\ Len(<<Head(s)>> \o Tail(s)) = Len(s)
        /\ \A i \in 1..Len(s) : (<<Head(s)>> \o Tail(s))[i] =
              IF i <= 1 THEN s[1] ELSE Tail(s)[i - 1]
    BY <1>1, <1>2, ConcatProperties
  <1>4. \A i \in 1..Len(s) : (<<Head(s)>> \o Tail(s))[i] = s[i]
    BY <1>1, <1>3
  <1> QED BY <1>3, <1>4, SeqEqual

\* Appending at the end and putting in front do not meet.
LEMMA FrontAppend ==
  ASSUME NEW S, NEW s \in Seq(S), NEW e \in S, NEW f \in S
  PROVE  <<e>> \o Append(s, f) = Append(<<e>> \o s, f)
  <1>1. <<e>> \in Seq(S) /\ <<f>> \in Seq(S) /\ <<e>> \o s \in Seq(S)
    BY InFront
  <1>2. /\ Append(s, f) = s \o <<f>>
        /\ Append(<<e>> \o s, f) = (<<e>> \o s) \o <<f>>
    BY <1>1, AppendIsConcat
  <1> QED BY <1>1, <1>2, ConcatAssociative

-----------------------------------------------------------------------------
(* Type correctness and the phases.                                        *)

\* The control thread outside nic_poll_data().
LEMMA WaitingFields == Waiting.pc = "wait" /\ Waiting \in CtlRecord
  BY ScoreAssumption DEF Waiting, CtlRecord, Lengths

LEMMA InitInv == Init => IInv
  <1> SUFFICES ASSUME Init PROVE IInv
    OBVIOUS
  <1>1. 0 \in Slots /\ NoFrame \in Lengths
    BY RingAssumption DEF Slots, Lengths
  <1>2. TypeOK
    <2>1. slots \in [Slots -> [data : Lengths, len : Lengths]]
      BY <1>1 DEF Init
    <2>2. drv \in DrvRecord
      BY <1>1 DEF Init, DrvRecord
    <2>3. handed \in [data : Lengths, len : Lengths, odd : BOOLEAN]
      BY <1>1 DEF Init
    <2>4. nicQueue \in Seq(Frames)
      BY EmptySeq DEF Init
    <2> QED BY <1>1, <2>1, <2>2, <2>3, <2>4, WaitingFields DEF Init, TypeOK
  <1>3. PhaseInv
    BY <1>1, WaitingFields DEF Init, PhaseInv
  <1>4. RingInv
    BY RingAssumption DEF Init, RingInv, Slots, After, Filled
  <1> QED BY <1>2, <1>3, <1>4 DEF IInv

LEMMA NextSlotType ==
  ASSUME NEW i \in Slots PROVE NextSlot(i) \in Slots
  BY RingAssumption DEF NextSlot, Slots

LEMMA TypeStep ==
  ASSUME IInv, [Next]_vars PROVE TypeOK'
  <1>0. TypeOK /\ PhaseInv /\ 0 \in Slots
    BY RingAssumption DEF IInv, Slots
  <1>1. ASSUME NEW f \in Frames, NicReceive(f)
        PROVE  TypeOK'
    <2>1. drv' \in DrvRecord
      BY <1>0, <1>1, NextSlotType DEF NicReceive, TypeOK, DrvRecord, Lengths
    <2>2. nicQueue' \in Seq(Frames)
      BY <1>0, <1>1, AppendProperties DEF NicReceive, TypeOK
    <2> QED BY <1>0, <1>1, <2>1, <2>2
              DEF NicReceive, TypeOK, Lengths, modeVars, drvVars
  <1>2. ASSUME NEW f \in Frames, NicFill(f)
        PROVE  TypeOK'
    <2>1. drv' \in DrvRecord
      <3>1. /\ drv' = [drv EXCEPT !.pc = "publish", !.frame = f]
            /\ drv \in DrvRecord /\ f \in Lengths
        BY <1>0, <1>2 DEF NicFill, TypeOK, Lengths
      <3> QED BY <3>1 DEF DrvRecord
    <2>2. slots' \in [Slots -> [data : Lengths, len : Lengths]]
      <3>1. drv.pos \in Slots /\ f \in Lengths
        BY <1>0 DEF TypeOK, DrvRecord, Lengths
      <3> QED BY <3>1, <1>0, <1>2 DEF NicFill, TypeOK
    <2> QED BY <1>0, <1>2, <2>1, <2>2 DEF NicFill, TypeOK, modeVars
  <1>3. CASE NicPublish
    <2>1. drv' \in DrvRecord
      <3>1. drv' = [pc |-> "emit", pos |-> NextSlot(drv.pos),
                    frame |-> NoFrame]
        BY <1>3 DEF NicPublish
      <3>2. NextSlot(drv.pos) \in Slots /\ NoFrame \in Lengths
        BY <1>0, NextSlotType DEF TypeOK, DrvRecord, Lengths
      <3> QED BY <3>1, <3>2 DEF DrvRecord
    <2>2. slots' \in [Slots -> [data : Lengths, len : Lengths]]
      <3>1. drv.pos \in Slots /\ drv.frame \in Lengths
        BY <1>0 DEF TypeOK, DrvRecord
      <3> QED BY <3>1, <1>0, <1>3 DEF NicPublish, TypeOK
    <2> QED BY <1>0, <1>3, <2>1, <2>2 DEF NicPublish, TypeOK, modeVars
  <1>4. CASE NicEmit
    <2>1. drv' \in DrvRecord
      BY <1>0, <1>4, NextSlotType DEF NicEmit, TypeOK, DrvRecord, Lengths
    <2> QED BY <1>0, <1>4, <2>1 DEF NicEmit, TypeOK, Lengths, modeVars, drvVars
  <1>5. CASE TickOrData
    <2> QED BY <1>0, <1>5 DEF TickOrData, TypeOK, Lengths, modeVars, drvVars
  <1>6. ASSUME NEW score \in 1..MaxScore, Poll(score)
        PROVE  TypeOK'
    <2>1. ctl' \in CtlRecord
      <3>1. PICK pc \in {"ring", "read"} :
              ctl' = [Waiting EXCEPT !.pc = pc, !.score = score,
                                     !.more = TRUE]
        BY <1>6 DEF Poll
      <3>2. score \in 0..MaxScore
        BY ScoreAssumption
      <3> QED BY <3>1, <3>2, WaitingFields DEF CtlRecord
    <2> QED BY <1>0, <1>6, <2>1 DEF Poll, TypeOK, Lengths, modeVars, drvVars
  <1>7. CASE ReadDetectsLegacy
    <2>1. ctl' \in CtlRecord
      BY <1>0, <1>7, WaitingFields, ScoreAssumption
        DEF ReadDetectsLegacy, TypeOK, CtlRecord
    <2> QED BY <1>0, <1>7, <2>1
              DEF ReadDetectsLegacy, TypeOK, Lengths, modeVars, drvVars
  <1>8. CASE ReadNothing
    <2>1. ctl' \in CtlRecord
      BY <1>0, <1>8, WaitingFields, ScoreAssumption
        DEF ReadNothing, TypeOK, CtlRecord
    <2> QED BY <1>0, <1>8, <2>1
              DEF ReadNothing, TypeOK, Lengths, modeVars, drvVars
  <1>9. CASE ReadFrame
    <2>0. Head(nicQueue) \in Frames /\ Tail(nicQueue) \in Seq(Frames)
      BY <1>0, <1>9, HeadTailProperties DEF TypeOK, ReadFrame
    <2>1. ctl' \in CtlRecord
      BY <1>0, <1>9, WaitingFields, ScoreAssumption, <2>0
        DEF ReadFrame, TypeOK, CtlRecord, Lengths
    <2> QED BY <1>0, <1>9, <2>1, <2>0
              DEF ReadFrame, TypeOK, Lengths, modeVars, drvVars
  <1>10. CASE ReadFatal
    <2>1. ctl' \in CtlRecord
      BY <1>0, <1>10, WaitingFields, ScoreAssumption
        DEF ReadFatal, TypeOK, CtlRecord
    <2> QED BY <1>0, <1>10, <2>1
              DEF ReadFatal, TypeOK, Lengths, modeVars, drvVars
  <1>11. CASE ReadFails
    <2>1. ctl' \in CtlRecord
      BY <1>0, <1>11, WaitingFields, ScoreAssumption
        DEF ReadFails, TypeOK, CtlRecord
    <2> QED BY <1>0, <1>11, <2>1
              DEF ReadFails, TypeOK, Lengths, modeVars, drvVars
  <1>12. CASE Recv
    <2>1. ctl' \in CtlRecord
      <3>1. /\ ctl' = [ctl EXCEPT !.pc = "read", !.score = @ - 1, !.ok = FALSE]
            /\ ctl \in CtlRecord /\ ctl.score > 0
        BY <1>0, <1>12 DEF Recv, TypeOK, PhaseInv
      <3>2. ctl.score - 1 \in 0..MaxScore
        BY <3>1, ScoreAssumption DEF CtlRecord
      <3> QED BY <3>1, <3>2 DEF CtlRecord
    <2> QED BY <1>0, <1>12, <2>1
              DEF Recv, TypeOK, Lengths, modeVars, drvVars, HandOver, CtlRecord
  <1>13. CASE ReadDone
    <2>1. ctl' \in CtlRecord
      BY <1>0, <1>13, WaitingFields, ScoreAssumption
        DEF ReadDone, TypeOK, CtlRecord
    <2> QED BY <1>0, <1>13, <2>1
              DEF ReadDone, TypeOK, Lengths, modeVars, drvVars
  <1>14. CASE RingCheck
    <2>1. ctl' \in CtlRecord
      BY <1>0, <1>14, WaitingFields, ScoreAssumption
        DEF RingCheck, TypeOK, CtlRecord
    <2> QED BY <1>0, <1>14, <2>1
              DEF RingCheck, TypeOK, Lengths, modeVars, drvVars
  <1>15. CASE RingTake
    <2>1. ctl' \in CtlRecord
      <3>1. /\ ctl' = [ctl EXCEPT !.pc = "clear", !.score = @ - 1]
            /\ ctl \in CtlRecord /\ ctl.score > 0
        BY <1>0, <1>15 DEF RingTake, TypeOK, PhaseInv
      <3>2. ctl.score - 1 \in 0..MaxScore
        BY <3>1, ScoreAssumption DEF CtlRecord
      <3> QED BY <3>1, <3>2 DEF CtlRecord
    <2> QED BY <1>0, <1>15, <2>1
              DEF RingTake, TypeOK, Lengths, modeVars, drvVars, HandOver,
                  CtlRecord
  <1>16. CASE RingClear
    <2>1. ctl' \in CtlRecord
      BY <1>0, <1>16, WaitingFields, ScoreAssumption
        DEF RingClear, TypeOK, CtlRecord
    <2> QED BY <1>0, <1>16, <2>1, NextSlotType
              DEF RingClear, TypeOK, Lengths, modeVars, drvVars
  <1>17. CASE RingDone
    <2>1. ctl' \in CtlRecord
      BY <1>0, <1>17, WaitingFields, ScoreAssumption
        DEF RingDone, TypeOK, CtlRecord
    <2> QED BY <1>0, <1>17, <2>1
              DEF RingDone, TypeOK, Lengths, modeVars, drvVars
  <1>18. CASE UNCHANGED vars
    BY <1>0, <1>18 DEF vars, TypeOK
  <1> QED
    BY <1>1, <1>2, <1>3, <1>4, <1>5, <1>6, <1>7, <1>8, <1>9, <1>10,
       <1>11, <1>12, <1>13, <1>14, <1>15, <1>16, <1>17, <1>18
    DEF Next, DriverStep, PollStep

LEMMA PhaseStep ==
  ASSUME IInv, [Next]_vars PROVE PhaseInv'
  <1>0. /\ TypeOK /\ PhaseInv /\ 0 \in Slots /\ NoFrame \notin Frames
        /\ pos \in Slots /\ drv.pos \in Slots
        /\ slots \in [Slots -> [data : Lengths, len : Lengths]]
        /\ ctl \in CtlRecord /\ drv \in DrvRecord
    BY RingAssumption, FrameAssumption DEF IInv, TypeOK, DrvRecord, Slots
  <1>1. ASSUME NEW f \in Frames, NicReceive(f)
        PROVE  PhaseInv'
    BY <1>0, <1>1, WaitingFields
      DEF NicReceive, PhaseInv, modeVars, drvVars, DrvRecord
  <1>2. ASSUME NEW f \in Frames, NicFill(f)
        PROVE  PhaseInv'
    BY <1>0, <1>2, WaitingFields
      DEF NicFill, PhaseInv, modeVars, drvVars, DrvRecord
  <1>3. CASE NicPublish
    BY <1>0, <1>3, WaitingFields
      DEF NicPublish, PhaseInv, modeVars, drvVars, DrvRecord
  <1>4. CASE NicEmit
    BY <1>0, <1>4, WaitingFields
      DEF NicEmit, PhaseInv, modeVars, drvVars, DrvRecord
  <1>5. CASE TickOrData
    BY <1>0, <1>5, WaitingFields
      DEF TickOrData, PhaseInv, modeVars, drvVars, DrvRecord
  <1>6. ASSUME NEW score \in 1..MaxScore, Poll(score)
        PROVE  PhaseInv'
    BY <1>0, <1>6, WaitingFields
      DEF Poll, PhaseInv, modeVars, drvVars, CtlRecord
  <1>7. CASE ReadDetectsLegacy
    BY <1>0, <1>7, WaitingFields
      DEF ReadDetectsLegacy, PhaseInv, modeVars, drvVars, CtlRecord, Reading
  <1>8. CASE ReadNothing
    BY <1>0, <1>8, WaitingFields
      DEF ReadNothing, PhaseInv, modeVars, drvVars, CtlRecord, Reading
  <1>9. CASE ReadFrame
    <2>1. /\ ~legacyDriver /\ ~legacyDriver' /\ isLegacyInterface' = FALSE
          /\ drv' = drv /\ drv.pc # "publish" /\ pos' = pos
      BY <1>0, <1>9 DEF ReadFrame, PhaseInv, modeVars, TypeOK
    <2>2. /\ ctl'.pc = "recv" /\ ctl'.score > 0 /\ ctl'.ok
          /\ ctl'.len = Head(nicQueue)
      BY <1>0, <1>9 DEF ReadFrame, Reading, CtlRecord
    <2>3. Head(nicQueue) \in Frames
      BY <1>0, <1>9, HeadTailProperties DEF ReadFrame, TypeOK
    <2>4. /\ slots'[0].data = Head(nicQueue)
          /\ \A i \in Slots : slots'[i].len = NoFrame
      BY <1>0, <1>9, <2>1 DEF ReadFrame, PhaseInv
    <2> QED BY <2>1, <2>2, <2>3, <2>4 DEF PhaseInv
  <1>10. CASE ReadFatal
    BY <1>0, <1>10, WaitingFields
      DEF ReadFatal, PhaseInv, modeVars, drvVars, CtlRecord
  <1>11. CASE ReadFails
    BY <1>0, <1>11, WaitingFields
      DEF ReadFails, PhaseInv, modeVars, drvVars, CtlRecord, Reading
  <1>12. CASE Recv
    BY <1>0, <1>12, WaitingFields
      DEF Recv, PhaseInv, modeVars, drvVars, CtlRecord
  <1>13. CASE ReadDone
    BY <1>0, <1>13, WaitingFields
      DEF ReadDone, PhaseInv, modeVars, drvVars, CtlRecord, Reading
  <1>14. CASE RingCheck
    BY <1>0, <1>14, WaitingFields
      DEF RingCheck, PhaseInv, modeVars, drvVars, CtlRecord, Reading
  <1>15. CASE RingTake
    BY <1>0, <1>15, WaitingFields
      DEF RingTake, PhaseInv, modeVars, drvVars, CtlRecord
  <1>16. CASE RingClear
    BY <1>0, <1>16, WaitingFields
      DEF RingClear, PhaseInv, modeVars, drvVars, CtlRecord
  <1>17. CASE RingDone
    BY <1>0, <1>17, WaitingFields
      DEF RingDone, PhaseInv, modeVars, drvVars, CtlRecord
  <1>18. CASE UNCHANGED vars
    BY <1>0, <1>18 DEF vars, PhaseInv
  <1> QED
    BY <1>1, <1>2, <1>3, <1>4, <1>5, <1>6, <1>7, <1>8, <1>9, <1>10,
       <1>11, <1>12, <1>13, <1>14, <1>15, <1>16, <1>17, <1>18
    DEF Next, DriverStep, PollStep

-----------------------------------------------------------------------------
(* The ring.                                                               *)

LEMMA AfterType ==
  ASSUME NEW i \in Slots, NEW k \in 0..RingSize - 1
  PROVE  After(i, k) \in Slots
  BY RingAssumption DEF After, Slots

LEMMA AfterZero ==
  ASSUME NEW i \in Slots PROVE After(i, 0) = i
  BY RingAssumption DEF After, Slots

\* No element is met twice on the way around.
LEMMA AfterInjective ==
  ASSUME NEW i \in Slots, NEW j \in 0..RingSize - 1,
         NEW k \in 0..RingSize - 1, After(i, j) = After(i, k)
  PROVE  j = k
  BY RingAssumption DEF After, Slots

LEMMA AfterNext ==
  ASSUME NEW i \in Slots, NEW k \in 0..RingSize - 1
  PROVE  After(NextSlot(i), k) =
            IF k + 1 < RingSize THEN After(i, k + 1) ELSE i
  BY RingAssumption DEF After, NextSlot, Slots

\* Where the elements of the network stack end.
LEMMA FilledEnd ==
  ASSUME TypeOK
  PROVE  /\ Filled \in 0..RingSize
         /\ Filled < RingSize => After(pos, Filled) = drv.pos
         /\ Filled = RingSize => drv.pos = pos
  <1>1. pos \in Slots /\ drv.pos \in Slots
    BY DEF TypeOK, DrvRecord
  <1> QED BY <1>1, RingAssumption DEF Filled, After, Slots

\* The driver publishes one more element, behind the others.
LEMMA PublishFilled ==
  ASSUME IInv, NicPublish
  PROVE  /\ Filled < RingSize
         /\ After(pos, Filled) = drv.pos
         /\ Filled' = Filled + 1
  <1>1. /\ TypeOK /\ pos \in Slots /\ drv.pos \in Slots /\ drv.frame \in Frames
        /\ slots \in [Slots -> [data : Lengths, len : Lengths]]
        /\ slots[drv.pos].len = NoFrame /\ drv.frame # NoFrame
    BY FrameAssumption DEF IInv, TypeOK, DrvRecord, PhaseInv, NicPublish
  <1>2. /\ pos' = pos /\ drv'.pos = NextSlot(drv.pos)
        /\ \A i \in Slots : slots'[i].len =
              IF i = drv.pos THEN drv.frame ELSE slots[i].len
    BY <1>1 DEF NicPublish
  <1>3. 0 \in 0..RingSize - 1 /\ RingSize \in Nat
    BY RingAssumption
  <1>4. slots[pos].len # NoFrame <=> 0 < Filled
    BY <1>1, <1>3, AfterZero DEF IInv, RingInv
  <1>5. Filled < RingSize
    BY <1>1, <1>3, <1>4, FilledEnd
  <1>6. Filled' = Filled + 1
    <2>1. CASE drv.pos = pos
      <3>1. Filled = 0
        BY <1>1, <2>1 DEF Filled
      <3>2. NextSlot(pos) # pos => Filled' = 1
        BY <1>1, <1>2, <1>3, <2>1 DEF Filled, NextSlot, Slots
      <3>3. NextSlot(pos) = pos => Filled' = RingSize /\ RingSize = 1
        BY <1>1, <1>2, <1>3, <2>1 DEF Filled, NextSlot, Slots
      <3> QED BY <3>1, <3>2, <3>3
    <2>2. CASE drv.pos # pos /\ NextSlot(drv.pos) = pos
      <3>1. Filled = RingSize - 1 /\ RingSize > 1
        BY <1>1, <1>3, <2>2 DEF Filled, NextSlot, Slots
      <3>2. slots'[pos].len # NoFrame
        BY <1>1, <1>2, <1>3, <1>4, <2>2, <3>1
      <3>3. Filled' = RingSize
        BY <1>2, <2>2, <3>2 DEF Filled
      <3> QED BY <1>3, <3>1, <3>3
    <2>3. CASE drv.pos # pos /\ NextSlot(drv.pos) # pos
      BY <1>1, <1>2, <1>3, <2>3 DEF Filled, NextSlot, Slots
    <2> QED BY <2>1, <2>2, <2>3
  <1> QED BY <1>1, <1>5, <1>6, FilledEnd

\* The adapter gives the first element back.
LEMMA ClearFilled ==
  ASSUME IInv, RingClear
  PROVE  Filled > 0 /\ Filled' = Filled - 1
  <1>1. /\ TypeOK /\ pos \in Slots /\ drv.pos \in Slots
        /\ slots \in [Slots -> [data : Lengths, len : Lengths]]
        /\ slots[pos].len # NoFrame
    BY DEF IInv, TypeOK, DrvRecord, PhaseInv, RingClear
  <1>2. /\ pos' = NextSlot(pos) /\ drv'.pos = drv.pos
        /\ \A i \in Slots : slots'[i].len =
              IF i = pos THEN NoFrame ELSE slots[i].len
    BY <1>1 DEF RingClear, drvVars
  <1>3. 0 \in 0..RingSize - 1 /\ RingSize \in Nat
    BY RingAssumption
  <1>4. Filled > 0
    BY <1>1, <1>3, AfterZero, FilledEnd DEF IInv, RingInv
  <1>5. CASE RingSize = 1
    BY <1>1, <1>2, <1>4, <1>5 DEF Filled, NextSlot, Slots
  <1>6. CASE RingSize > 1
    <2>1. slots[NextSlot(pos)].len # NoFrame <=> 1 < Filled
      <3>1. After(pos, 1) = NextSlot(pos) /\ 1 \in 0..RingSize - 1
        BY <1>1, <1>3, <1>6 DEF After, NextSlot, Slots
      <3> QED BY <3>1 DEF IInv, RingInv
    <2>2. NextSlot(pos) \in Slots /\ NextSlot(pos) # pos
      BY <1>1, <1>3, <1>6 DEF NextSlot, Slots
    <2>3. CASE drv.pos = pos
      BY <1>1, <1>2, <1>3, <1>6, <2>2, <2>3 DEF Filled, NextSlot, Slots
    <2>4. CASE drv.pos = NextSlot(pos)
      <3>1. Filled = 1
        BY <1>1, <1>3, <1>6, <2>2, <2>4 DEF Filled, NextSlot, Slots
      <3>2. Filled' = 0
        BY <1>1, <1>2, <2>1, <2>2, <2>4, <3>1 DEF Filled
      <3> QED BY <3>1, <3>2
    <2>5. CASE drv.pos # pos /\ drv.pos # NextSlot(pos)
      BY <1>1, <1>2, <1>3, <1>6, <2>2, <2>5 DEF Filled, NextSlot, Slots
    <2> QED BY <2>3, <2>4, <2>5
  <1> QED BY <1>3, <1>4, <1>5, <1>6

\* A step that leaves the elements of the network stack alone.
RingAlone ==
    /\ pos' = pos
    /\ drv'.pos = drv.pos
    /\ \A i \in Slots :
          /\ slots'[i].len = slots[i].len
          /\ slots[i].len # NoFrame => slots'[i].data = slots[i].data

LEMMA RingStays ==
  ASSUME IInv, RingAlone
  PROVE  RingInv' /\ Filled' = Filled
  <1>1. pos \in Slots /\ \A k \in 0..RingSize - 1 : After(pos, k) \in Slots
    BY AfterType DEF IInv, TypeOK
  <1>2. Filled' = Filled
    BY <1>1 DEF RingAlone, Filled
  <1>3. \A k \in 0..RingSize - 1 :
            slots'[After(pos', k)].len # NoFrame <=> k < Filled'
    BY <1>1, <1>2 DEF RingAlone, IInv, RingInv
  <1>4. \A i \in Slots :
            slots'[i].len # NoFrame => slots'[i].data = slots'[i].len
    BY DEF RingAlone, IInv, RingInv
  <1> QED BY <1>2, <1>3, <1>4 DEF RingInv, After

\* Only publishing and giving back are steps of another kind.
LEMMA RingSteps ==
  ASSUME IInv, [Next]_vars
  PROVE  RingAlone \/ NicPublish \/ RingClear
  <1>0. /\ slots \in [Slots -> [data : Lengths, len : Lengths]]
        /\ drv \in DrvRecord /\ drv.pos \in Slots /\ 0 \in Slots
    BY RingAssumption DEF IInv, TypeOK, DrvRecord, Slots
  <1>1. ASSUME UNCHANGED <<slots, pos, drv>> PROVE RingAlone
    BY <1>1 DEF RingAlone
  <1>2. ASSUME NEW f \in Frames, NicFill(f) PROVE RingAlone
    <2>1. /\ slots[drv.pos].len = NoFrame /\ pos' = pos
          /\ slots' = [slots EXCEPT ![drv.pos].data = f]
      BY <1>2 DEF NicFill
    <2>2. drv'.pos = drv.pos
      BY <1>0, <1>2 DEF NicFill, DrvRecord
    <2> QED BY <1>0, <2>1, <2>2 DEF RingAlone
  <1>3. CASE ReadFrame
    <2>1. /\ pos' = pos /\ drv' = drv
          /\ slots' = [slots EXCEPT ![0].data = Head(nicQueue)]
          /\ \A i \in Slots : slots[i].len = NoFrame
      BY <1>3 DEF ReadFrame, IInv, PhaseInv
    <2> QED BY <1>0, <2>1 DEF RingAlone
  <1>4. ASSUME NEW f \in Frames, NicReceive(f) PROVE RingAlone
    BY <1>0, <1>4 DEF NicReceive, DrvRecord, RingAlone
  <1>5. CASE NicEmit
    BY <1>0, <1>5 DEF NicEmit, DrvRecord, RingAlone
  <1>6. CASE TickOrData
    BY <1>1, <1>6 DEF TickOrData, drvVars
  <1>7. ASSUME NEW score \in 1..MaxScore, Poll(score) PROVE RingAlone
    <2>1. UNCHANGED <<slots, pos, drv>>
      BY <1>7 DEF Poll, drvVars
    <2> QED BY <1>1, <2>1
  <1>8. CASE \/ ReadDetectsLegacy \/ ReadNothing \/ ReadFatal \/ ReadFails
             \/ Recv \/ ReadDone \/ RingCheck \/ RingTake \/ RingDone
    BY <1>1, <1>8
    DEF ReadDetectsLegacy, ReadNothing, ReadFatal, ReadFails, Recv, ReadDone,
        RingCheck, RingTake, RingDone, drvVars
  <1>9. CASE UNCHANGED vars
    BY <1>1, <1>9 DEF vars
  <1> QED BY <1>2, <1>3, <1>4, <1>5, <1>6, <1>7, <1>8, <1>9
          DEF Next, DriverStep, PollStep

LEMMA PublishRing == ASSUME IInv, NicPublish PROVE RingInv'
  <1>1. /\ pos \in Slots /\ drv.pos \in Slots /\ drv.frame # NoFrame
        /\ slots \in [Slots -> [data : Lengths, len : Lengths]]
        /\ slots[drv.pos].data = drv.frame
    BY FrameAssumption DEF IInv, TypeOK, DrvRecord, PhaseInv, NicPublish
  <1>2. pos' = pos /\ slots' = [slots EXCEPT ![drv.pos].len = drv.frame]
    BY DEF NicPublish
  <1>3. /\ Filled \in 0..RingSize - 1 /\ Filled' = Filled + 1
        /\ After(pos, Filled) = drv.pos
    BY PublishFilled, FilledEnd, RingAssumption DEF IInv
  <1>4. ASSUME NEW k \in 0..RingSize - 1
        PROVE  slots'[After(pos, k)].len # NoFrame <=> k < Filled'
    <2>1. After(pos, k) \in Slots
      BY <1>1, AfterType
    <2>2. CASE k = Filled
      BY <1>1, <1>2, <1>3, <2>2
    <2>3. CASE k # Filled
      <3>1. After(pos, k) # drv.pos
        BY <1>1, <1>3, <2>3, AfterInjective
      <3>2. slots[After(pos, k)].len # NoFrame <=> k < Filled
        BY DEF IInv, RingInv
      <3> QED BY <1>1, <1>2, <1>3, <2>1, <2>3, <3>1, <3>2
    <2> QED BY <2>2, <2>3
  <1>5. ASSUME NEW i \in Slots
        PROVE  slots'[i].len # NoFrame => slots'[i].data = slots'[i].len
    BY <1>1, <1>2 DEF IInv, RingInv
  <1> QED BY <1>2, <1>4, <1>5 DEF RingInv, After

LEMMA ClearRing == ASSUME IInv, RingClear PROVE RingInv'
  <1>1. /\ pos \in Slots /\ RingSize \in Nat \ {0} /\ Filled \in 0..RingSize
        /\ slots \in [Slots -> [data : Lengths, len : Lengths]]
    BY RingAssumption, FilledEnd DEF IInv, TypeOK
  <1>2. pos' = NextSlot(pos) /\ slots' = [slots EXCEPT ![pos].len = NoFrame]
    BY DEF RingClear
  <1>3. Filled > 0 /\ Filled' = Filled - 1
    BY ClearFilled
  <1>4. ASSUME NEW k \in 0..RingSize - 1
        PROVE  slots'[After(pos', k)].len # NoFrame <=> k < Filled'
    <2>1. CASE k + 1 < RingSize
      <3>1. /\ After(pos', k) = After(pos, k + 1)
            /\ k + 1 \in 0..RingSize - 1 /\ 0 \in 0..RingSize - 1
        BY <1>1, <1>2, <2>1, AfterNext
      <3>2. After(pos, k + 1) # pos /\ After(pos, k + 1) \in Slots
        BY <1>1, <3>1, AfterZero, AfterInjective, AfterType
      <3>3. slots[After(pos, k + 1)].len # NoFrame <=> k + 1 < Filled
        BY <3>1 DEF IInv, RingInv
      <3> QED BY <1>1, <1>2, <1>3, <3>1, <3>2, <3>3
    <2>2. CASE ~(k + 1 < RingSize)
      <3>1. After(pos', k) = pos
        BY <1>1, <1>2, <2>2, AfterNext
      <3> QED BY <1>1, <1>2, <1>3, <2>2, <3>1
    <2> QED BY <2>1, <2>2
  <1>5. ASSUME NEW i \in Slots
        PROVE  slots'[i].len # NoFrame => slots'[i].data = slots'[i].len
    BY <1>1, <1>2 DEF IInv, RingInv
  <1> QED BY <1>4, <1>5 DEF RingInv, After

\* The inductive invariant holds.
THEOREM Invariant == Spec => []IInv
  <1>1. ASSUME IInv, [Next]_vars PROVE IInv'
    <2>1. RingInv'
      BY <1>1, RingSteps, RingStays, PublishRing, ClearRing
    <2> QED BY <1>1, <2>1, TypeStep, PhaseStep DEF IInv
  <1> QED BY <1>1, InitInv, PTL DEF Spec

-----------------------------------------------------------------------------
(* The ring as a queue.                                                    *)

LEMMA TakenBound == ASSUME IInv PROVE Taken \in {0, 1} /\ Taken <= Filled
  <1>1. pos \in Slots /\ Filled \in 0..RingSize
    BY FilledEnd DEF IInv, TypeOK
  <1>2. CASE ctl.pc = "clear"
    <2>1. slots[After(pos, 0)].len # NoFrame /\ 0 \in 0..RingSize - 1
      BY <1>1, <1>2, AfterZero, RingAssumption DEF IInv, PhaseInv
    <2> QED BY <1>1, <1>2, <2>1 DEF Taken, IInv, RingInv
  <1>3. CASE ctl.pc # "clear"
    BY <1>1, <1>3 DEF Taken
  <1> QED BY <1>2, <1>3

RingQueue ==
    /\ RingFrames \in Seq(Frames)
    /\ Len(RingFrames) = Filled - Taken
    /\ \A i \in 1..Filled - Taken :
          RingFrames[i] = slots[After(pos, i - 1 + Taken)].data

LEMMA RingFramesSeq == IInv => RingQueue
  <1> SUFFICES ASSUME IInv PROVE RingQueue
    OBVIOUS
  <1>1. /\ pos \in Slots /\ Filled \in 0..RingSize /\ Taken \in {0, 1}
        /\ Filled - Taken \in Nat /\ RingSize \in Nat
        /\ slots \in [Slots -> [data : Lengths, len : Lengths]]
    BY FilledEnd, TakenBound, RingAssumption DEF IInv, TypeOK
  <1>2. ASSUME NEW i \in 1..Filled - Taken
        PROVE  slots[After(pos, i - 1 + Taken)].data \in Frames
    <2>1. /\ i - 1 + Taken \in 0..RingSize - 1
          /\ i - 1 + Taken < Filled
      BY <1>1
    <2>2. After(pos, i - 1 + Taken) \in Slots
      BY <1>1, <2>1, AfterType
    <2>3. slots[After(pos, i - 1 + Taken)].len # NoFrame
      BY <2>1 DEF IInv, RingInv
    <2> QED BY <1>1, <2>2, <2>3 DEF IInv, RingInv, Lengths
  <1>3. RingFrames \in [1..Filled - Taken -> Frames]
    BY <1>2 DEF RingFrames
  <1> QED BY <1>1, <1>3, FunctionIsSeq DEF RingFrames, RingQueue

\* While the elements and the phase stay, so does the queue.
LEMMA RingFramesStay ==
  ASSUME IInv, IInv', RingAlone, Taken' = Taken
  PROVE  RingFrames' = RingFrames
  <1>1. /\ pos \in Slots /\ Filled \in 0..RingSize /\ Taken \in {0, 1}
        /\ RingSize \in Nat /\ Filled' = Filled /\ pos' = pos
    BY FilledEnd, TakenBound, RingStays, RingAssumption
       DEF IInv, TypeOK, RingAlone
  <1>2. ASSUME NEW i \in 1..Filled - Taken
        PROVE  slots'[After(pos, i - 1 + Taken)].data
                 = slots[After(pos, i - 1 + Taken)].data
    <2>1. /\ i - 1 + Taken \in 0..RingSize - 1
          /\ i - 1 + Taken < Filled
      BY <1>1
    <2>2. After(pos, i - 1 + Taken) \in Slots
      BY <1>1, <2>1, AfterType
    <2>3. slots[After(pos, i - 1 + Taken)].len # NoFrame
      BY <2>1 DEF IInv, RingInv
    <2> QED BY <2>2, <2>3 DEF RingAlone
  <1> QED BY <1>1, <1>2 DEF RingFrames, After

\* Publishing appends.
LEMMA PublishAppends ==
  ASSUME IInv, IInv', NicPublish
  PROVE  RingFrames' = Append(RingFrames, drv.frame)
  <1>1. /\ pos \in Slots /\ drv.pos \in Slots /\ drv.frame \in Frames
        /\ slots \in [Slots -> [data : Lengths, len : Lengths]]
        /\ slots[drv.pos].data = drv.frame /\ RingSize \in Nat
    BY RingAssumption DEF IInv, TypeOK, DrvRecord, PhaseInv, NicPublish
  <1>2. /\ pos' = pos /\ slots' = [slots EXCEPT ![drv.pos].len = drv.frame]
        /\ Taken' = Taken /\ Taken \in {0, 1} /\ Taken <= Filled
    BY TakenBound DEF NicPublish, Taken
  <1>3. /\ Filled \in 0..RingSize - 1 /\ Filled' = Filled + 1
        /\ After(pos, Filled) = drv.pos
    BY PublishFilled, FilledEnd, RingAssumption DEF IInv
  <1>4. /\ RingFrames \in Seq(Frames) /\ Len(RingFrames) = Filled - Taken
        /\ \A i \in 1..Filled - Taken :
               RingFrames[i] = slots[After(pos, i - 1 + Taken)].data
    BY RingFramesSeq DEF RingQueue
  <1>5. RingQueue'
    BY RingFramesSeq, PTL
  <1>6. ASSUME NEW k \in 0..RingSize - 1
        PROVE  slots'[After(pos, k)].data = slots[After(pos, k)].data
    BY <1>1, <1>2, AfterType
  <1>7. \A i \in 1..Len(RingFrames) : RingFrames'[i] = RingFrames[i]
    <2> TAKE i \in 1..Len(RingFrames)
    <2>1. /\ i \in 1..Filled - Taken /\ i \in 1..Filled' - Taken'
          /\ i - 1 + Taken \in 0..RingSize - 1
      BY <1>1, <1>2, <1>3, <1>4
    <2>2. RingFrames'[i] = slots'[After(pos, i - 1 + Taken)].data
      BY <1>2, <1>5, <2>1 DEF RingQueue, After
    <2> QED BY <1>4, <1>6, <2>1, <2>2
  <1>8. RingFrames'[Len(RingFrames) + 1] = drv.frame
    <2>1. PICK i \in 1..Filled' - Taken' :
             i = Len(RingFrames) + 1 /\ i - 1 + Taken = Filled
      BY <1>1, <1>2, <1>3, <1>4
    <2>2. RingFrames'[i] = slots'[After(pos, i - 1 + Taken)].data
      BY <1>2, <1>5 DEF RingQueue, After
    <2>3. RingFrames'[i] = slots'[After(pos, Filled)].data
      BY <2>1, <2>2
    <2> QED BY <1>1, <1>3, <1>6, <2>1, <2>3
  <1>9. Len(RingFrames') = Len(RingFrames) + 1
    BY <1>1, <1>2, <1>3, <1>4, <1>5 DEF RingQueue
  <1> QED BY <1>1, <1>4, <1>5, <1>7, <1>8, <1>9, AppendIs DEF RingQueue

\* Handing the first element over takes the head off.
LEMMA TakeRemovesHead ==
  ASSUME IInv, IInv', RingTake
  PROVE  /\ RingFrames # <<>>
         /\ slots[pos].data = Head(RingFrames)
         /\ slots[pos].len = Head(RingFrames)
         /\ RingFrames' = Tail(RingFrames)
  <1>1. /\ pos \in Slots /\ RingSize \in Nat \ {0} /\ Filled \in 0..RingSize
        /\ slots[pos].len # NoFrame /\ Taken = 0
    BY FilledEnd, RingAssumption DEF IInv, TypeOK, PhaseInv, RingTake, Taken
  <1>2. RingAlone /\ Taken' = 1
    <2>1. slots' = slots /\ pos' = pos /\ drv' = drv
      BY DEF RingTake, drvVars
    <2>2. ctl'.pc = "clear"
      BY DEF RingTake, IInv, TypeOK, CtlRecord
    <2> QED BY <2>1, <2>2 DEF RingAlone, Taken
  <1>3. Filled' = Filled /\ pos' = pos /\ slots' = slots
    BY <1>2, RingStays DEF RingAlone, RingTake
  <1>4. Filled > 0 /\ slots[pos].data = slots[pos].len
    <2>1. 0 \in 0..RingSize - 1 /\ After(pos, 0) = pos
      BY <1>1, AfterZero
    <2> QED BY <1>1, <2>1 DEF IInv, RingInv
  <1>5. RingQueue /\ RingQueue'
    BY RingFramesSeq, PTL
  <1>6. RingFrames # <<>> /\ RingFrames[1] = slots[pos].data
    <2>1. PICK i \in 1..Filled - Taken : i = 1 /\ i - 1 + Taken = 0
      BY <1>1, <1>4
    <2>2. RingFrames[i] = slots[After(pos, i - 1 + Taken)].data
      BY <1>5 DEF RingQueue
    <2>3. Len(RingFrames) > 0 /\ RingFrames \in Seq(Frames)
      BY <1>1, <1>4, <1>5 DEF RingQueue
    <2> QED BY <1>1, <2>1, <2>2, <2>3, AfterZero
  <1>7. Len(RingFrames') = Len(RingFrames) - 1
    BY <1>1, <1>2, <1>3, <1>5 DEF RingQueue
  <1>8. ASSUME NEW i \in 1..Len(RingFrames')
        PROVE  RingFrames'[i] = RingFrames[i + 1]
    <2>1. /\ i \in 1..Filled' - Taken'
          /\ i + 1 \in 1..Filled - Taken
          /\ i + 1 - 1 + Taken = i - 1 + Taken'
      BY <1>1, <1>2, <1>3, <1>5 DEF RingQueue
    <2>2. RingFrames'[i] = slots'[After(pos', i - 1 + Taken')].data
      BY <1>5, <2>1 DEF RingQueue, After
    <2>3. RingFrames[i + 1] = slots[After(pos, i + 1 - 1 + Taken)].data
      BY <1>5, <2>1 DEF RingQueue
    <2> QED BY <1>3, <2>1, <2>2, <2>3
  <1>9. RingFrames' = Tail(RingFrames)
    BY <1>5, <1>6, <1>7, <1>8, TailIs DEF RingQueue
  <1> QED BY <1>4, <1>5, <1>6, <1>9 DEF RingQueue

\* Giving the element back changes nothing any more.
LEMMA ClearKeepsQueue ==
  ASSUME IInv, IInv', RingClear
  PROVE  RingFrames' = RingFrames
  <1>1. /\ pos \in Slots /\ RingSize \in Nat \ {0} /\ Filled \in 0..RingSize
        /\ slots \in [Slots -> [data : Lengths, len : Lengths]] /\ Taken = 1
    BY FilledEnd, RingAssumption DEF IInv, TypeOK, RingClear, Taken
  <1>2. /\ pos' = NextSlot(pos) /\ Taken' = 0
        /\ slots' = [slots EXCEPT ![pos].len = NoFrame]
    BY DEF RingClear, IInv, TypeOK, CtlRecord, Taken
  <1>3. Filled > 0 /\ Filled' = Filled - 1
    BY ClearFilled
  <1>4. RingQueue /\ RingQueue'
    BY RingFramesSeq, PTL
  <1>5. Len(RingFrames') = Len(RingFrames)
    BY <1>1, <1>2, <1>3, <1>4 DEF RingQueue
  <1>6. ASSUME NEW i \in 1..Len(RingFrames')
        PROVE  RingFrames'[i] = RingFrames[i]
    <2>1. /\ i \in 1..Filled' - Taken' /\ i \in 1..Filled - Taken
          /\ i - 1 \in 0..RingSize - 1 /\ i < RingSize
          /\ i - 1 + Taken' = i - 1 /\ i - 1 + Taken = i
          /\ i - 1 + 1 = i /\ i \in 0..RingSize - 1
      BY <1>1, <1>2, <1>3, <1>4 DEF RingQueue
    <2>2. RingFrames'[i] = slots'[After(pos', i - 1 + Taken')].data
      BY <1>4, <2>1 DEF RingQueue, After
    <2>3. RingFrames[i] = slots[After(pos, i - 1 + Taken)].data
      BY <1>4, <2>1 DEF RingQueue
    <2>4. After(pos', i - 1) = After(pos, i)
      BY <1>1, <1>2, <2>1, AfterNext
    <2>5. After(pos, i) \in Slots
      BY <1>1, <2>1, AfterType
    <2> QED BY <1>1, <1>2, <2>1, <2>2, <2>3, <2>4, <2>5
  <1> QED BY <1>4, <1>5, <1>6, SeqEqual DEF RingQueue

\* What a step with a legacy driver does to the queue.
LEMMA LegacyStep ==
  ASSUME IInv, IInv', [Next]_vars, legacyDriver
  PROVE  \/ RingFrames' = RingFrames /\ handed' = handed
         \/ NicPublish
         \/ RingTake
  <1>0. ctl \in CtlRecord /\ ctl.pc # "recv" /\ Waiting.pc = "wait"
    BY WaitingFields DEF IInv, TypeOK, PhaseInv
  <1>1. ASSUME RingAlone, Taken' = Taken, handed' = handed
        PROVE  RingFrames' = RingFrames /\ handed' = handed
    BY <1>1, RingFramesStay
  <1>2. CASE RingClear
    BY <1>2, ClearKeepsQueue DEF RingClear
  <1>3. ASSUME UNCHANGED <<slots, pos, drv, handed>>,
               ctl'.pc # "clear", ctl.pc # "clear"
        PROVE  RingFrames' = RingFrames /\ handed' = handed
    BY <1>1, <1>3 DEF RingAlone, Taken
  <1>4. ASSUME NEW f \in Frames, NicReceive(f) \/ NicFill(f)
        PROVE  RingFrames' = RingFrames /\ handed' = handed
    <2>1. handed' = handed /\ Taken' = Taken
      BY <1>4 DEF NicReceive, NicFill, Taken
    <2>2. ~NicPublish /\ ctl' = ctl
      BY <1>4 DEF NicReceive, NicFill, NicPublish
    <2>3. ~RingClear
      BY <1>0, <2>2 DEF RingClear, CtlRecord
    <2>4. RingAlone
      BY <2>2, <2>3, RingSteps
    <2> QED BY <1>1, <2>1, <2>4
  <1>5. CASE NicEmit
    <2>1. handed' = handed /\ Taken' = Taken
      BY <1>5 DEF NicEmit, Taken
    <2>2. RingAlone
      BY <1>5 DEF NicEmit, RingAlone, IInv, TypeOK, DrvRecord
    <2> QED BY <1>1, <2>1, <2>2
  <1>6. CASE TickOrData
    BY <1>1, <1>6 DEF TickOrData, drvVars, RingAlone, Taken
  <1>7. ASSUME NEW score \in 1..MaxScore, Poll(score)
        PROVE  RingFrames' = RingFrames /\ handed' = handed
    <2>1. UNCHANGED <<slots, pos, drv, handed>> /\ ctl.pc # "clear"
      BY <1>7 DEF Poll, drvVars
    <2>2. ctl'.pc \in {"ring", "read"}
      BY <1>7, WaitingFields DEF Poll, CtlRecord
    <2> QED BY <1>3, <2>1, <2>2
  <1>8. CASE ReadDetectsLegacy \/ RingCheck
    <2>1. UNCHANGED <<slots, pos, drv, handed>> /\ ctl.pc # "clear"
      BY <1>8 DEF ReadDetectsLegacy, RingCheck, Reading, drvVars
    <2>2. ctl'.pc \in {"ring", "take"}
      BY <1>0, <1>8 DEF ReadDetectsLegacy, RingCheck, CtlRecord
    <2> QED BY <1>3, <2>1, <2>2
  <1>9. CASE ReadDone \/ RingDone
    <2>1. UNCHANGED <<slots, pos, drv, handed>> /\ ctl.pc # "clear"
      BY <1>9 DEF ReadDone, RingDone, drvVars
    <2>2. ctl'.pc = "wait"
      BY <1>0, <1>9 DEF ReadDone, RingDone
    <2> QED BY <1>3, <2>1, <2>2
  <1>10. CASE ReadNothing \/ ReadFrame \/ ReadFatal \/ ReadFails \/ Recv
    BY <1>0, <1>10 DEF ReadNothing, ReadFrame, ReadFatal, ReadFails, Recv
  <1>11. CASE UNCHANGED vars
    BY <1>1, <1>11 DEF vars, RingAlone, Taken
  <1> QED BY <1>2, <1>4, <1>5, <1>6, <1>7, <1>8, <1>9, <1>10, <1>11
          DEF Next, DriverStep, PollStep

-----------------------------------------------------------------------------
(* The event driver as a queue.                                            *)

EventMatch(f) == EventFrames' = Append(EventFrames, f) /\ handed' = handed

LEMMA EventStep ==
  ASSUME IInv, IInv', [Next]_vars, ~legacyDriver
  PROVE  \/ EventFrames' = EventFrames /\ handed' = handed
         \/ \E f \in Frames : EventMatch(f)
         \/ /\ EventFrames # <<>>
            /\ HandOver(Head(EventFrames), Head(EventFrames))
            /\ EventFrames' = Tail(EventFrames)
         \/ /\ mayFail
            /\ \E data, len \in Lengths : HandOver(data, len)
            /\ EventFrames' = EventFrames
  <1>0. /\ ctl \in CtlRecord /\ nicQueue \in Seq(Frames) /\ 0 \in Slots
        /\ slots \in [Slots -> [data : Lengths, len : Lengths]]
        /\ drv.pc # "publish" /\ ctl.pc \notin {"ring", "take", "clear"}
        /\ ctl.pc = "recv" /\ ctl.ok =>
              slots[0].data \in Frames /\ ctl.len = slots[0].data
        /\ Waiting.pc = "wait"
    BY WaitingFields, RingAssumption DEF IInv, TypeOK, PhaseInv, Slots
  <1>1. ASSUME nicQueue' = nicQueue, handed' = handed,
               ctl.pc # "recv", ctl'.pc # "recv"
        PROVE  EventFrames' = EventFrames /\ handed' = handed
    BY <1>1 DEF EventFrames
  <1>2. ASSUME NEW f \in Frames, NicReceive(f) PROVE EventMatch(f)
    <2>1. /\ nicQueue' = Append(nicQueue, f) /\ ctl' = ctl
          /\ slots' = slots /\ handed' = handed
      BY <1>2 DEF NicReceive
    <2> QED BY <1>0, <2>1, FrontAppend DEF EventFrames, EventMatch
  <1>3. ASSUME NEW f \in Frames, NicFill(f) PROVE FALSE
    BY <1>3 DEF NicFill
  <1>4. CASE NicEmit \/ TickOrData
    BY <1>4 DEF NicEmit, TickOrData, drvVars, EventFrames
  <1>5. ASSUME NEW score \in 1..MaxScore, Poll(score)
        PROVE  EventFrames' = EventFrames /\ handed' = handed
    <2>1. UNCHANGED <<nicQueue, handed>> /\ ctl.pc # "recv"
      BY <1>5 DEF Poll, drvVars
    <2>2. ctl'.pc \in {"ring", "read"}
      BY <1>5, WaitingFields DEF Poll, CtlRecord
    <2> QED BY <1>1, <2>1, <2>2
  <1>6. CASE ReadNothing \/ ReadFatal \/ ReadDone
    <2>1. UNCHANGED <<nicQueue, handed>> /\ ctl.pc # "recv"
      BY <1>6 DEF ReadNothing, ReadFatal, ReadDone, Reading, drvVars
    <2>2. ctl'.pc \in {"wait", "exited"}
      BY <1>0, <1>6, WaitingFields
         DEF ReadNothing, ReadFatal, ReadDone, CtlRecord
    <2> QED BY <1>1, <2>1, <2>2
  <1>7. CASE ReadFrame
    <2>1. /\ nicQueue # <<>> /\ nicQueue' = Tail(nicQueue)
          /\ handed' = handed /\ ctl.pc = "read"
          /\ slots'[0].data = Head(nicQueue)
      BY <1>0, <1>7 DEF ReadFrame, Reading
    <2>2. ctl'.pc = "recv" /\ ctl'.ok = TRUE
      BY <1>0, <1>7 DEF ReadFrame, CtlRecord
    <2> QED BY <1>0, <2>1, <2>2, HeadInFront DEF EventFrames
  <1>8. CASE ReadFails
    <2>1. /\ nicQueue' = nicQueue /\ handed' = handed /\ ctl.pc = "read"
      BY <1>8 DEF ReadFails, Reading, drvVars
    <2>2. ctl'.ok = FALSE
      BY <1>0, <1>8 DEF ReadFails, CtlRecord
    <2> QED BY <2>1, <2>2 DEF EventFrames
  <1>9. CASE Recv
    <2>1. /\ nicQueue' = nicQueue /\ slots' = slots /\ ctl.pc = "recv"
          /\ HandOver(slots[0].data, ctl.len)
      BY <1>9 DEF Recv, drvVars
    <2>2. ctl'.pc = "read"
      BY <1>0, <1>9 DEF Recv, CtlRecord
    <2>3. EventFrames' = nicQueue
      BY <2>1, <2>2 DEF EventFrames
    <2>4. CASE ctl.ok
      BY <1>0, <2>1, <2>3, <2>4, InFront DEF EventFrames
    <2>5. CASE ~ctl.ok
      <3>1. EventFrames = nicQueue
        BY <2>5 DEF EventFrames
      <3>2. slots[0].data \in Lengths /\ ctl.len \in Lengths
        BY <1>0 DEF CtlRecord
      <3>3. mayFail
        BY <2>1, <2>5 DEF IInv, PhaseInv
      <3> QED BY <2>1, <2>3, <3>1, <3>2, <3>3
    <2> QED BY <2>4, <2>5
  <1>10. CASE \/ NicPublish \/ ReadDetectsLegacy
              \/ RingCheck \/ RingTake \/ RingClear \/ RingDone
    BY <1>0, <1>10
    DEF NicPublish, ReadDetectsLegacy, RingCheck, RingTake, RingClear, RingDone
  <1>11. CASE UNCHANGED vars
    BY <1>11 DEF vars, EventFrames
  <1> QED BY <1>2, <1>3, <1>4, <1>5, <1>6, <1>7, <1>8, <1>9, <1>10, <1>11
          DEF Next, DriverStep, PollStep

-----------------------------------------------------------------------------
(* The theorems.                                                           *)

\* Every variable keeps its type; in particular neither thread's position
\* ever leaves the ring buffer.
THEOREM TypeCorrect == Spec => []TypeOK
  <1>1. IInv => TypeOK
    BY DEF IInv
  <1> QED BY <1>1, Invariant, PTL

LEMMA FifoInit == Init => Fifo!Init
  <1> SUFFICES ASSUME Init PROVE Fifo!Init
    OBVIOUS
  <1>1. RingQueue /\ Filled = 0 /\ Taken = 0
    BY InitInv, RingFramesSeq, WaitingFields, RingAssumption
    DEF Init, Filled, Taken, Slots
  <1>2. RingFrames = <<>>
    BY <1>1 DEF RingQueue
  <1>3. EventFrames = <<>>
    BY WaitingFields DEF Init, EventFrames
  <1> QED BY <1>2, <1>3 DEF Init, Fifo!Init, Fifo!Nothing, WaitingFrames

\* A step of the adapter or of the driver is a step of the queue, or none.
LEMMA FifoStep ==
  ASSUME IInv, IInv', [Next]_vars
  PROVE  [Fifo!Next]_Fifo!vars
  <1>0. legacyDriver' = legacyDriver /\ mayFail' = mayFail
    BY DEF Next, DriverStep, PollStep, NicReceive, NicFill, NicPublish,
           NicEmit, TickOrData, Poll, ReadDetectsLegacy, ReadNothing,
           ReadFrame, ReadFatal, ReadFails, Recv, ReadDone, RingCheck,
           RingTake, RingClear, RingDone, vars
  <1>1. CASE legacyDriver
    <2>0. WaitingFrames = RingFrames /\ WaitingFrames' = RingFrames'
      BY <1>0, <1>1 DEF WaitingFrames
    <2>1. CASE RingFrames' = RingFrames /\ handed' = handed
      BY <1>0, <2>0, <2>1 DEF Fifo!vars
    <2>2. CASE NicPublish
      <3>1. drv.frame \in Frames /\ handed' = handed
        BY <2>2 DEF IInv, PhaseInv, NicPublish
      <3>2. Fifo!Arrive(drv.frame)
        BY <2>0, <2>2, <3>1, PublishAppends DEF Fifo!Arrive
      <3> QED BY <1>0, <3>1, <3>2 DEF Fifo!Next
    <2>3. CASE RingTake
      <3>1. HandOver(slots[pos].data, slots[pos].len)
        BY <2>3 DEF RingTake
      <3>2. Fifo!Deliver
        BY <2>0, <2>3, <3>1, TakeRemovesHead
        DEF Fifo!Deliver, Fifo!HandOver, HandOver
      <3> QED BY <1>0, <3>2 DEF Fifo!Next
    <2> QED BY <1>1, <2>1, <2>2, <2>3, LegacyStep
  <1>2. CASE ~legacyDriver
    <2>0. WaitingFrames = EventFrames /\ WaitingFrames' = EventFrames'
      BY <1>0, <1>2 DEF WaitingFrames
    <2>1. CASE EventFrames' = EventFrames /\ handed' = handed
      BY <1>0, <2>0, <2>1 DEF Fifo!vars
    <2>2. ASSUME NEW f \in Frames, EventMatch(f) PROVE Fifo!Next
      BY <1>0, <2>0, <2>2 DEF EventMatch, Fifo!Next, Fifo!Arrive
    <2>3. CASE /\ EventFrames # <<>>
               /\ HandOver(Head(EventFrames), Head(EventFrames))
               /\ EventFrames' = Tail(EventFrames)
      BY <1>0, <2>0, <2>3 DEF Fifo!Next, Fifo!Deliver, Fifo!HandOver, HandOver
    <2>4. CASE /\ mayFail
               /\ \E data, len \in Lengths : HandOver(data, len)
               /\ EventFrames' = EventFrames
      BY <1>0, <2>0, <2>4
      DEF Fifo!Next, Fifo!DeliverJunk, Fifo!HandOver, HandOver, Lengths
    <2> QED BY <1>2, <2>1, <2>2, <2>3, <2>4, EventStep
  <1> QED BY <1>1, <1>2

\* The adapter implements the queue of frames, with either kind of driver,
\* for every size of the ring and every loop score.
THEOREM ImplementsFifo == Spec => FifoSpec
  <1>1. Init => Fifo!Init
    BY FifoInit
  <1>2. IInv /\ IInv' /\ [Next]_vars => [Fifo!Next]_Fifo!vars
    BY FifoStep
  <1> QED BY <1>1, <1>2, Invariant, PTL DEF Spec, FifoSpec, Fifo!Spec

\* Unless its reads fail unexpectedly, an event driver's frames never wait
\* without a wake-up on its way.
THEOREM NoFrameStranded == Spec => []NoStrandedFrames
  <1>1. Init => WakeInv
    BY DEF Init, WakeInv
  <1>2. ASSUME IInv, WakeInv, [Next]_vars PROVE WakeInv'
    <2>0. /\ ctl \in CtlRecord /\ drv \in DrvRecord
          /\ drv.pc # "publish"  \/ legacyDriver
          /\ ctl.pc \in {"ring", "take", "clear"} => legacyDriver
          /\ Waiting \in CtlRecord
      BY <1>2, WaitingFields DEF IInv, TypeOK, PhaseInv
    <2>1. ASSUME NEW f \in Frames, NicReceive(f) \/ NicFill(f) PROVE WakeInv'
      BY <2>0, <2>1 DEF NicReceive, NicFill, WakeInv, DrvRecord
    <2>2. CASE NicPublish \/ ReadDetectsLegacy
      BY <2>0, <2>2 DEF NicPublish, ReadDetectsLegacy, WakeInv
    <2>3. CASE NicEmit \/ TickOrData
      BY <2>3 DEF NicEmit, TickOrData, WakeInv
    <2>4. ASSUME NEW score \in 1..MaxScore, Poll(score) PROVE WakeInv'
      <3>1. isLegacyInterface => legacyDriver
        BY <1>2 DEF IInv, PhaseInv
      <3>2. PICK pc \in {"ring", "read"} :
               /\ pc = "ring" => legacyDriver
               /\ ctl' = [Waiting EXCEPT !.pc = pc, !.score = score,
                                         !.more = TRUE]
        BY <2>4, <3>1 DEF Poll
      <3>3. ctl'.pc = pc /\ ctl'.more
        BY <2>0, <3>2 DEF CtlRecord
      <3> QED BY <2>4, <3>2, <3>3 DEF Poll, WakeInv
    <2>5. CASE ReadNothing
      BY <2>5 DEF ReadNothing, WakeInv, drvVars
    <2>6. CASE ReadFrame
      <3>1. /\ nicQueue' = Tail(nicQueue) /\ drv' = drv
            /\ loopEvent' = loopEvent
            /\ ctl'.pc = "recv" /\ ctl'.more = (Tail(nicQueue) # <<>>)
        BY <2>0, <2>6 DEF ReadFrame, CtlRecord
      <3> QED BY <3>1 DEF WakeInv
    <2>7. CASE ReadFatal \/ ReadFails
      <3>1. mayFail /\ mayFail' = mayFail
        BY <2>7 DEF ReadFatal, ReadFails
      <3> QED BY <3>1 DEF WakeInv
    <2>8. CASE Recv
      <3>1. ctl'.pc = "read" /\ ctl'.more = ctl.more /\ ctl.pc = "recv"
        BY <2>0, <2>8 DEF Recv, CtlRecord
      <3> QED BY <1>2, <2>8, <3>1 DEF Recv, WakeInv, drvVars
    <2>9. CASE ReadDone
      <3>1. ctl.more => loopEvent'
        BY <2>0, <2>9 DEF ReadDone, Reading, CtlRecord
      <3>2. /\ nicQueue' = nicQueue /\ drv' = drv /\ (loopEvent => loopEvent')
            /\ ctl.pc = "read" /\ UNCHANGED kindVars
        BY <2>9 DEF ReadDone, drvVars
      <3> QED BY <1>2, <3>1, <3>2 DEF WakeInv
    <2>10. CASE RingCheck \/ RingTake \/ RingClear \/ RingDone
      BY <2>0, <2>10
      DEF RingCheck, RingTake, RingClear, RingDone, WakeInv
    <2>11. CASE UNCHANGED vars
      BY <1>2, <2>11 DEF vars, WakeInv
    <2> QED BY <1>2, <2>1, <2>2, <2>3, <2>4, <2>5, <2>6, <2>7, <2>8, <2>9,
               <2>10, <2>11 DEF Next, DriverStep, PollStep
  <1>3. IInv /\ WakeInv => NoStrandedFrames
    BY DEF WakeInv, NoStrandedFrames
  <1> QED BY <1>1, <1>2, <1>3, Invariant, PTL DEF Spec

=============================================================================
