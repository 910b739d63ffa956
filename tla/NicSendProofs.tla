--------------------------- MODULE NicSendProofs ---------------------------
(***************************************************************************)
(* Proofs about the sending side of the NIC adapter, for every set of      *)
(* frames and every length of picoTCP's queue.                             *)
(***************************************************************************)
EXTENDS NicSend, TLAPS, SequenceTheorems

\* While the driver is called, the dataport holds the frame at the head.
PortInv == sending = "write" => outQueue # <<>> /\ port = Head(outQueue)

IInv == TypeOK /\ PortInv

LEMMA InitInv == Init => IInv
  BY EmptySeq DEF Init, IInv, TypeOK, PortInv

\* What the steps do to the queue keeps it a queue of frames.
LEMMA QueueTypes ==
  ASSUME TypeOK
  PROVE  /\ \A f \in Frames : Append(outQueue, f) \in Seq(Frames)
         /\ outQueue # <<>> => /\ Head(outQueue) \in Frames
                               /\ Tail(outQueue) \in Seq(Frames)
  BY AppendProperties, HeadTailProperties DEF TypeOK

LEMMA StepInv ==
  ASSUME IInv, [Next]_vars
  PROVE  IInv'
  <1>0. TypeOK /\ PortInv
    BY DEF IInv
  <1>1. ASSUME NEW f \in Frames, Enqueue(f) PROVE IInv'
    <2>1. /\ outQueue' = Append(outQueue, f) /\ outQueue' \in Seq(Frames)
          /\ outQueue' # <<>>
          /\ outQueue # <<>> => Head(outQueue') = Head(outQueue)
      BY <1>0, <1>1, AppendProperties, HeadTailAppend DEF Enqueue, TypeOK
    <2> QED BY <1>0, <1>1, <2>1 DEF Enqueue, kindVars, IInv, TypeOK, PortInv
  <1>2. CASE SendTooLong
    BY <1>0, <1>2, QueueTypes
    DEF SendTooLong, KeepOrDrop, kindVars, IInv, TypeOK, PortInv
  <1>3. CASE SendCopy
    BY <1>0, <1>3, QueueTypes DEF SendCopy, kindVars, IInv, TypeOK, PortInv
  <1>4. CASE WriteAccepted
    <2>1. /\ outQueue' \in Seq(Frames) /\ Head(outQueue) \in Frames
          /\ wire' = [data |-> port, len |-> Head(outQueue),
                      odd |-> ~wire.odd]
      BY <1>0, <1>4, QueueTypes DEF WriteAccepted, PortInv
    <2> QED BY <1>0, <1>4, <2>1 DEF WriteAccepted, kindVars, IInv, TypeOK, PortInv
  <1>5. CASE WriteAgain
    BY <1>0, <1>5 DEF WriteAgain, kindVars, IInv, TypeOK, PortInv
  <1>6. CASE WriteFails
    BY <1>0, <1>6, QueueTypes
    DEF WriteFails, kindVars, KeepOrDrop, IInv, TypeOK, PortInv
  <1>7. CASE WriteHalts
    BY <1>0, <1>7 DEF WriteHalts, kindVars, IInv, TypeOK, PortInv
  <1>8. CASE WriteCut
    <2>1. /\ outQueue' \in Seq(Frames)
          /\ wire' \in [data : Frames \cup {NoFrame},
                        len : Frames \cup {NoFrame}, odd : BOOLEAN]
      BY <1>0, <1>8, QueueTypes DEF WriteCut, PortInv, TypeOK
    <2> QED BY <1>0, <1>8, <2>1 DEF WriteCut, IInv, TypeOK, PortInv, kindVars
  <1>9. CASE UNCHANGED vars
    BY <1>0, <1>9 DEF vars, kindVars, IInv, TypeOK, PortInv
  <1> QED BY <1>1, <1>2, <1>3, <1>4, <1>5, <1>6, <1>7, <1>8, <1>9
          DEF Next, SendStep

THEOREM Invariant == Spec => []IInv
  BY InitInv, StepInv, PTL DEF Spec

LEMMA FifoStep ==
  ASSUME IInv, [Next]_vars
  PROVE  [Fifo!Next]_Fifo!vars
  <1> DEFINE lossy == IF mayFail THEN Frames ELSE TooLong
  <1>0. UNCHANGED kindVars
    BY DEF Next, SendStep, Enqueue, SendTooLong, SendCopy, WriteAccepted,
           WriteAgain, WriteFails, WriteHalts, WriteCut, vars
  <1>1. ASSUME NEW f \in Frames, Enqueue(f) PROVE Fifo!Arrive(f)
    BY <1>1 DEF Enqueue, Fifo!Arrive
  <1>2. ASSUME KeepOrDrop, outQueue # <<>>, UNCHANGED wire,
               Head(outQueue) \in lossy
        PROVE  Fifo!GiveUp \/ UNCHANGED <<outQueue, wire>>
    BY <1>2 DEF KeepOrDrop, Fifo!GiveUp
  <1>3. CASE SendTooLong
    <2>1. Head(outQueue) \in Frames
      BY <1>3, QueueTypes DEF IInv, SendTooLong
    <2> QED BY <1>0, <1>2, <1>3, <2>1
            DEF SendTooLong, Fifo!Next, Fifo!vars, kindVars
  <1>4. CASE WriteFails
    <2>1. outQueue # <<>> /\ Head(outQueue) \in Frames
      BY <1>4, QueueTypes DEF IInv, PortInv, WriteFails
    <2> QED BY <1>0, <1>2, <1>4, <2>1
            DEF WriteFails, Fifo!Next, Fifo!vars, kindVars
  <1>5. CASE WriteAccepted
    BY <1>0, <1>5
    DEF WriteAccepted, IInv, PortInv, Fifo!Next, Fifo!Deliver, Fifo!HandOver,
        kindVars
  <1>6. CASE WriteCut
    <2>1. Fifo!DeliverCut
      BY <1>6 DEF WriteCut, IInv, PortInv, Fifo!DeliverCut, Fifo!HandOver
    <2> QED BY <1>0, <2>1 DEF Fifo!Next, kindVars
  <1>7. CASE SendCopy \/ WriteAgain \/ WriteHalts
    BY <1>0, <1>7 DEF SendCopy, WriteAgain, WriteHalts, Fifo!vars, kindVars
  <1>8. CASE UNCHANGED vars
    BY <1>0, <1>8 DEF vars, kindVars, Fifo!vars
  <1> QED BY <1>0, <1>1, <1>3, <1>4, <1>5, <1>6, <1>7, <1>8
          DEF Next, SendStep, Fifo!Next, kindVars

\* nic_send_frame() implements a queue that loses a frame only when it is too
\* long or a write may fail for good, and cuts one only in a release build
\* whose driver reports another length: never because of retries.
THEOREM ImplementsFifo == Spec => FifoSpec
  <1>1. Init => Fifo!Init
    BY FramesAssumption DEF Init, Fifo!Init, Fifo!Nothing
  <1>2. IInv /\ [Next]_vars => [Fifo!Next]_Fifo!vars
    BY FifoStep
  <1> QED BY <1>1, <1>2, Invariant, PTL DEF Spec, FifoSpec, Fifo!Spec
=============================================================================
