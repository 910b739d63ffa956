----------------------------- MODULE NicProps ------------------------------
(***************************************************************************)
(* What the NIC adapter should guarantee.                                  *)
(***************************************************************************)
EXTENDS NicPoll

\* The element of the ring that is k elements after i.
After(i, k) == IF i + k < RingSize THEN i + k ELSE i + k - RingSize

\* The number of elements from the adapter's position up to the driver's
\* that belong to the network stack.
Filled ==
    IF drv.pos = pos
    THEN IF slots[pos].len = NoFrame THEN 0 ELSE RingSize
    ELSE IF drv.pos > pos THEN drv.pos - pos ELSE drv.pos - pos + RingSize

\* The first of them was handed over before it is given back.
Taken == IF ctl.pc = "clear" THEN 1 ELSE 0

RingFrames ==
    [k \in 1..Filled - Taken |-> slots[After(pos, k - 1 + Taken)].data]

\* An event driver's frames: one may be on its way through the dataport.
EventFrames ==
    IF ctl.pc = "recv" /\ ctl.ok THEN <<slots[0].data>> \o nicQueue
                                 ELSE nicQueue

\* The frames that wait to be handed over to picoTCP.
WaitingFrames == IF legacyDriver THEN RingFrames ELSE EventFrames

Fifo == INSTANCE FrameFifo WITH
    queue <- WaitingFrames, junk <- mayFail, cut <- FALSE, lossy <- {}

\* With either driver the adapter implements a queue: whatever the order in
\* which the two threads touch the dataport, every frame is handed over
\* whole, in order, once, and none is lost.  Only nic_dev_read() failing
\* with an unexpected error adds something that is no frame.
FifoSpec == Fifo!Spec

\* With an event driver whose reads fail only in the documented ways,
\* frames that wait have a wake-up on its way: the
\* loop score may end the poll at any frame, and further frames may arrive
\* at any moment of it.
NoStrandedFrames ==
    ~legacyDriver /\ ~mayFail /\ ctl.pc = "wait" /\ nicQueue # <<>> =>
        loopEvent \/ drv.pc = "emit"

-----------------------------------------------------------------------------
(* Liveness.                                                               *)

\* The control thread and the driver are scheduled, the ticker emits once a
\* second, and nic_dev_read() does not fail forever.
FairSpec ==
    /\ Spec
    /\ WF_vars(PollStep)
    /\ SF_vars(ReadFrame)
    /\ WF_vars(NicPublish)
    /\ WF_vars(NicEmit)
    /\ WF_vars(TickOrData)

\* Frames that wait are handed over, with any loop score; a legacy driver's
\* frames that are left over rely on the ticker.
FramesHandedOver ==
    \A odd \in BOOLEAN :
        (WaitingFrames # <<>> /\ handed.odd = odd) ~>
            (handed.odd # odd \/ ctl.pc = "exited")
=============================================================================
