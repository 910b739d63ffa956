------------------------------ MODULE NicPoll ------------------------------
(***************************************************************************)
(* Receiving frames: nic_poll_data(), which picoTCP calls in every tick of *)
(* the control thread, against the NIC driver component, which runs        *)
(* concurrently and shares a dataport and a notification with it.          *)
(*                                                                         *)
(* There are two kinds of driver, told apart by the result of the first    *)
(* nic_dev_read():                                                         *)
(*  - an event driver keeps its frames to itself; nic_dev_read() copies    *)
(*    one into the dataport and says how many are left;                    *)
(*  - a legacy driver writes frames into a ring buffer in the dataport,    *)
(*    where len # 0 marks an element that belongs to the network stack.    *)
(*    Nothing else protects the ring.                                      *)
(*                                                                         *)
(* The driver is EXTERNAL; it is modelled as nic_poll_data() needs it.  A  *)
(* frame stands for its data and for its length, NoFrame for length 0.     *)
(***************************************************************************)
EXTENDS Integers, Sequences

CONSTANTS
    Frames,
    NoFrame,
    RingSize,    \* NIC_DRIVER_RINGBUFFER_NUMBER_ELEMENTS
    MaxScore,    \* bound: the largest loop score picoTCP hands out
    MaxQueue     \* bound: frames inside an event driver

ASSUME RingAssumption == RingSize \in Nat \ {0}
ASSUME ScoreAssumption == MaxScore \in Nat \ {0}
ASSUME FrameAssumption == NoFrame \notin Frames
ASSUME QueueAssumption == MaxQueue \in Nat

VARIABLES
    legacyDriver,       \* the kind of driver
    mayFail,            \* may its nic_dev_read() fail unexpectedly?
    nicQueue,           \* the frames an event driver keeps
    slots,              \* the dataport nic_from_port
    drv,                \* the driver's thread
    isLegacyInterface,  \* the adapter's static variables
    isDetectionDone,
    pos,
    loopEvent,          \* event_tick_or_data: a binary notification
    ctl,                \* the control thread inside nic_poll_data()
    handed              \* what pico_stack_recv() got last

kindVars == <<legacyDriver, mayFail>>
drvVars == <<nicQueue, drv>>
modeVars == <<isLegacyInterface, isDetectionDone>>
vars == <<kindVars, nicQueue, slots, drv, isLegacyInterface,
          isDetectionDone, pos, loopEvent, ctl, handed>>

Slots == 0..RingSize - 1
Lengths == Frames \cup {NoFrame}

DrvRecord ==
    [pc : {"idle", "publish", "emit"}, pos : Slots, frame : Lengths]

CtlRecord ==
    [pc    : {"wait", "read", "recv", "ring", "take", "clear", "exited"},
     score : 0..MaxScore,
     len   : Lengths,
     more  : BOOLEAN,
     ok    : BOOLEAN]

\* The type invariant.
TypeOK ==
    /\ legacyDriver \in BOOLEAN
    /\ mayFail \in BOOLEAN
    /\ nicQueue \in Seq(Frames)
    /\ slots \in [Slots -> [data : Lengths, len : Lengths]]
    /\ drv \in DrvRecord
    /\ isLegacyInterface \in BOOLEAN
    /\ isDetectionDone \in BOOLEAN
    /\ pos \in Slots
    /\ loopEvent \in BOOLEAN
    /\ ctl \in CtlRecord
    /\ handed \in [data : Lengths, len : Lengths, odd : BOOLEAN]

Waiting == [pc |-> "wait", score |-> 0, len |-> NoFrame, more |-> FALSE,
            ok |-> FALSE]

\* The dataport holds zeroes when the components start.
Init ==
    /\ legacyDriver \in BOOLEAN
    /\ mayFail \in BOOLEAN
    /\ legacyDriver => ~mayFail
    /\ nicQueue = <<>>
    /\ slots = [i \in Slots |-> [data |-> NoFrame, len |-> NoFrame]]
    /\ drv = [pc |-> "idle", pos |-> 0, frame |-> NoFrame]
    /\ isLegacyInterface = FALSE
    /\ isDetectionDone = FALSE
    /\ pos = 0
    /\ loopEvent = FALSE
    /\ ctl = Waiting
    /\ handed = [data |-> NoFrame, len |-> NoFrame, odd |-> FALSE]

\* Fault: the position is not wrapped around.
NextSlotNoWrap(i) == i + 1

\* (pos + 1) % ring_buffer_size
NextSlot(i) == IF i + 1 = RingSize THEN 0 ELSE i + 1

-----------------------------------------------------------------------------
(* The driver and the ticker.                                              *)

\* An event driver takes a frame from the wire.
NicReceive(f) ==
    /\ ~legacyDriver
    /\ drv.pc = "idle"
    /\ Len(nicQueue) < MaxQueue
    /\ nicQueue' = Append(nicQueue, f)
    /\ drv' = [drv EXCEPT !.pc = "emit"]
    /\ UNCHANGED <<kindVars, slots, modeVars, pos, loopEvent,
                   ctl, handed>>

\* A legacy driver takes a frame from the wire when its next element of the
\* ring is free: it writes the data ...
NicFill(f) ==
    /\ legacyDriver
    /\ drv.pc = "idle"
    /\ slots[drv.pos].len = NoFrame
    /\ slots' = [slots EXCEPT ![drv.pos].data = f]
    /\ drv' = [drv EXCEPT !.pc = "publish", !.frame = f]
    /\ UNCHANGED <<kindVars, nicQueue, modeVars, pos, loopEvent,
                   ctl, handed>>

\* ... and then the length, which gives the element away.
NicPublish ==
    /\ drv.pc = "publish"
    /\ slots' = [slots EXCEPT ![drv.pos].len = drv.frame]
    /\ drv' = [pc |-> "emit", pos |-> NextSlot(drv.pos), frame |-> NoFrame]
    /\ UNCHANGED <<kindVars, nicQueue, modeVars, pos, loopEvent,
                   ctl, handed>>

\* Either driver then signals the network stack.
NicEmit ==
    /\ drv.pc = "emit"
    /\ drv' = [drv EXCEPT !.pc = "idle"]
    /\ loopEvent' = TRUE
    /\ UNCHANGED <<kindVars, nicQueue, slots, modeVars, pos,
                   ctl, handed>>

\* The ticker, or a call of the RPC thread.
TickOrData ==
    /\ ~loopEvent
    /\ loopEvent' = TRUE
    /\ UNCHANGED <<kindVars, drvVars, slots, modeVars, pos, ctl, handed>>

-----------------------------------------------------------------------------
(* nic_poll_data().                                                        *)

\* The control thread wakes up, and picoTCP's tick polls the device.  A
\* second poll in the same tick looks like a tick of its own.
Poll(score) ==
    /\ ctl.pc = "wait"
    /\ loopEvent
    /\ loopEvent' = FALSE
    /\ ctl' = [Waiting EXCEPT !.pc = IF isLegacyInterface THEN "ring"
                                                          ELSE "read",
                              !.score = score, !.more = TRUE]
    /\ UNCHANGED <<kindVars, drvVars, slots, modeVars, pos, handed>>

\* The loop over nic_dev_read() goes on.
Reading == ctl.pc = "read" /\ ctl.score > 0 /\ ctl.more

\* OS_ERROR_NOT_IMPLEMENTED, the first time: there is a legacy driver.
ReadDetectsLegacy ==
    /\ Reading
    /\ legacyDriver
    /\ ~isDetectionDone
    /\ isLegacyInterface' = TRUE
    /\ isDetectionDone' = TRUE
    /\ ctl' = [ctl EXCEPT !.pc = "ring"]
    /\ UNCHANGED <<kindVars, drvVars, slots, pos, loopEvent, handed>>

\* OS_ERROR_NOT_INITIALIZED (it has no frames yet) or OS_ERROR_NO_DATA.
ReadNothing ==
    /\ Reading
    /\ ~legacyDriver
    /\ nicQueue = <<>>
    /\ ctl' = Waiting
    /\ UNCHANGED <<kindVars, drvVars, slots, modeVars, pos, loopEvent,
                   handed>>

\* OS_SUCCESS: one frame is in the dataport.
ReadFrame ==
    /\ Reading
    /\ ~legacyDriver
    /\ nicQueue # <<>>
    /\ slots' = [slots EXCEPT ![0].data = Head(nicQueue)]
    /\ nicQueue' = Tail(nicQueue)
    /\ ctl' = [ctl EXCEPT !.pc = "recv", !.len = Head(nicQueue),
                          !.more = Tail(nicQueue) # <<>>, !.ok = TRUE]
    /\ UNCHANGED <<kindVars, drv, modeVars, pos, loopEvent,
                   handed>>

\* OS_ERROR_NOT_IMPLEMENTED from a driver that has delivered frames: exit(0).
ReadFatal ==
    /\ mayFail
    /\ Reading
    /\ ~legacyDriver
    /\ isDetectionDone
    /\ ctl' = [Waiting EXCEPT !.pc = "exited"]
    /\ UNCHANGED <<kindVars, drvVars, slots, modeVars, pos, loopEvent,
                   handed>>

\* Any other error is not told from success.  What the call left in len and
\* framesRemaining is not defined: len may never have been written.
ReadFails ==
    /\ mayFail
    /\ Reading
    /\ ~legacyDriver
    /\ \E len \in Lengths, more \in BOOLEAN :
          ctl' = [ctl EXCEPT !.pc = "recv", !.len = len, !.more = more,
                             !.ok = FALSE]
    /\ UNCHANGED <<kindVars, drvVars, slots, modeVars, pos, loopEvent,
                   handed>>

\* pico_stack_recv() copies the frame.
HandOver(data, len) ==
    handed' = [data |-> data, len |-> len, odd |-> ~handed.odd]

Recv ==
    /\ ctl.pc = "recv"
    /\ HandOver(slots[0].data, ctl.len)
    /\ ctl' = [ctl EXCEPT !.pc = "read", !.score = @ - 1, !.ok = FALSE]
    /\ isDetectionDone' = TRUE
    /\ UNCHANGED <<kindVars, drvVars, slots, isLegacyInterface, pos,
                   loopEvent>>

\* Fault: the frames that are left wait for the next tick.
ReadDoneQuiet ==
    /\ ctl.pc = "read"
    /\ ~Reading
    /\ ctl' = Waiting
    /\ UNCHANGED <<kindVars, drvVars, slots, modeVars, pos, loopEvent,
                   handed>>

\* When only the loop score ended the loop, internal_notify_main_loop().
ReadDone ==
    /\ ctl.pc = "read"
    /\ ~Reading
    /\ loopEvent' = (loopEvent \/ (ctl.score = 0 /\ ctl.more))
    /\ ctl' = Waiting
    /\ UNCHANGED <<kindVars, drvVars, slots, modeVars, pos, handed>>

\* Fault: the element is given back to the driver before it was read.
RingCheckClears ==
    /\ ctl.pc = "ring"
    /\ slots[pos].len # NoFrame
    /\ ctl.score > 0
    /\ slots' = [slots EXCEPT ![pos].len = NoFrame]
    /\ ctl' = [ctl EXCEPT !.pc = "take"]
    /\ UNCHANGED <<kindVars, drvVars, modeVars, pos, loopEvent, handed>>

\* The ring: while (buf_ptr[pos].len != 0 && loop_score > 0) ...
RingCheck ==
    /\ ctl.pc = "ring"
    /\ slots[pos].len # NoFrame
    /\ ctl.score > 0
    /\ ctl' = [ctl EXCEPT !.pc = "take"]
    /\ UNCHANGED <<kindVars, drvVars, slots, modeVars, pos, loopEvent,
                   handed>>

\* ... hand the element over ...
RingTake ==
    /\ ctl.pc = "take"
    /\ HandOver(slots[pos].data, slots[pos].len)
    /\ ctl' = [ctl EXCEPT !.pc = "clear", !.score = @ - 1]
    /\ UNCHANGED <<kindVars, drvVars, slots, modeVars, pos, loopEvent>>

\* Fault: the element is given back, but the position stays.
RingClearStays ==
    /\ ctl.pc = "clear"
    /\ slots' = [slots EXCEPT ![pos].len = NoFrame]
    /\ ctl' = [ctl EXCEPT !.pc = "ring"]
    /\ UNCHANGED <<kindVars, drvVars, modeVars, pos, loopEvent, handed>>

\* ... and give it back to the driver.
RingClear ==
    /\ ctl.pc = "clear"
    /\ slots' = [slots EXCEPT ![pos].len = NoFrame]
    /\ pos' = NextSlot(pos)
    /\ ctl' = [ctl EXCEPT !.pc = "ring"]
    /\ UNCHANGED <<kindVars, drvVars, modeVars, loopEvent, handed>>

RingDone ==
    /\ ctl.pc = "ring"
    /\ slots[pos].len = NoFrame \/ ctl.score = 0
    /\ ctl' = Waiting
    /\ UNCHANGED <<kindVars, drvVars, slots, modeVars, pos, loopEvent,
                   handed>>

-----------------------------------------------------------------------------
DriverStep ==
    \/ \E f \in Frames : NicReceive(f) \/ NicFill(f)
    \/ NicPublish
    \/ NicEmit

PollStep ==
    \/ \E score \in 1..MaxScore : Poll(score)
    \/ ReadDetectsLegacy \/ ReadNothing \/ ReadFrame \/ ReadFatal \/ ReadFails
    \/ Recv \/ ReadDone
    \/ RingCheck \/ RingTake \/ RingClear \/ RingDone

Next == DriverStep \/ TickOrData \/ PollStep

Spec == Init /\ [][Next]_vars
=============================================================================
