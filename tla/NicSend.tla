------------------------------ MODULE NicSend ------------------------------
(***************************************************************************)
(* Sending frames: nic_send_frame(), which picoTCP calls in a tick for the *)
(* frame at the head of its output queue, against the NIC driver's         *)
(* nic_dev_write().                                                        *)
(*                                                                         *)
(* picoTCP's queue and the driver are EXTERNAL.  By the comment in         *)
(* nic_send_frame(), a result of 0 makes picoTCP retry the current frame;  *)
(* whether it gives a frame up or keeps it on -1 is left open.             *)
(*                                                                         *)
(* A driver may also report success with another length than it was given. *)
(* nic_send_frame() notices, but only a debug build stops; a release build *)
(* tells picoTCP that the frame was sent.                                  *)
(***************************************************************************)
EXTENDS Integers, Sequences

CONSTANTS
    Frames,
    NoFrame,
    TooLong,    \* the frames that do not fit into the dataport
    MaxQueue    \* bound: frames in picoTCP's output queue

ASSUME FramesAssumption == NoFrame \notin Frames /\ TooLong \subseteq Frames
ASSUME QueueAssumption == MaxQueue \in Nat

VARIABLES
    debugBuild, \* does Debug_ASSERT() halt?
    mayFail,    \* may the driver's nic_dev_write() fail for good?
    mayCut,     \* may it succeed with another length?
    outQueue,   \* picoTCP's output queue
    port,       \* the dataport nic_to_port
    sending,    \* inside nic_send_frame(): "idle", "write" or "halted"
    wire        \* what went to the driver last and counts as sent

kindVars == <<debugBuild, mayFail, mayCut>>
vars == <<kindVars, outQueue, port, sending, wire>>

\* The type invariant.
TypeOK ==
    /\ debugBuild \in BOOLEAN
    /\ mayFail \in BOOLEAN
    /\ mayCut \in BOOLEAN
    /\ outQueue \in Seq(Frames)
    /\ port \in Frames \cup {NoFrame}
    /\ sending \in {"idle", "write", "halted"}
    /\ wire \in [data : Frames \cup {NoFrame}, len : Frames \cup {NoFrame},
                 odd : BOOLEAN]

Init ==
    /\ debugBuild \in BOOLEAN
    /\ mayFail \in BOOLEAN
    /\ mayCut \in BOOLEAN
    /\ outQueue = <<>>
    /\ port = NoFrame
    /\ sending = "idle"
    /\ wire = [data |-> NoFrame, len |-> NoFrame, odd |-> FALSE]

\* picoTCP has another frame to send.
Enqueue(f) ==
    /\ Len(outQueue) < MaxQueue
    /\ outQueue' = Append(outQueue, f)
    /\ UNCHANGED <<kindVars, port, sending, wire>>

\* What picoTCP does when it gets -1.
KeepOrDrop == outQueue' \in {outQueue, Tail(outQueue)}

\* The frame does not fit.
SendTooLong ==
    /\ sending = "idle"
    /\ outQueue # <<>>
    /\ Head(outQueue) \in TooLong
    /\ KeepOrDrop
    /\ UNCHANGED <<kindVars, port, sending, wire>>

\* Fault: the size check is the wrong way around; the frames that fit are
\* refused.
SendCopyInverted ==
    /\ sending = "idle"
    /\ outQueue # <<>>
    /\ IF Head(outQueue) \in TooLong
       THEN port' = Head(outQueue) /\ sending' = "write" /\ UNCHANGED outQueue
       ELSE KeepOrDrop /\ UNCHANGED <<port, sending>>
    /\ UNCHANGED <<kindVars, wire>>

\* The frame is copied into the dataport.
SendCopy ==
    /\ sending = "idle"
    /\ outQueue # <<>>
    /\ Head(outQueue) \notin TooLong
    /\ port' = Head(outQueue)
    /\ sending' = "write"
    /\ UNCHANGED <<kindVars, outQueue, wire>>

\* The driver takes the frame; len is returned.
WriteAccepted ==
    /\ sending = "write"
    /\ wire' = [data |-> port, len |-> Head(outQueue), odd |-> ~wire.odd]
    /\ outQueue' = Tail(outQueue)
    /\ sending' = "idle"
    /\ UNCHANGED <<kindVars, port>>

\* Fault: OS_ERROR_TRY_AGAIN is reported like the other errors.
WriteAgainFails ==
    /\ sending = "write"
    /\ KeepOrDrop
    /\ sending' = "idle"
    /\ UNCHANGED <<kindVars, port, wire>>

\* OS_ERROR_TRY_AGAIN: 0 is returned.
WriteAgain ==
    /\ sending = "write"
    /\ sending' = "idle"
    /\ UNCHANGED <<kindVars, outQueue, port, wire>>

\* Any other error: -1 is returned.
WriteFails ==
    /\ mayFail
    /\ sending = "write"
    /\ KeepOrDrop
    /\ sending' = "idle"
    /\ UNCHANGED <<kindVars, port, wire>>

\* The driver claims to have written another length: a debug build halts ...
WriteHalts ==
    /\ mayCut /\ debugBuild
    /\ sending = "write"
    /\ sending' = "halted"
    /\ UNCHANGED <<kindVars, outQueue, port, wire>>

\* ... and a release build returns len, as if the whole frame was sent.
WriteCut ==
    /\ mayCut /\ ~debugBuild
    /\ sending = "write"
    /\ \E len \in (Frames \cup {NoFrame}) \ {Head(outQueue)} :
          wire' = [data |-> port, len |-> len, odd |-> ~wire.odd]
    /\ outQueue' = Tail(outQueue)
    /\ sending' = "idle"
    /\ UNCHANGED <<kindVars, port>>

SendStep ==
    \/ SendTooLong \/ SendCopy
    \/ WriteAccepted \/ WriteAgain \/ WriteFails \/ WriteHalts \/ WriteCut

Next == (\E f \in Frames : Enqueue(f)) \/ SendStep

Spec == Init /\ [][Next]_vars

-----------------------------------------------------------------------------
(* Properties.                                                             *)

Fifo == INSTANCE FrameFifo WITH
    queue <- outQueue, handed <- wire, junk <- FALSE,
    cut <- mayCut /\ ~debugBuild,
    lossy <- IF mayFail THEN Frames ELSE TooLong

\* The driver gets picoTCP's frames in order and once, however often it
\* answers OS_ERROR_TRY_AGAIN.  A frame is lost only when this very frame is
\* too long, or when a write may fail for good.  It counts as sent with
\* another length than its own only in a release build, and only when the
\* driver itself reported that length: nothing else cuts a frame.
FifoSpec == Fifo!Spec

\* picoTCP's tick comes back to the frame, and the driver does not answer
\* OS_ERROR_TRY_AGAIN forever.
FairSpec ==
    Spec /\ WF_vars(SendStep) /\ SF_vars(WriteAccepted)

\* A frame that can be sent is sent: the retries end when the driver takes
\* whole frames.
FramesSent ==
    \A odd \in BOOLEAN :
        (/\ ~mayFail /\ ~mayCut
         /\ outQueue # <<>> /\ Head(outQueue) \notin TooLong
         /\ wire.odd = odd) ~> wire.odd # odd
=============================================================================
