----------------------------- MODULE FrameFifo -----------------------------
(***************************************************************************)
(* What the NIC adapter promises for one direction, without drivers, ring  *)
(* buffers, notifications or loop scores: frames wait in a queue and are   *)
(* handed over whole, one at a time, in the order in which they arrived,   *)
(* each once.                                                              *)
(*                                                                         *)
(* handed is the last frame that was handed over; odd flips with each, so  *)
(* that handing over the same frame again is a step of its own.            *)
(***************************************************************************)
EXTENDS Integers, Sequences

CONSTANTS
    Frames,
    NoFrame

VARIABLES
    queue,
    handed,
    junk,     \* may something be handed over that no frame is?
    cut,      \* may a frame be handed over with another length?
    lossy     \* the frames that may be given up

vars == <<queue, handed, junk, cut, lossy>>

Nothing == [data |-> NoFrame, len |-> NoFrame, odd |-> FALSE]

Init ==
    /\ queue = <<>>
    /\ handed = Nothing
    /\ junk \in BOOLEAN
    /\ cut \in BOOLEAN
    /\ lossy \in SUBSET Frames

\* A frame is its data with its length; a model value stands for either.
HandOver(data, len) ==
    handed' = [data |-> data, len |-> len, odd |-> ~handed.odd]

Arrive(f) == queue' = Append(queue, f) /\ UNCHANGED handed

Deliver ==
    /\ queue # <<>>
    /\ HandOver(Head(queue), Head(queue))
    /\ queue' = Tail(queue)

DeliverCut ==
    /\ cut
    /\ queue # <<>>
    /\ \E len \in Frames \cup {NoFrame} : HandOver(Head(queue), len)
    /\ queue' = Tail(queue)

GiveUp ==
    /\ queue # <<>>
    /\ Head(queue) \in lossy
    /\ queue' = Tail(queue)
    /\ UNCHANGED handed

DeliverJunk ==
    /\ junk
    /\ \E data, len \in Frames \cup {NoFrame} : HandOver(data, len)
    /\ UNCHANGED queue

Next ==
    /\ \/ \E f \in Frames : Arrive(f)
       \/ Deliver \/ DeliverCut \/ GiveUp \/ DeliverJunk
    /\ UNCHANGED <<junk, cut, lossy>>

Spec == Init /\ [][Next]_vars
=============================================================================
