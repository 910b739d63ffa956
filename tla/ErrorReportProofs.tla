------------------------- MODULE ErrorReportProofs -------------------------
(***************************************************************************)
(* Proofs about the error reporting, for any number of sockets and for     *)
(* every set of picoTCP errors.                                            *)
(***************************************************************************)
EXTENDS ErrorReport, TLAPS

\* The mutex is held from the call into picoTCP until pico_err was read.
HoldsMutex == mutex = "rpc" <=> rpc.pc \in {"call", "store"}

\* Until then pico_err is this call's, afterwards the translation is.
ErrInv ==
    /\ rpc.pc \in {"store", "free", "done"} /\ rpc.failed => rpc.own # "NOERR"
    /\ rpc.pc = "store" /\ rpc.failed => pico_err = rpc.own
    /\ rpc.pc \in {"free", "done"} /\ rpc.failed => rpc.err = Err2Os(rpc.own)
    /\ rpc.pc \in {"lock", "call"} => ~rpc.failed

\* A call on an entry names one.
TargetInv ==
    rpc.op \in {"accept", "close", "other"} => rpc.socket \in Sockets

IInv == TypeOK /\ HoldsMutex /\ ErrInv /\ TargetInv

-----------------------------------------------------------------------------
(* The translation.                                                        *)

\* Only PICO_ERR_NOERR is translated to OS_SUCCESS.
LEMMA OnlyNoErrIsSuccess ==
  ASSUME NEW e, e # "NOERR"
  PROVE  Err2Os(e) # "SUCCESS"
  BY DEF Err2Os

LEMMA TranslationType ==
  /\ "SUCCESS" \in OsErrors /\ "INSUFFICIENT_SPACE" \in OsErrors
  /\ \A e \in PicoErrs : Err2Os(e) \in OsErrors
  BY DEF OsErrors

LEMMA IdleType ==
  /\ Idle \in RpcRecord /\ Idle.pc = "idle" /\ Idle.op = "none"
  /\ ~Idle.failed
  BY TranslationType, ErrAssumption DEF Idle, RpcRecord

LEMMA FreeEntryType == FreeEntry \in EntryRecord
  BY TranslationType DEF FreeEntry, EntryRecord

LEMMA InitInv == Init => IInv
  BY ErrAssumption, IdleType, FreeEntryType
  DEF Init, IInv, TypeOK, HoldsMutex, ErrInv, TargetInv

-----------------------------------------------------------------------------
(* The control thread.                                                     *)

LEMMA ControlKeeps ==
  ASSUME IInv, ControlStep
  PROVE  IInv'
  <1>0. TypeOK /\ HoldsMutex /\ ErrInv /\ TargetInv
    BY DEF IInv
  <1>1. mutex # "rpc" /\ mutex' # "rpc" /\ rpc' = rpc
    BY DEF ControlStep, TickBegin, TickWork, TickEnd, ErrorEvent, FinEvent
  <1>2. HoldsMutex' /\ ErrInv' /\ TargetInv'
    BY <1>0, <1>1 DEF HoldsMutex, ErrInv, TargetInv
  <1>3. TypeOK'
    <2>1. CASE TickBegin \/ TickWork \/ TickEnd
      BY <1>0, <2>1 DEF TickBegin, TickWork, TickEnd, TypeOK
    <2>2. ASSUME NEW s \in Sockets, ErrorEvent(s) PROVE TypeOK'
      <3>1. Err2Os(pico_err) \in OsErrors
        BY <1>0, TranslationType DEF TypeOK
      <3> QED BY <1>0, <2>2, <3>1 DEF ErrorEvent, TypeOK, EntryRecord
    <2>3. ASSUME NEW s \in Sockets, FinEvent(s) PROVE TypeOK'
      BY <1>0, <2>3 DEF FinEvent, TypeOK, EntryRecord
    <2> QED BY <2>1, <2>2, <2>3 DEF ControlStep
  <1> QED BY <1>2, <1>3 DEF IInv

-----------------------------------------------------------------------------
(* The RPC thread.                                                         *)

LEMMA EntersWell ==
  ASSUME IInv, NEW op \in {"create", "accept", "close", "other"},
         NEW s \in Sockets \cup {NoSocket}, NEW pc \in {"lock", "free"},
         Enter(op, s, pc), s \in Sockets \/ op = "create"
  PROVE  IInv'
  <1>0. TypeOK /\ HoldsMutex /\ ErrInv
    BY DEF IInv
  <1>1. /\ rpc' \in RpcRecord /\ rpc'.pc = pc /\ rpc'.op = op
        /\ rpc'.socket = s /\ ~rpc'.failed
        /\ rpc.pc = "idle"
    BY IdleType DEF Enter, RpcRecord
  <1>2. UNCHANGED <<pico_err, mutex, sockets>>
    BY DEF Enter
  <1> QED BY <1>0, <1>1, <1>2
          DEF IInv, TypeOK, HoldsMutex, ErrInv, TargetInv

LEMMA PicoCalls ==
  ASSUME IInv, LockMutex \/ PicoFails \/ PicoSucceeds
  PROVE  IInv'
  <1>0. TypeOK /\ HoldsMutex /\ ErrInv /\ TargetInv /\ rpc \in RpcRecord
    BY DEF IInv, TypeOK
  <1>1. CASE LockMutex
    <2>1. rpc' \in RpcRecord /\ rpc' = [rpc EXCEPT !.pc = "call"]
      BY <1>0, <1>1 DEF LockMutex, RpcRecord
    <2> QED BY <1>0, <1>1, <2>1
            DEF LockMutex, IInv, TypeOK, HoldsMutex, ErrInv, TargetInv,
                RpcRecord
  <1>2. CASE PicoFails
    <2>1. PICK e \in PicoErrs \ {"NOERR"} :
            /\ pico_err' = e
            /\ rpc' = [rpc EXCEPT !.pc = "store", !.failed = TRUE, !.own = e]
      BY <1>2 DEF PicoFails
    <2>2. /\ rpc' \in RpcRecord /\ rpc'.pc = "store" /\ rpc'.own = e
          /\ rpc'.op = rpc.op /\ rpc'.socket = rpc.socket
      BY <1>0, <2>1 DEF RpcRecord
    <2> QED BY <1>0, <1>2, <2>1, <2>2
            DEF PicoFails, IInv, TypeOK, HoldsMutex, ErrInv, TargetInv
  <1>3. CASE PicoSucceeds
    <2>1. /\ rpc' \in RpcRecord /\ rpc'.pc = "store" /\ ~rpc'.failed
          /\ rpc'.op = rpc.op /\ rpc'.socket = rpc.socket
      BY <1>0, <1>3 DEF PicoSucceeds, RpcRecord, ErrInv
    <2> QED BY <1>0, <1>3, <2>1
            DEF PicoSucceeds, IInv, TypeOK, HoldsMutex, ErrInv, TargetInv
  <1> QED BY <1>1, <1>2, <1>3

\* Every way out of the critical section.
LEMMA UnlocksWell ==
  ASSUME IInv, rpc.pc = "store", NEW pc \in {"free", "done"}, NEW err,
         err \in OsErrors, Unlock(pc, err),
         rpc.failed => err = Err2Os(pico_err),
         sockets' \in [Sockets -> EntryRecord], pico_err' \in PicoErrs
  PROVE  IInv'
  <1>0. TypeOK /\ HoldsMutex /\ ErrInv /\ TargetInv /\ rpc \in RpcRecord
    BY DEF IInv, TypeOK
  <1>1. /\ rpc' \in RpcRecord /\ rpc'.pc = pc /\ rpc'.err = err
        /\ rpc'.failed = rpc.failed /\ rpc'.own = rpc.own
        /\ rpc'.op = rpc.op /\ rpc'.socket = rpc.socket
        /\ mutex' = "free"
    BY <1>0 DEF Unlock, RpcRecord
  <1> QED BY <1>0, <1>1 DEF IInv, TypeOK, HoldsMutex, ErrInv, TargetInv

LEMMA ReservedType ==
  ASSUME TypeOK, NEW s \in Sockets, NEW err \in OsErrors
  PROVE  Reserved(s, err) \in EntryRecord
  BY DEF TypeOK, EntryRecord, Reserved

LEMMA StoresWell ==
  ASSUME IInv,
         Store \/ StoreCreate \/ CreateFails \/ StoreAccept \/ NoHandle
  PROVE  IInv'
  <1>0. TypeOK /\ ErrInv /\ TargetInv /\ rpc \in RpcRecord
        /\ Err2Os(pico_err) \in OsErrors /\ "INSUFFICIENT_SPACE" \in OsErrors
        /\ "SUCCESS" \in OsErrors
    BY TranslationType DEF IInv, TypeOK
  <1>1. Result \in OsErrors /\ (rpc.failed => Result = Err2Os(pico_err))
    BY <1>0 DEF Result
  <1>2. CASE Store
    <2>1. sockets' \in [Sockets -> EntryRecord]
      BY <1>0, <1>2 DEF Store, TypeOK, EntryRecord, TargetInv
    <2> QED BY <1>0, <1>1, <1>2, <2>1, UnlocksWell DEF Store, TypeOK
  <1>3. CASE StoreCreate
    <2>1. sockets' \in [Sockets -> EntryRecord]
      BY <1>0, <1>3, ReservedType DEF StoreCreate, TypeOK
    <2>2. /\ rpc.pc = "store" /\ Unlock("done", Result)
          /\ pico_err' \in PicoErrs
      BY <1>3 DEF StoreCreate
    <2> QED BY <1>1, <2>1, <2>2, UnlocksWell
  <1>4. CASE CreateFails
    BY <1>0, <1>1, <1>4, UnlocksWell DEF CreateFails, TypeOK
  <1>5. CASE StoreAccept
    <2>1. sockets' \in [Sockets -> EntryRecord]
      <3>1. PICK s \in Sockets :
               sockets' = [sockets EXCEPT
                             ![rpc.socket].current_error = Err2Os(pico_err),
                             ![s] = Reserved(s, "SUCCESS")]
        BY <1>5 DEF StoreAccept
      <3> DEFINE t == [sockets EXCEPT
                         ![rpc.socket].current_error = Err2Os(pico_err)]
      <3>2. t \in [Sockets -> EntryRecord]
        BY <1>0, <1>5 DEF StoreAccept, TypeOK, EntryRecord, TargetInv
      <3>3. sockets' = [t EXCEPT ![s] = Reserved(s, "SUCCESS")]
        BY <3>1
      <3> QED BY <1>0, <3>2, <3>3, ReservedType
    <2>2. /\ rpc.pc = "store" /\ Unlock("done", Result)
          /\ pico_err' \in PicoErrs
      BY <1>5 DEF StoreAccept
    <2> QED BY <1>1, <2>1, <2>2, UnlocksWell
  <1>6. CASE NoHandle
    <2>1. sockets' \in [Sockets -> EntryRecord]
      BY <1>0, <1>6 DEF NoHandle, TypeOK, EntryRecord, TargetInv
    <2> QED BY <1>0, <1>6, <2>1, UnlocksWell DEF NoHandle
  <1> QED BY <1>2, <1>3, <1>4, <1>5, <1>6

LEMMA EndsWell ==
  ASSUME IInv,
         FreeHandle \/ Return \/ \E s \in Sockets : Report(s)
  PROVE  IInv'
  <1>0. TypeOK /\ HoldsMutex /\ ErrInv /\ TargetInv /\ rpc \in RpcRecord
    BY DEF IInv, TypeOK
  <1>1. CASE FreeHandle
    <2>1. rpc' \in RpcRecord /\ rpc' = [rpc EXCEPT !.pc = "done"]
      BY <1>0, <1>1 DEF FreeHandle, RpcRecord
    <2>2. sockets' \in [Sockets -> EntryRecord]
      BY <1>0, <1>1, FreeEntryType DEF FreeHandle, TypeOK
    <2> QED BY <1>0, <1>1, <2>1, <2>2
            DEF FreeHandle, IInv, TypeOK, HoldsMutex, ErrInv, TargetInv,
                RpcRecord
  <1>2. CASE Return
    BY <1>0, <1>2, IdleType
    DEF Return, IInv, TypeOK, HoldsMutex, ErrInv, TargetInv
  <1>3. ASSUME NEW s \in Sockets, Report(s) PROVE IInv'
    <2>1. sockets' \in [Sockets -> EntryRecord]
      BY <1>0, <1>3 DEF Report, TypeOK, EntryRecord
    <2> QED BY <1>0, <1>3, <2>1
            DEF Report, IInv, TypeOK, HoldsMutex, ErrInv, TargetInv
  <1> QED BY <1>1, <1>2, <1>3

THEOREM Invariant == Spec => []IInv
  <1>1. ASSUME IInv, RpcStep PROVE IInv'
    <2>1. CASE CallCreate
      BY <1>1, <2>1, EntersWell DEF CallCreate
    <2>2. ASSUME NEW s \in Sockets, NEW op \in {"accept", "close", "other"},
                 Call(op, s)
          PROVE  IInv'
      BY <1>1, <2>2, EntersWell DEF Call
    <2>3. ASSUME NEW s \in Sockets, CallCloseDead(s) PROVE IInv'
      BY <1>1, <2>3, EntersWell DEF CallCloseDead
    <2> QED BY <1>1, <2>1, <2>2, <2>3, PicoCalls, StoresWell, EndsWell
            DEF RpcStep
  <1>2. ASSUME IInv, UNCHANGED vars PROVE IInv'
    BY <1>2 DEF vars, IInv, TypeOK, HoldsMutex, ErrInv, TargetInv
  <1>3. IInv /\ [Next]_vars => IInv'
    BY <1>1, <1>2, ControlKeeps DEF Next
  <1> QED BY <1>3, InitInv, PTL DEF Spec

-----------------------------------------------------------------------------
(* The theorems.                                                           *)

\* Every variable keeps its type.
THEOREM TypeCorrect == Spec => []TypeOK
  <1>1. IInv => TypeOK
    BY DEF IInv
  <1> QED BY <1>1, Invariant, PTL

\* A failing call returns the translation of its own error, which is never
\* OS_SUCCESS, although both threads overwrite pico_err: the mutex is held
\* until the error was read.
THEOREM ReturnsOwnError == Spec => []OwnError
  <1>1. IInv => OwnError
    BY OnlyNoErrIsSuccess DEF IInv, ErrInv, OwnError
  <1> QED BY <1>1, Invariant, PTL
=============================================================================
