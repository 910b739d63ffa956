-------------------------- MODULE LifecycleProofs --------------------------
(***************************************************************************)
(* Proofs about the life cycle, for every set of configurations, every     *)
(* assembly of badges and every limit on the number of clients.            *)
(***************************************************************************)
EXTENDS LifecycleProps, TLAPS

-----------------------------------------------------------------------------
(* The inductive invariant.                                                *)

BadgesListed == \A i \in DOMAIN badges : badges[i] \in clientIds

NicPhases == {"dev_addr", "subnet_mask", "gateway_addr", "link", "route"}
EndPhases == {"initialized", "running", "loop"}

\* What each phase of run() has achieved.
PhaseInv ==
    /\ run \in {"init", "stack", "mac", "device"} \cup NicPhases \cup EndPhases
            => BadgesListed
    /\ run \in {"stack", "mac", "device"} \cup NicPhases \cup EndPhases
            => instance
    /\ run \in NicPhases \cup EndPhases => picoContext
    /\ run \in EndPhases => nic = "up"

\* The state says how far run() is.
StateInv ==
    /\ state = "UNINITIALIZED" => run \notin {"running", "loop", "exited"}
    /\ state = "INITIALIZED" <=> run = "running"
    /\ state = "RUNNING" <=> run = "loop"
    /\ state = "FATAL_ERROR" <=> run = "exited"

\* A call is served only inside the loop, and by a listed client.
ServeInv == rpc.pc = "serve" => run = "loop" /\ rpc.badge \in clientIds

\* Only configurations that passed the check are copied.
CopyInv == config.pc = "copy" => config.arg \in Valid

IInv == TypeOK /\ PhaseInv /\ StateInv /\ ServeInv /\ CopyInv

USE DEF buildVars

-----------------------------------------------------------------------------
(* Types.                                                                  *)

LEMMA NoCallType == NoCall \in ConfigRecord /\ NoCall.pc = "idle"
                    /\ NoCall.calls = 0 /\ NoCall.field = "none"
  BY BoundAssumption DEF NoCall, ConfigRecord

LEMMA InitInv == Init => IInv
  <1> SUFFICES ASSUME Init PROVE IInv
    OBVIOUS
  <1>1. TypeOK
    BY NoCallType DEF Init, TypeOK, AllOf, Strings
  <1>2. PhaseInv /\ StateInv /\ ServeInv /\ CopyInv
    BY NoCallType DEF Init, PhaseInv, StateInv, ServeInv, CopyInv, NicPhases,
                      EndPhases
  <1> QED BY <1>1, <1>2 DEF IInv

\* Badges within the range are the clientIds of the table.
LEMMA BadgesGetListed ==
  ASSUME TypeOK, BadgesFit, clientIds' = {ClientId(i) : i \in DOMAIN badges},
         badges' = badges
  PROVE  BadgesListed' /\ clientIds' \in SUBSET Nat
  <1>1. badges \in Seq(Nat)
    BY BadgeAssumption DEF TypeOK
  <1>2. DOMAIN badges = 1..Len(badges) /\ Len(badges) \in Nat
        /\ \A i \in DOMAIN badges : badges[i] \in Nat
    BY <1>1
  <1>3. ASSUME NEW i \in DOMAIN badges PROVE badges[i] \in clientIds'
    <2>1. badges[i] >= 101 /\ badges[i] < 101 + Len(badges)
      BY <1>3 DEF BadgesFit, MinBadgeId
    <2>2. badges[i] - 100 \in DOMAIN badges
      BY <1>2, <2>1
    <2>3. ClientId(badges[i] - 100) = badges[i]
      BY <1>2 DEF ClientId, MinBadgeId
    <2> QED BY <2>2, <2>3
  <1>4. \A i \in DOMAIN badges : ClientId(i) \in Nat
    BY <1>2 DEF ClientId, MinBadgeId
  <1> QED BY <1>3, <1>4 DEF BadgesListed

\* The configuration thread: what it does to the types.
LEMMA ConfigTypes ==
  ASSUME TypeOK, CopyInv,
         (\E c \in Configs : ConfigIpAddr(c)) \/ ConfigStep
  PROVE  TypeOK' /\ CopyInv'
  <1>0. config \in ConfigRecord /\ Valid \subseteq Configs
    BY ConfigAssumption DEF TypeOK
  <1>1. ASSUME NEW c \in Configs, ConfigIpAddr(c) PROVE TypeOK' /\ CopyInv'
    <2>1. config.calls + 1 \in 0..MaxCalls
      <3>1. config.calls \in 0..MaxCalls /\ config.calls < MaxCalls
        BY <1>0, <1>1 DEF ConfigIpAddr, ConfigRecord
      <3> QED BY <3>1, BoundAssumption
    <2>2. config' \in ConfigRecord /\ config'.arg = c
      BY <1>1, <2>1, NoCallType DEF ConfigIpAddr, ConfigRecord
    <2>3. /\ UNCHANGED <<state, ipAddrConfig, pIpAddrConfig, buildVars, run, rpc,
                         initVars, accepted>>
          /\ c \in Valid
      BY <1>1 DEF ConfigIpAddr
    <2> QED BY <1>0, <2>2, <2>3 DEF TypeOK, CopyInv, initVars
  <1>2. ASSUME NEW f \in Fields, CopyBegin(f) PROVE TypeOK' /\ CopyInv'
    <2>1. config' \in ConfigRecord /\ config'.arg = config.arg
      BY <1>0, <1>2 DEF CopyBegin, ConfigRecord
    <2> QED BY <1>2, <2>1 DEF CopyBegin, TypeOK, CopyInv, initVars
  <1>3. CASE CopyEnd
    <2>1. config' \in ConfigRecord /\ config'.arg = config.arg
      BY <1>0, <1>3 DEF CopyEnd, ConfigRecord
    <2>2. config.arg \in Strings
      BY <1>0 DEF ConfigRecord, Strings
    <2>3. ipAddrConfig' \in [Fields -> Strings]
      BY <1>3, <2>2 DEF CopyEnd, TypeOK
    <2> QED BY <1>3, <2>1, <2>3 DEF CopyEnd, TypeOK, CopyInv, initVars
  <1>4. CASE Publish
    <2>1. config' \in ConfigRecord /\ config'.pc = "idle"
      BY <1>0, <1>4, NoCallType DEF Publish, ConfigRecord
    <2>2. accepted' \in SUBSET Configs
      BY <1>0, <1>4 DEF Publish, TypeOK, CopyInv
    <2> QED BY <1>4, <2>1, <2>2 DEF Publish, TypeOK, CopyInv, initVars
  <1> QED BY <1>1, <1>2, <1>3, <1>4 DEF ConfigStep

\* Every other step leaves the configuration thread alone.
LEMMA RunTypes ==
  ASSUME IInv, RunStep
  PROVE  TypeOK' /\ CopyInv'
  <1>0. TypeOK /\ CopyInv
    BY DEF IInv
  <1>1. ASSUME NEW f \in Fields,
               NEW next \in {"subnet_mask", "gateway_addr", "link"},
               Translate(f, next)
        PROVE  TypeOK' /\ CopyInv'
    <2>1. Found(f) \subseteq Strings
      BY <1>0 DEF Found, TypeOK, ConfigRecord, Strings
    <2>2. applied' \in [Fields -> Strings]
      BY <1>0, <1>1, <2>1 DEF Translate, TypeOK
    <2> QED BY <1>0, <1>1, <2>2 DEF Translate, TypeOK, CopyInv, configVars
  <1>2. CASE FillClients
    <2>1. clientIds' \in SUBSET Nat
      BY <1>0, <1>2, BadgesGetListed DEF FillClients
    <2> QED BY <1>0, <1>2, <2>1 DEF FillClients, TypeOK, CopyInv, configVars
  <1>3. CASE Start
    BY <1>0, <1>3 DEF Start, TypeOK, CopyInv, initVars
  <1>4. CASE Configured \/ ClientsFail \/ GetMac \/ DeviceFault \/ LinkAdd
    <2>1. /\ UNCHANGED <<state, configVars, buildVars, initVars, rpc>>
          /\ run' \in {"clients", "failed", "device", "fault", "route"}
      BY <1>4 DEF Configured, ClientsFail, Fails, GetMac, DeviceFault, LinkAdd
    <2> QED BY <1>0, <2>1 DEF TypeOK, CopyInv, configVars, initVars
  <1>5. CASE InitInstance \/ StackInit
    BY <1>0, <1>5 DEF InitInstance, StackInit, TypeOK, CopyInv, configVars
  <1>6. CASE NicFails \/ DeviceInit \/ RouteAdd
    BY <1>0, <1>6 DEF NicFails, DeviceInit, RouteAdd, TypeOK, CopyInv,
                      configVars
  <1>7. CASE SetInitialized \/ SetRunning \/ GiveUp
    BY <1>0, <1>7 DEF SetInitialized, SetRunning, GiveUp, TypeOK, CopyInv,
                      configVars, initVars
  <1> QED BY <1>1, <1>2, <1>3, <1>4, <1>5, <1>6, <1>7 DEF RunStep, Fields

LEMMA RpcTypes ==
  ASSUME IInv, (\E i \in DOMAIN badges : SocketCall(i)) \/ SocketReturn
  PROVE  TypeOK' /\ CopyInv'
  <1>0. TypeOK /\ CopyInv /\ \A i \in DOMAIN badges : badges[i] \in Nat
    BY BadgeAssumption DEF IInv, TypeOK
  <1>1. ASSUME NEW i \in DOMAIN badges, SocketCall(i) PROVE TypeOK' /\ CopyInv'
    BY <1>0, <1>1 DEF SocketCall, TypeOK, CopyInv, configVars, initVars
  <1>2. CASE SocketReturn
    BY <1>0, <1>2 DEF SocketReturn, TypeOK, CopyInv, configVars, initVars
  <1> QED BY <1>1, <1>2

-----------------------------------------------------------------------------
(* The phases.                                                             *)

\* A step of run() keeps what it has achieved, and what a call relies on.
LEMMA RunPhases ==
  ASSUME IInv, RunStep
  PROVE  PhaseInv' /\ StateInv' /\ ServeInv'
  <1>0. TypeOK /\ PhaseInv /\ StateInv /\ ServeInv
    BY DEF IInv
  <1> USE DEF NicPhases, EndPhases
  <1>1. ASSUME NEW f \in Fields,
               NEW next \in {"subnet_mask", "gateway_addr", "link"},
               Translate(f, next)
        PROVE  PhaseInv' /\ StateInv' /\ ServeInv'
    BY <1>0, <1>1 DEF Translate, Fields, PhaseInv, StateInv, ServeInv, TypeOK,
                      BadgesListed
  <1>2. CASE FillClients
    <2>1. BadgesListed' /\ badges' = badges
      BY <1>0, <1>2, BadgesGetListed DEF FillClients
    <2> QED BY <1>0, <1>2, <2>1
            DEF FillClients, PhaseInv, StateInv, ServeInv
  <1>3. CASE Start
    BY <1>0, <1>3 DEF Start, PhaseInv, StateInv, ServeInv, initVars, TypeOK
  <1>4. CASE Configured \/ ClientsFail \/ GetMac \/ DeviceFault \/ LinkAdd
    BY <1>0, <1>4 DEF Configured, ClientsFail, Fails, GetMac, DeviceFault,
                      LinkAdd, PhaseInv, StateInv, ServeInv, initVars,
                      BadgesListed, TypeOK
  <1>5. CASE InitInstance \/ StackInit
    BY <1>0, <1>5 DEF InitInstance, StackInit, PhaseInv, StateInv, ServeInv,
                      BadgesListed, TypeOK
  <1>6. CASE NicFails \/ DeviceInit \/ RouteAdd
    BY <1>0, <1>6 DEF NicFails, DeviceInit, RouteAdd, PhaseInv, StateInv,
                      ServeInv, BadgesListed, TypeOK
  <1>7. CASE SetInitialized \/ SetRunning \/ GiveUp
    BY <1>0, <1>7 DEF SetInitialized, SetRunning, GiveUp, PhaseInv, StateInv,
                      ServeInv, initVars, BadgesListed, TypeOK
  <1> QED BY <1>1, <1>2, <1>3, <1>4, <1>5, <1>6, <1>7 DEF RunStep, Fields

\* The other threads' steps leave the phases alone; a call enters in RUNNING.
LEMMA OtherPhases ==
  ASSUME IInv, [Next]_vars, ~RunStep
  PROVE  PhaseInv' /\ StateInv' /\ ServeInv'
  <1>0. TypeOK /\ PhaseInv /\ StateInv /\ ServeInv
    BY DEF IInv
  <1>1. ASSUME UNCHANGED <<state, run, badges, initVars, rpc>>
        PROVE  PhaseInv' /\ StateInv' /\ ServeInv'
    BY <1>0, <1>1 DEF PhaseInv, StateInv, ServeInv, BadgesListed, initVars
  <1>2. ASSUME NEW i \in DOMAIN badges, SocketCall(i)
        PROVE  PhaseInv' /\ StateInv' /\ ServeInv'
    <2>1. PhaseInv' /\ StateInv'
      BY <1>0, <1>2
      DEF SocketCall, PhaseInv, StateInv, BadgesListed, initVars
    <2>2. run = "loop" /\ badges[i] \in clientIds
      BY <1>0, <1>2 DEF SocketCall, StateInv, PhaseInv, BadgesListed, EndPhases
    <2> QED BY <1>2, <2>1, <2>2 DEF SocketCall, ServeInv, initVars
  <1>3. CASE SocketReturn
    <2>1. PhaseInv' /\ StateInv'
      BY <1>0, <1>3
      DEF SocketReturn, PhaseInv, StateInv, BadgesListed, initVars
    <2>2. rpc'.pc = "idle"
      BY <1>0, <1>3 DEF SocketReturn, TypeOK
    <2> QED BY <2>1, <2>2 DEF ServeInv
  <1>4. ASSUME NEW c \in Configs, ConfigIpAddr(c)
        PROVE  PhaseInv' /\ StateInv' /\ ServeInv'
    BY <1>1, <1>4 DEF ConfigIpAddr
  <1>5. CASE ConfigStep
    BY <1>1, <1>5 DEF ConfigStep, CopyBegin, CopyEnd, Publish
  <1>6. CASE UNCHANGED vars
    BY <1>1, <1>6 DEF vars, initVars
  <1> QED BY <1>2, <1>3, <1>4, <1>5, <1>6 DEF Next

THEOREM Invariant == Spec => []IInv
  <1>1. ASSUME IInv, [Next]_vars PROVE IInv'
    <2>1. TypeOK' /\ CopyInv'
      <3>1. CASE UNCHANGED vars
        BY <1>1, <3>1 DEF vars, IInv, TypeOK, CopyInv
      <3> QED BY <1>1, <3>1, ConfigTypes, RunTypes, RpcTypes DEF Next, IInv
    <2>2. PhaseInv' /\ StateInv' /\ ServeInv'
      BY <1>1, RunPhases, OtherPhases
    <2> QED BY <2>1, <2>2 DEF IInv
  <1> QED BY <1>1, InitInv, PTL DEF Spec

-----------------------------------------------------------------------------
(* The theorems.                                                           *)

\* Every variable keeps its type.
THEOREM TypeCorrect == Spec => []TypeOK
  <1>1. IInv => TypeOK
    BY DEF IInv
  <1> QED BY <1>1, Invariant, PTL

\* No call gets past CHECK_IS_RUNNING before everything it uses is there, for
\* every assembly of badges and whatever fails.
THEOREM ServedWhenReady == Spec => []ServedOnlyWhenReady
  <1>1. IInv => ServedOnlyWhenReady
    BY DEF IInv, PhaseInv, ServeInv, ServedOnlyWhenReady, EndPhases
  <1> QED BY <1>1, Invariant, PTL

\* The component state only goes forward.
THEOREM StatesInOrder == Spec => StateOrder
  <1>1. ASSUME IInv, [Next]_vars, state' # state
        PROVE  <<state, state'>> \in {<<"UNINITIALIZED", "INITIALIZED">>,
                                      <<"INITIALIZED", "RUNNING">>,
                                      <<"UNINITIALIZED", "FATAL_ERROR">>}
    <2>0. StateInv /\ TypeOK
      BY <1>1 DEF IInv
    <2>1. CASE Start
      BY <1>1, <2>0, <2>1 DEF Start, StateInv, TypeOK
    <2>2. CASE SetInitialized \/ SetRunning \/ GiveUp
      BY <2>0, <2>2 DEF SetInitialized, SetRunning, GiveUp, StateInv, TypeOK
    <2>3. Start \/ SetInitialized \/ SetRunning \/ GiveUp
      BY <1>1 DEF Next, RunStep, ConfigStep, ConfigIpAddr, CopyBegin, CopyEnd,
           Publish, SocketCall, SocketReturn, Configured, FillClients,
           ClientsFail, Fails, InitInstance, StackInit, NicFails, GetMac,
           DeviceInit, DeviceFault, Translate, LinkAdd, RouteAdd, vars
    <2> QED BY <2>1, <2>2, <2>3
  <1>2. IInv /\ [Next]_vars =>
            [state' # state =>
               <<state, state'>> \in {<<"UNINITIALIZED", "INITIALIZED">>,
                                      <<"INITIALIZED", "RUNNING">>,
                                      <<"UNINITIALIZED", "FATAL_ERROR">>}]_vars
    BY <1>1
  <1> QED BY <1>2, Invariant, PTL DEF Spec, StateOrder

-----------------------------------------------------------------------------
(* With a single accepted call of configIpAddr(), what it said is true.     *)

\* No call has got as far as copying.
NotCalled ==
    /\ config.pc = "idle" /\ config.calls = 0 /\ config.field = "none"
    /\ accepted = {}
    /\ pIpAddrConfig \in {"null", "static"}
    /\ pIpAddrConfig = "static" => hardcoded

\* The call is copying; what it has copied is its own.
Copying ==
    /\ ~hardcoded
    /\ config.pc = "copy" /\ config.calls = 1
    /\ accepted = {}
    /\ pIpAddrConfig = "null"
    /\ \A f \in Fields : f \notin config.todo /\ f # config.field =>
            ipAddrConfig[f] = config.arg

\* The call has returned; nothing writes the copy any more.
Returned ==
    /\ ~hardcoded
    /\ config.pc = "idle" /\ config.calls = 1 /\ config.field = "none"
    /\ pIpAddrConfig = "copied"
    /\ \E c \in Configs : accepted = {c}
                          /\ \A f \in Fields : ipAddrConfig[f] = c

\* Run() translates only after the pointer was set, and keeps what it read.
AppliedInv ==
    /\ run \notin {"start", "poll"} => pIpAddrConfig # "null"
    /\ pIpAddrConfig = "copied" =>
        /\ run \in {"subnet_mask", "gateway_addr", "link", "route"}
                    \cup EndPhases =>
              applied["dev_addr"] = ipAddrConfig["dev_addr"]
        /\ run \in {"gateway_addr", "link", "route"} \cup EndPhases =>
              applied["subnet_mask"] = ipAddrConfig["subnet_mask"]
        /\ run \in {"link", "route"} \cup EndPhases =>
              applied["gateway_addr"] = ipAddrConfig["gateway_addr"]

OneCallInv == (NotCalled \/ Copying \/ Returned) /\ AppliedInv

LEMMA OneCallInit == Init => OneCallInv
  BY NoCallType DEF Init, OneCallInv, NotCalled, AppliedInv, EndPhases

\* The configuration thread: the call goes through its three phases.
LEMMA CallPhases ==
  ASSUME IInv, OneCallInv, config'.calls <= 1,
         (\E c \in Configs : ConfigIpAddr(c)) \/ ConfigStep
  PROVE  OneCallInv'
  <1>0. config \in ConfigRecord /\ Valid \subseteq Configs /\ CopyInv
        /\ ipAddrConfig \in [Fields -> Strings]
    BY ConfigAssumption DEF IInv, TypeOK
  <1>1. ASSUME NEW c \in Configs, ConfigIpAddr(c) PROVE OneCallInv'
    <2>1. config.calls < 1 /\ config.pc = "idle" /\ ~hardcoded
      <3>1. config'.calls = config.calls + 1
        BY <1>1 DEF ConfigIpAddr, NoCall
      <3>2. config.calls \in Nat
        BY <1>0, BoundAssumption DEF ConfigRecord
      <3>3. config'.calls <= 1
        OBVIOUS
      <3>4. config.calls < 1
        BY <3>1, <3>2, <3>3
      <3> QED BY <1>1, <3>4 DEF ConfigIpAddr
    <2>2. NotCalled
      BY <2>1 DEF OneCallInv, Copying, Returned
    <2>3. config.calls = 0
      BY <2>2 DEF NotCalled
    <2>4. config'.pc = "copy" /\ config'.calls = 1 /\ config'.todo = Fields
      <3>1. /\ config'.pc = "copy" /\ config'.todo = Fields
            /\ config'.calls = config.calls + 1
        BY <1>1 DEF ConfigIpAddr, NoCall
      <3> QED BY <2>3, <3>1
    <2>5. UNCHANGED <<ipAddrConfig, pIpAddrConfig, accepted, run, applied,
                    hardcoded>>
      BY <1>1 DEF ConfigIpAddr, initVars
    <2>6. Copying'
      BY <2>1, <2>2, <2>4, <2>5 DEF NotCalled, Copying
    <2>7. AppliedInv'
      BY <2>5 DEF OneCallInv, AppliedInv
    <2> QED BY <2>6, <2>7 DEF OneCallInv
  <1>2. ASSUME ConfigStep PROVE Copying /\ AppliedInv
    <2>1. config.pc = "copy"
      BY <1>2 DEF ConfigStep, CopyBegin, CopyEnd, Publish
    <2> QED BY <2>1 DEF OneCallInv, NotCalled, Returned
  <1>3. ASSUME NEW f \in Fields, CopyBegin(f) PROVE OneCallInv'
    <2>1. Copying /\ AppliedInv
      BY <1>2, <1>3 DEF ConfigStep
    <2>2. UNCHANGED <<ipAddrConfig, pIpAddrConfig, accepted, run, applied,
                    hardcoded>>
          /\ config.field = "none"
      BY <1>3 DEF CopyBegin, initVars
    <2>3. /\ config'.pc = config.pc /\ config'.calls = config.calls
          /\ config'.arg = config.arg
          /\ config'.field = f /\ config'.todo = config.todo \ {f}
      BY <1>0, <1>3 DEF CopyBegin, ConfigRecord
    <2>4. Copying'
      BY <2>1, <2>2, <2>3 DEF Copying, Fields
    <2>5. AppliedInv'
      BY <2>1, <2>2 DEF AppliedInv
    <2> QED BY <2>4, <2>5 DEF OneCallInv
  <1>4. ASSUME CopyEnd PROVE OneCallInv'
    <2>1. Copying /\ AppliedInv
      BY <1>2, <1>4 DEF ConfigStep
    <2>2. UNCHANGED <<pIpAddrConfig, accepted, run, applied, hardcoded>>
      BY <1>4 DEF CopyEnd, initVars
    <2>3. /\ config'.pc = config.pc /\ config'.calls = config.calls
          /\ config'.arg = config.arg /\ config'.todo = config.todo
          /\ config'.field = "none"
          /\ ipAddrConfig' = [ipAddrConfig EXCEPT ![config.field] = config.arg]
      BY <1>0, <1>4 DEF CopyEnd, ConfigRecord
    <2>4. Copying'
      <3>1. ASSUME NEW g \in Fields, g \notin config'.todo
            PROVE  ipAddrConfig'[g] = config'.arg
        BY <1>0, <2>1, <2>3, <3>1 DEF Copying
      <3> QED BY <2>1, <2>2, <2>3, <3>1 DEF Copying
    <2>5. AppliedInv'
      BY <2>1, <2>2 DEF AppliedInv, Copying
    <2> QED BY <2>4, <2>5 DEF OneCallInv
  <1>5. ASSUME Publish PROVE OneCallInv'
    <2>1. Copying /\ AppliedInv
      BY <1>2, <1>5 DEF ConfigStep
    <2>2. /\ UNCHANGED <<ipAddrConfig, run, applied, hardcoded>>
          /\ config.todo = {} /\ config.field = "none"
          /\ pIpAddrConfig' = "copied"
          /\ accepted' = accepted \cup {config.arg}
          /\ config' = [NoCall EXCEPT !.calls = config.calls]
      BY <1>5 DEF Publish, initVars
    <2>3. config'.pc = "idle" /\ config'.calls = 1 /\ config'.field = "none"
      BY <2>1, <2>2 DEF Copying, NoCall
    <2>4. config.arg \in Configs /\ accepted' = {config.arg}
          /\ \A f \in Fields : ipAddrConfig'[f] = config.arg
      BY <1>0, <2>1, <2>2 DEF Copying, CopyInv, Fields
    <2>5. Returned'
      BY <2>1, <2>2, <2>3, <2>4 DEF Copying, Returned
    <2>6. run \in {"start", "poll"}
      BY <2>1 DEF Copying, AppliedInv
    <2>7. AppliedInv'
      BY <2>2, <2>6 DEF AppliedInv, EndPhases
    <2> QED BY <2>5, <2>7 DEF OneCallInv
  <1> QED BY <1>1, <1>3, <1>4, <1>5 DEF ConfigStep

\* The control thread: what it reads is what the call has copied.
LEMMA TranslatesCopied ==
  ASSUME IInv, OneCallInv, RunStep
  PROVE  OneCallInv'
  <1>0. run \in {"start", "poll", "clients", "init", "stack", "mac", "device",
                "dev_addr", "subnet_mask", "gateway_addr", "link", "route",
                "initialized", "running", "loop", "failed", "exited", "fault"}
        /\ applied \in [Fields -> Strings]
    BY DEF IInv, TypeOK
  <1> USE DEF EndPhases
  <1>1. ASSUME UNCHANGED <<configVars, hardcoded>>, AppliedInv' PROVE OneCallInv'
    BY <1>1 DEF configVars, OneCallInv, NotCalled, Copying, Returned
  <1>2. ASSUME NEW f \in Fields, NEW next \in {"subnet_mask", "gateway_addr",
                                               "link"},
               <<f, next>> \in {<<"dev_addr", "subnet_mask">>,
                                <<"subnet_mask", "gateway_addr">>,
                                <<"gateway_addr", "link">>},
               Translate(f, next)
        PROVE  OneCallInv'
    <2>1. UNCHANGED <<configVars, hardcoded>> /\ run = f /\ run' = next
      BY <1>2 DEF Translate
    <2>2. PICK s \in Found(f) : applied' = [applied EXCEPT ![f] = s]
      BY <1>2 DEF Translate
    <2>3. pIpAddrConfig = "copied" => s = ipAddrConfig[f]
      BY <2>2 DEF Found, OneCallInv, NotCalled, Copying, Returned, Fields
    <2>4. pIpAddrConfig # "null"
      BY <2>1 DEF OneCallInv, AppliedInv, Fields
    <2>5. pIpAddrConfig = "copied" => applied'[f] = ipAddrConfig[f]
      BY <1>0, <2>2, <2>3
    <2>6. \A g \in Fields \ {f} : applied'[g] = applied[g]
      BY <1>0, <2>2
    <2>7. AppliedInv'
      BY <1>2, <2>1, <2>4, <2>5, <2>6
      DEF OneCallInv, AppliedInv, configVars, Fields
    <2> QED BY <1>1, <2>1, <2>7
  <1>3. CASE Start
    <2>1. /\ run = "start" /\ run' = "poll"
          /\ pIpAddrConfig' = IF hardcoded THEN "static" ELSE pIpAddrConfig
          /\ UNCHANGED <<ipAddrConfig, config, accepted, hardcoded>>
      BY <1>3 DEF Start
    <2>2. AppliedInv'
      BY <2>1 DEF OneCallInv, AppliedInv
    <2>3. (NotCalled \/ Copying \/ Returned)'
      <3>1. CASE hardcoded
        BY <2>1, <3>1 DEF OneCallInv, NotCalled, Copying, Returned
      <3>2. CASE ~hardcoded
        BY <2>1, <3>2 DEF OneCallInv, NotCalled, Copying, Returned
      <3> QED BY <3>1, <3>2
    <2> QED BY <2>2, <2>3 DEF OneCallInv
  <1>4. CASE Configured \/ FillClients \/ ClientsFail \/ InitInstance
             \/ StackInit \/ NicFails \/ GetMac \/ DeviceInit \/ DeviceFault
    <2>1. /\ UNCHANGED <<configVars, hardcoded>>
          /\ pIpAddrConfig # "null"
          /\ run' \in {"clients", "init", "stack", "mac", "device", "dev_addr",
                       "failed", "fault"}
      BY <1>4 DEF Configured, FillClients, ClientsFail, Fails, InitInstance,
           StackInit, NicFails, GetMac, DeviceInit, DeviceFault, OneCallInv,
           AppliedInv
    <2>2. AppliedInv'
      BY <2>1 DEF AppliedInv, configVars
    <2> QED BY <1>1, <2>1, <2>2
  <1>5. CASE LinkAdd \/ RouteAdd \/ SetInitialized \/ SetRunning \/ GiveUp
    <2>1. /\ UNCHANGED <<configVars, hardcoded>> /\ applied' = applied
          /\ \/ run \in {"link", "route"} \cup EndPhases
             \/ run' = "exited"
          /\ run' \in {"route", "exited"} \cup EndPhases
          /\ run \notin {"start", "poll"}
      BY <1>5 DEF LinkAdd, RouteAdd, SetInitialized, SetRunning, GiveUp,
           initVars
    <2>2. AppliedInv'
      BY <2>1 DEF OneCallInv, AppliedInv, configVars
    <2> QED BY <1>1, <2>1, <2>2
  <1> QED BY <1>2, <1>3, <1>4, <1>5 DEF RunStep, Fields

\* When configIpAddr() is called once, a running stack uses the configuration
\* for which it returned OS_SUCCESS: the copy is complete before the pointer
\* is set, although the control thread reads it without a lock.
THEOREM OneCallApplied == Spec => []SuccessMeansApplied
  <1> DEFINE OneCall == config.calls <= 1 => OneCallInv
  <1>1. ASSUME IInv, OneCall, [Next]_vars, config'.calls <= 1
        PROVE  OneCallInv'
    <2>0. config \in ConfigRecord /\ config.calls \in Nat
      BY <1>1, BoundAssumption DEF IInv, TypeOK, ConfigRecord
    <2>1. CASE (\E i \in DOMAIN badges : SocketCall(i)) \/ SocketReturn
               \/ UNCHANGED vars
      <3>1. UNCHANGED <<configVars, run, applied, hardcoded>>
        BY <2>1 DEF SocketCall, SocketReturn, vars, configVars, initVars
      <3>2. config' = config
        BY <3>1 DEF configVars
      <3>3. OneCallInv
        BY <1>1, <3>2
      <3> QED BY <3>1, <3>3 DEF OneCallInv, NotCalled, Copying, Returned,
                  AppliedInv, configVars
    <2>2. CASE RunStep
      <3>1. config' = config
        BY <2>2 DEF RunStep, Start, Configured, FillClients, ClientsFail,
             Fails, InitInstance, StackInit, NicFails, GetMac, DeviceInit,
             DeviceFault, Translate, LinkAdd, RouteAdd, SetInitialized,
             SetRunning, GiveUp, configVars
      <3> QED BY <1>1, <2>2, <3>1, TranslatesCopied
    <2>3. CASE (\E c \in Configs : ConfigIpAddr(c)) \/ ConfigStep
      <3>1. config'.calls \in {config.calls, config.calls + 1}
        <4>1. ASSUME NEW c \in Configs, ConfigIpAddr(c)
              PROVE  config'.calls = config.calls + 1
          BY <4>1 DEF ConfigIpAddr, NoCall
        <4>2. ASSUME NEW f \in Fields, CopyBegin(f)
              PROVE  config'.calls = config.calls
          BY <2>0, <4>2 DEF CopyBegin, ConfigRecord
        <4>3. CASE CopyEnd
          BY <2>0, <4>3 DEF CopyEnd, ConfigRecord
        <4>4. CASE Publish
          BY <4>4 DEF Publish, NoCall
        <4> QED BY <2>3, <4>1, <4>2, <4>3, <4>4 DEF ConfigStep
      <3>2. config.calls <= 1
        BY <1>1, <2>0, <3>1
      <3>3. OneCallInv
        BY <1>1, <3>2
      <3> QED BY <1>1, <2>3, <3>3, CallPhases
    <2> QED BY <1>1, <2>1, <2>2, <2>3 DEF Next
  <1>2. IInv /\ OneCall => SuccessMeansApplied
    <2> SUFFICES ASSUME IInv, OneCallInv, state = "RUNNING",
                        NEW c \in accepted
                 PROVE  applied = AllOf(c)
      BY DEF SuccessMeansApplied
    <2>1. run = "loop" /\ applied \in [Fields -> Strings]
      BY DEF IInv, StateInv, TypeOK
    <2>2. Returned /\ AppliedInv
      BY <2>1 DEF OneCallInv, NotCalled, Copying, AppliedInv
    <2>3. \A f \in Fields : applied[f] = c
      BY <2>1, <2>2 DEF Returned, AppliedInv, EndPhases, Fields
    <2> QED BY <2>1, <2>3 DEF AllOf
  <1>3. IInv /\ OneCall /\ [Next]_vars => OneCall'
    BY <1>1
  <1>4. Init => OneCall
    BY OneCallInit
  <1> HIDE DEF OneCall
  <1> QED BY <1>2, <1>3, <1>4, Invariant, PTL DEF Spec
=============================================================================
