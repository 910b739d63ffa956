----------------------------- MODULE Lifecycle -----------------------------
(***************************************************************************)
(* The life of the component until it serves its clients: three threads,   *)
(* which share the component state, the IP configuration and the instance  *)
(* without a lock.                                                         *)
(*                                                                         *)
(*  - The control thread runs run(): it waits for a configuration,         *)
(*    initializes the tables, picoTCP and the NIC, and enters the loop.    *)
(*  - The configuration thread serves configIpAddr().                      *)
(*  - The socket RPC thread serves the clients' calls from the start;      *)
(*    CHECK_IS_RUNNING is all that keeps an early call out.                *)
(*                                                                         *)
(* A string of the configuration is represented by the configuration it    *)
(* belongs to.  The static variables are written in program order; nothing *)
(* in the code forces a compiler to keep it.                               *)
(***************************************************************************)
EXTENDS Integers, Sequences

CONSTANTS
    Configs,       \* the configurations a user passes to configIpAddr()
    Valid,         \* those whose addresses pass isValidIp4Address()
    NoConfig,      \* zeroes
    Torn,          \* a string that was read while it was being written
    MaxClients,    \* MAX_CLIENTS_NUM
    ConfigClients, \* ARRAY_ELEMENTS(networkStack_config.clients)
    BadgeLists,    \* networkStack_rpc_enumerate_badge() of the assemblies
    MaxCalls       \* bound: how often configIpAddr() gets as far as copying

ASSUME ConfigAssumption ==
    Valid \subseteq Configs /\ NoConfig \notin Configs /\ Torn \notin Configs
ASSUME BadgeAssumption == BadgeLists \subseteq Seq(Nat)
ASSUME BoundAssumption ==
    MaxClients \in Nat /\ ConfigClients \in Nat /\ MaxCalls \in Nat

VARIABLES
    state,          \* currentState
    ipAddrConfig,   \* the static copy of the configuration
    pIpAddrConfig,  \* where the configuration is: "null", "static", "copied"
    hardcoded,      \* NetworkStack_PicoTcp_USE_HARDCODED_IPADDR
    badges,         \* the badges of the connected clients
    clientIds,      \* the clientIds in the client table
    instance,       \* has NetworkStack_init() set the instance?
    picoContext,    \* pico_stack_ctx # NULL
    nic,            \* os_nic: "zero", "device", "up"
    applied,        \* the addresses the NIC has got
    run,            \* the control thread's program counter
    config,         \* the configuration thread
    rpc,            \* the socket RPC thread
    accepted        \* history: what configIpAddr() returned OS_SUCCESS for

buildVars == <<hardcoded, badges>>
initVars == <<clientIds, instance, picoContext, nic, applied>>
configVars == <<ipAddrConfig, pIpAddrConfig, config, accepted>>
vars == <<state, ipAddrConfig, pIpAddrConfig, buildVars, clientIds, instance,
          picoContext, nic, applied, run, config, rpc, accepted>>

Fields == {"dev_addr", "subnet_mask", "gateway_addr"}
Strings == Configs \cup {NoConfig, Torn}
MinBadgeId == 101

NoCall == [pc |-> "idle", arg |-> NoConfig, todo |-> {}, field |-> "none",
           calls |-> 0]

ConfigRecord ==
    [pc    : {"idle", "copy"},
     arg   : Configs \cup {NoConfig},
     todo  : SUBSET Fields,
     field : Fields \cup {"none"},
     calls : 0..MaxCalls]

\* The type invariant.
TypeOK ==
    /\ state \in {"UNINITIALIZED", "INITIALIZED", "RUNNING", "FATAL_ERROR"}
    /\ ipAddrConfig \in [Fields -> Strings]
    /\ pIpAddrConfig \in {"null", "static", "copied"}
    /\ hardcoded \in BOOLEAN
    /\ badges \in BadgeLists
    /\ clientIds \in SUBSET Nat
    /\ instance \in BOOLEAN
    /\ picoContext \in BOOLEAN
    /\ nic \in {"zero", "device", "up"}
    /\ applied \in [Fields -> Strings]
    /\ run \in {"start", "poll", "clients", "init", "stack", "mac", "device",
                "dev_addr", "subnet_mask", "gateway_addr", "link", "route",
                "initialized", "running", "loop", "failed", "exited", "fault"}
    /\ config \in ConfigRecord
    /\ rpc \in [pc : {"idle", "serve"}, badge : Nat]
    /\ accepted \in SUBSET Configs

AllOf(c) == [f \in Fields |-> c]

Init ==
    /\ state = "UNINITIALIZED"
    /\ ipAddrConfig = AllOf(NoConfig)
    /\ pIpAddrConfig = "null"
    /\ hardcoded \in BOOLEAN
    /\ badges \in BadgeLists
    /\ clientIds = {}
    /\ instance = FALSE
    /\ picoContext = FALSE
    /\ nic = "zero"
    /\ applied = AllOf(NoConfig)
    /\ run = "start"
    /\ config = NoCall
    /\ rpc = [pc |-> "idle", badge |-> 0]
    /\ accepted = {}

-----------------------------------------------------------------------------
(* The control thread: run().                                              *)

Start ==
    /\ run = "start"
    /\ state' = "UNINITIALIZED"
    /\ pIpAddrConfig' = IF hardcoded THEN "static" ELSE pIpAddrConfig
    /\ run' = "poll"
    /\ UNCHANGED <<ipAddrConfig, buildVars, initVars, config, rpc, accepted>>

\* while (NULL == pIpAddrConfig): the loop ends.
Configured ==
    /\ run = "poll"
    /\ pIpAddrConfig # "null"
    /\ run' = "clients"
    /\ UNCHANGED <<state, configVars, buildVars, initVars, rpc>>

\* A step of the initialization returns an error.
Fails ==
    /\ run' = "failed"
    /\ UNCHANGED <<state, configVars, buildVars, initVars, rpc>>

ClientId(i) == MinBadgeId + i - 1

\* Fault: the last badge of the range is not accepted, the next one is.
BadgesFitOffByOne ==
    \A i \in DOMAIN badges :
        badges[i] > MinBadgeId /\ badges[i] <= MinBadgeId + Len(badges)

\* Every client has one of the badges MIN_BADGE_ID, MIN_BADGE_ID + 1, ...
BadgesFit ==
    \A i \in DOMAIN badges :
        badges[i] >= MinBadgeId /\ badges[i] < MinBadgeId + Len(badges)

ClientsFit == Len(badges) <= MaxClients /\ Len(badges) <= ConfigClients

\* initializeNetworkStack(): the client table.  An entry gets its clientId
\* from its position, not from the badge at that position.
FillClients ==
    /\ run = "clients"
    /\ ClientsFit /\ BadgesFit
    /\ clientIds' = {ClientId(i) : i \in DOMAIN badges}
    /\ run' = "init"
    /\ UNCHANGED <<state, configVars, buildVars, instance, picoContext, nic,
                   applied, rpc>>

ClientsFail ==
    /\ run = "clients"
    /\ ~(ClientsFit /\ BadgesFit)
    /\ Fails

\* NetworkStack_init(): the instance, up to the call of stack_init().
InitInstance ==
    /\ run = "init"
    /\ instance' = TRUE
    /\ run' = "stack"
    /\ UNCHANGED <<state, configVars, buildVars, clientIds, picoContext, nic,
                   applied, rpc>>

\* stack_init(): its result is ignored.
StackInit ==
    /\ run = "stack"
    /\ picoContext' \in BOOLEAN
    /\ run' = "mac"
    /\ UNCHANGED <<state, configVars, buildVars, clientIds, instance, nic,
                   applied, rpc>>

-----------------------------------------------------------------------------
(* pico_nic_initialize().                                                  *)

\* An error: nic_destroy() clears the device, NetworkStack_init() passes the
\* error on.
NicFails ==
    /\ run \in {"mac", "device", "dev_addr", "subnet_mask", "gateway_addr",
                "link", "route"}
    /\ nic' = "zero"
    /\ run' = "failed"
    /\ UNCHANGED <<state, configVars, buildVars, clientIds, instance,
                   picoContext, applied, rpc>>

\* nic_dev_get_mac_address()
GetMac ==
    /\ run = "mac"
    /\ run' = "device"
    /\ UNCHANGED <<state, configVars, buildVars, initVars, rpc>>

\* pico_device_init() with a picoTCP context.
DeviceInit ==
    /\ run = "device"
    /\ picoContext
    /\ nic' = "device"
    /\ run' = "dev_addr"
    /\ UNCHANGED <<state, configVars, buildVars, clientIds, instance,
                   picoContext, applied, rpc>>

\* Without one it dereferences NULL.
DeviceFault ==
    /\ run = "device"
    /\ ~picoContext
    /\ run' = "fault"
    /\ UNCHANGED <<state, configVars, buildVars, initVars, rpc>>

\* What a read of one string of the configuration may find: while another
\* string is copied over it, any mixture of the two.  The strings of a
\* configuration set at compile time are not told apart.
Found(f) ==
    IF pIpAddrConfig = "static" THEN {NoConfig}
    ELSE IF config.field = f /\ config.arg # ipAddrConfig[f]
    THEN {ipAddrConfig[f], config.arg, Torn}
    ELSE {ipAddrConfig[f]}

\* pico_string_to_ipv4() of one string.
Translate(f, next) ==
    /\ run = f
    /\ \E s \in Found(f) : applied' = [applied EXCEPT ![f] = s]
    /\ run' = next
    /\ UNCHANGED <<state, configVars, buildVars, clientIds, instance,
                   picoContext, nic, rpc>>

\* pico_ipv4_link_add()
LinkAdd ==
    /\ run = "link"
    /\ run' = "route"
    /\ UNCHANGED <<state, configVars, buildVars, initVars, rpc>>

\* pico_ipv4_route_add(), and OS_SUCCESS up to run().
RouteAdd ==
    /\ run = "route"
    /\ nic' = "up"
    /\ run' = "initialized"
    /\ UNCHANGED <<state, configVars, buildVars, clientIds, instance,
                   picoContext, applied, rpc>>

-----------------------------------------------------------------------------
(* The end of run().                                                       *)

\* Fault: the state before RUNNING is left out.
SetInitializedSkipped ==
    /\ run = "initialized"
    /\ run' = "running"
    /\ UNCHANGED <<state, configVars, buildVars, initVars, rpc>>

SetInitialized ==
    /\ run = "initialized"
    /\ state' = "INITIALIZED"
    /\ run' = "running"
    /\ UNCHANGED <<configVars, buildVars, initVars, rpc>>

\* From here on NetworkStack_run() loops; it has no way out.
SetRunning ==
    /\ run = "running"
    /\ state' = "RUNNING"
    /\ run' = "loop"
    /\ UNCHANGED <<configVars, buildVars, initVars, rpc>>

\* Fault: an error leaves the state as it is.
GiveUpSilent ==
    /\ run = "failed"
    /\ run' = "exited"
    /\ UNCHANGED <<state, configVars, buildVars, initVars, rpc>>

\* Fault: the error code is stored as the state.
GiveUpError ==
    /\ run = "failed"
    /\ state' = "OS_ERROR_GENERIC"
    /\ run' = "exited"
    /\ UNCHANGED <<configVars, buildVars, initVars, rpc>>

\* err: the thread ends; the RPC threads go on.
GiveUp ==
    /\ run = "failed"
    /\ state' = "FATAL_ERROR"
    /\ run' = "exited"
    /\ UNCHANGED <<configVars, buildVars, initVars, rpc>>

-----------------------------------------------------------------------------
(* The configuration thread: configIpAddr().                               *)

\* The state is tested and the addresses are checked.  A call that fails one
\* of the tests changes nothing and has no action.
ConfigIpAddr(c) ==
    /\ ~hardcoded
    /\ config.pc = "idle"
    /\ config.calls < MaxCalls
    /\ state = "UNINITIALIZED"
    /\ c \in Valid
    /\ config' = [NoCall EXCEPT !.pc = "copy", !.arg = c, !.todo = Fields,
                                !.calls = config.calls + 1]
    /\ UNCHANGED <<state, ipAddrConfig, pIpAddrConfig, buildVars, initVars, run,
                   rpc, accepted>>

\* memcpy(), string by string in any order: begin ...
CopyBegin(f) ==
    /\ config.pc = "copy"
    /\ config.field = "none"
    /\ f \in config.todo
    /\ config' = [config EXCEPT !.field = f, !.todo = @ \ {f}]
    /\ UNCHANGED <<state, ipAddrConfig, pIpAddrConfig, buildVars, initVars, run,
                   rpc, accepted>>

\* ... and end.
CopyEnd ==
    /\ config.pc = "copy"
    /\ config.field # "none"
    /\ ipAddrConfig' = [ipAddrConfig EXCEPT ![config.field] = config.arg]
    /\ config' = [config EXCEPT !.field = "none"]
    /\ UNCHANGED <<state, pIpAddrConfig, buildVars, initVars, run, rpc, accepted>>

\* Fault: the pointer is set before the last string has been copied.
PublishEarly ==
    /\ config.pc = "copy"
    /\ config.todo = {}
    /\ pIpAddrConfig' = "copied"
    /\ accepted' = accepted \cup {config.arg}
    /\ config' = IF config.field = "none"
                 THEN [NoCall EXCEPT !.calls = config.calls] ELSE config
    /\ UNCHANGED <<state, ipAddrConfig, buildVars, initVars, run, rpc>>

\* The pointer is set, and OS_SUCCESS returned.
Publish ==
    /\ config.pc = "copy"
    /\ config.todo = {} /\ config.field = "none"
    /\ pIpAddrConfig' = "copied"
    /\ accepted' = accepted \cup {config.arg}
    /\ config' = [NoCall EXCEPT !.calls = config.calls]
    /\ UNCHANGED <<state, ipAddrConfig, buildVars, initVars, run, rpc>>

-----------------------------------------------------------------------------
(* The socket RPC thread.                                                  *)

\* CHECK_IS_RUNNING of a call by the client with the i-th badge.
SocketCall(i) ==
    /\ rpc.pc = "idle"
    /\ state = "RUNNING"
    /\ rpc' = [pc |-> "serve", badge |-> badges[i]]
    /\ UNCHANGED <<state, configVars, buildVars, initVars, run>>

SocketReturn ==
    /\ rpc.pc = "serve"
    /\ rpc' = [rpc EXCEPT !.pc = "idle"]
    /\ UNCHANGED <<state, configVars, buildVars, initVars, run>>

-----------------------------------------------------------------------------
RunStep ==
    \/ Start \/ Configured \/ FillClients \/ ClientsFail \/ InitInstance
    \/ StackInit \/ NicFails \/ GetMac \/ DeviceInit \/ DeviceFault
    \/ Translate("dev_addr", "subnet_mask")
    \/ Translate("subnet_mask", "gateway_addr")
    \/ Translate("gateway_addr", "link")
    \/ LinkAdd \/ RouteAdd \/ SetInitialized \/ SetRunning \/ GiveUp

ConfigStep == (\E f \in Fields : CopyBegin(f)) \/ CopyEnd \/ Publish

Next ==
    \/ RunStep
    \/ \E c \in Configs : ConfigIpAddr(c)
    \/ ConfigStep
    \/ \E i \in DOMAIN badges : SocketCall(i)
    \/ SocketReturn

Spec == Init /\ [][Next]_vars
=============================================================================
