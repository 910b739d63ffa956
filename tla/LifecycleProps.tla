--------------------------- MODULE LifecycleProps --------------------------
(***************************************************************************)
(* What the life cycle of the component should guarantee.                  *)
(***************************************************************************)
EXTENDS Lifecycle

\* A socket call that passed CHECK_IS_RUNNING finds the instance, picoTCP, a
\* configured NIC and its own entry in the client table, whatever badges the
\* assembly has given out and whatever step of the initialization failed.
ServedOnlyWhenReady ==
    rpc.pc = "serve" =>
        /\ instance
        /\ picoContext
        /\ nic = "up"
        /\ rpc.badge \in clientIds

\* What a client may see when it polls getStatus(): the state only goes
\* forward, never skips INITIALIZED, and FATAL_ERROR and RUNNING are final.
StateOrder ==
    [][state' # state =>
          <<state, state'>> \in {<<"UNINITIALIZED", "INITIALIZED">>,
                                 <<"INITIALIZED", "RUNNING">>,
                                 <<"UNINITIALIZED", "FATAL_ERROR">>}]_vars

\* if_NetworkStack_PicoTcp_Config.camkes:29: "Configures the IP stack.
\* @retval OS_SUCCESS Operation was successful."  When configIpAddr() was
\* called once, a running stack uses the configuration for which it returned
\* OS_SUCCESS, all of it and nothing else.  (A second call that comes before
\* the state changes succeeds, too, and changes the copy under the control
\* thread's hands.)
SuccessMeansApplied ==
    state = "RUNNING" /\ config.calls <= 1 =>
        \A c \in accepted : applied = AllOf(c)

\* The control thread and a call under way are scheduled.
FairSpec == Spec /\ WF_vars(RunStep) /\ WF_vars(ConfigStep)

\* Once the stack has a configuration, its clients eventually learn whether
\* it is running or broken, unless the control thread faulted over a picoTCP
\* context it never got.
ConfigurationDecided ==
    pIpAddrConfig # "null" ~>
        state \in {"RUNNING", "FATAL_ERROR"} \/ run = "fault"
=============================================================================
