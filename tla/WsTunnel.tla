------------------------------ MODULE WsTunnel ------------------------------
(***************************************************************************)
(* wstunnelclient (src/unnamed/part_003 47-367).  One goroutine runs a     *)
(* select loop over three pubsub subscriptions: GlobalConfig (log levels   *)
(* only, not modelled), DeviceNetworkStatus from nim, and                  *)
(* AppInstanceConfig from zedagent.  Until the first DeviceNetworkStatus   *)
(* is handled the loop does not read AppInstanceConfig.  Every             *)
(* AppInstanceConfig change runs scanAIConfigs, which starts the tunnel    *)
(* over the first management port that has an address and passes          *)
(* TestConnection when some instance asks for a remote console, and stops  *)
(* it when none does.  A status is abstracted to its management ports and  *)
(* the ports with a usable address (one address per port); the ports are  *)
(* scanned in the order PortOrder.  usableAddressCount is only logged and  *)
(* is left out.                                                            *)
(***************************************************************************)
EXTENDS Integers, Sequences, SequencesExt, FiniteSets

CONSTANTS
    Apps,           \* app instance keys
    PortOrder,      \* the ports of every status, in the order of Ports
    Statuses,       \* DeviceNetworkStatus values nim may publish
    MaxEnvSteps     \* bound on publications and reachability changes

Ports == ToSet(PortOrder)

EmptyStatus == [mgmt |-> {}, addr |-> {}]   \* types.DeviceNetworkStatus{}
NoConfig == "none"                          \* no AppInstanceConfig for a key
Console == "console"                        \* RemoteConsole true
NoConsole == "noconsole"                    \* RemoteConsole false
RCValues == {Console, NoConsole, NoConfig}
NoTunnel == "none"                          \* ctx.wstunnelclient == nil

\* A DeviceNetworkStatus publication (del FALSE) or unpublication.
DNSEvent(del, st) == [del |-> del, st |-> st]

VARIABLES
    dnsQ,           \* DeviceNetworkStatus publications not yet handled
    aiQ,            \* AppInstanceConfig changes not yet handled: [key, rc]
    aiPub,          \* zedagent's AppInstanceConfig: key -> RemoteConsole
    aiItems,        \* the subscription's items (sub.GetAll())
    status,         \* *ctx.deviceNetworkStatus
    dnsInitialized,
    running,        \* the wait loop for DNSinitialized has been left
    tunnel,         \* the port the running tunnel client uses, or NoTunnel
    reachable,      \* ports over which TestConnection succeeds
    envSteps

vars == <<dnsQ, aiQ, aiPub, aiItems, status, dnsInitialized, running,
          tunnel, reachable, envSteps>>

-----------------------------------------------------------------------------
(* DeviceNetworkStatus subscription *)

\* handleDNSModify: an equal status is ignored (before DNSinitialized is
\* set); a status marked Testing is adopted like any other.
HandleDNSModify(s) ==
    IF s = status
    THEN UNCHANGED <<status, dnsInitialized>>
    ELSE /\ status' = s
         /\ dnsInitialized' = TRUE

\* handleDNSDelete: forget the status.
HandleDNSDelete ==
    /\ status' = EmptyStatus
    /\ dnsInitialized' = FALSE

\* case change := <-subDeviceNetworkStatus.C, in the wait loop or the
\* main loop; the wait loop is left once DNSinitialized holds after a
\* change, and is never re-entered.
DNSChange ==
    LET ev == Head(dnsQ) IN
    /\ dnsQ # <<>>
    /\ dnsQ' = Tail(dnsQ)
    /\ IF ev.del THEN HandleDNSDelete ELSE HandleDNSModify(ev.st)
    /\ running' = (running \/ dnsInitialized')
    /\ UNCHANGED <<aiQ, aiPub, aiItems, tunnel, reachable, envSteps>>

-----------------------------------------------------------------------------
(* AppInstanceConfig subscription and scanAIConfigs *)

\* isTunnelRequired: some instance asks for a remote console.
TunnelRequired(items) == \E a \in Apps : items[a] = Console

\* The ports scanAIConfigs can connect over, in the order it tries them:
\* management ports with an address (addrCount > 0) whose TestConnection
\* succeeds for some address.
Connectable(s) ==
    SelectSeq(PortOrder,
              LAMBDA p : p \in s.mgmt /\ p \in s.addr /\ p \in reachable)

\* scanAIConfigs: start a tunnel over the first connectable port when one
\* is required and none runs; stop it when none is required.
ScanAIConfigs(items) ==
    IF TunnelRequired(items)
    THEN IF tunnel = NoTunnel /\ Connectable(status) # <<>>
         THEN tunnel' = Head(Connectable(status))
         ELSE UNCHANGED tunnel
    ELSE tunnel' = NoTunnel

\* Mutant: handleAppInstanceConfigDelete does not rescan.
AIChangeNoScanOnDelete ==
    LET ev == Head(aiQ)
        items == [aiItems EXCEPT ![ev.key] = ev.rc]
    IN
    /\ running
    /\ aiQ # <<>>
    /\ aiQ' = Tail(aiQ)
    /\ aiItems' = items
    /\ IF ev.rc = NoConfig THEN UNCHANGED tunnel ELSE ScanAIConfigs(items)
    /\ UNCHANGED <<dnsQ, aiPub, status, dnsInitialized, running, reachable,
                   envSteps>>

\* case change := <-subAppInstanceConfig.C (main loop only): the
\* subscription updates its items, then the modify or delete handler
\* runs scanAIConfigs.
AIChange ==
    LET ev == Head(aiQ)
        items == [aiItems EXCEPT ![ev.key] = ev.rc]
    IN
    /\ running
    /\ aiQ # <<>>
    /\ aiQ' = Tail(aiQ)
    /\ aiItems' = items
    /\ ScanAIConfigs(items)
    /\ UNCHANGED <<dnsQ, aiPub, status, dnsInitialized, running, reachable,
                   envSteps>>

-----------------------------------------------------------------------------
(* Environment: nim, zedagent and the path to the tunnel server *)

EnvStep == envSteps < MaxEnvSteps /\ envSteps' = envSteps + 1

\* nim publishes or unpublishes its DeviceNetworkStatus ("global").
NimPublish(s) ==
    /\ EnvStep
    /\ dnsQ' = Append(dnsQ, DNSEvent(FALSE, s))
    /\ UNCHANGED <<aiQ, aiPub, aiItems, status, dnsInitialized, running,
                   tunnel, reachable>>

NimUnpublish ==
    /\ EnvStep
    /\ dnsQ' = Append(dnsQ, DNSEvent(TRUE, EmptyStatus))
    /\ UNCHANGED <<aiQ, aiPub, aiItems, status, dnsInitialized, running,
                   tunnel, reachable>>

\* zedagent publishes an instance with or without RemoteConsole, or
\* unpublishes it.
ZedagentPublish(a, rc) ==
    /\ EnvStep
    /\ aiPub[a] # rc
    /\ aiPub' = [aiPub EXCEPT ![a] = rc]
    /\ aiQ' = Append(aiQ, [key |-> a, rc |-> rc])
    /\ UNCHANGED <<dnsQ, aiItems, status, dnsInitialized, running, tunnel,
                   reachable>>

\* The tunnel server becomes reachable or unreachable over port p.
ReachabilityChange(p) ==
    /\ EnvStep
    /\ reachable' = SymDiff(reachable, {p})
    /\ UNCHANGED <<dnsQ, aiQ, aiPub, aiItems, status, dnsInitialized,
                   running, tunnel>>

Init ==
    /\ dnsQ = <<>>
    /\ aiQ = <<>>
    /\ aiPub = [a \in Apps |-> NoConfig]
    /\ aiItems = [a \in Apps |-> NoConfig]
    /\ status = EmptyStatus
    /\ dnsInitialized = FALSE
    /\ running = FALSE
    /\ tunnel = NoTunnel
    /\ reachable \in SUBSET Ports
    /\ envSteps = 0

Next ==
    \/ DNSChange
    \/ AIChange
    \/ \E s \in Statuses : NimPublish(s)
    \/ NimUnpublish
    \/ \E a \in Apps, rc \in RCValues : ZedagentPublish(a, rc)
    \/ \E p \in Ports : ReachabilityChange(p)

\* The loop goroutine never stops selecting.
Fairness == WF_vars(DNSChange) /\ WF_vars(AIChange)

Spec == Init /\ [][Next]_vars /\ Fairness

-----------------------------------------------------------------------------
(* Properties *)

Quiescent == dnsQ = <<>> /\ aiQ = <<>>

\* Once every publication is handled, a tunnel client runs only while
\* zedagent still has an instance asking for a remote console: both
\* AppInstanceConfig handlers rescan, and scanAIConfigs stops the client.
NoTunnelWithoutConsole ==
    Quiescent => (tunnel # NoTunnel => TunnelRequired(aiPub))

=============================================================================
