-------------------------------- MODULE Diag --------------------------------
(***************************************************************************)
(* diag (src/cmd/ledmanager/ledmanager.go 728-1487): a single goroutine    *)
(* selects over three subscriptions, the LedBlinkCounter, nim's            *)
(* DeviceNetworkStatus and its DevicePortConfigList.  A handler that       *)
(* changes the context calls printOutput, which does nothing until all     *)
(* three have delivered; it then tests every management port with an       *)
(* address: a DNS lookup of the controller, a ping, and a GET of the       *)
(* config, each GET retried up to maxRetries times.  A failed ping         *)
(* switches ctx.serverName to www.google.com for two more pings and then   *)
(* restores it and the shared TLS configuration.  Without -f the loop is   *)
(* left after the first change that completes the three subscriptions.    *)
(* Output text is left out: a report is the context it describes, the     *)
(* per-port results and the final verdict.  A network call's result is a   *)
(* nondeterministic choice.                                                *)
(***************************************************************************)
EXTENDS Integers, Sequences

CONSTANTS
    PortNames,          \* interface names
    Statuses,           \* DeviceNetworkStatus values nim may publish
    DPCLists,           \* DevicePortConfigList values nim may publish
    LedValues,          \* blink counters the agents write
    Controller,         \* ctx.serverName read from /config/server
    Google,             \* "www.google.com"
    MaxRetries,         \* maxRetries
    SimulateDnsFailure, \* -D
    SimulatePingFailure,\* -P
    MaxEnvSteps         \* bound on publications

\* types.DeviceNetworkStatus{}: a status is [testing, ports], each port a
\* record [name, mgmt, ip] (mgmt: IsMgmtPort or IsFreeMgmtPort; ip: an
\* address that is not link-local).
EmptyStatus == [testing |-> FALSE, ports |-> <<>>]
EmptyDPCList == "emptyList"             \* types.DevicePortConfigList{}
LedDeleted == -1                        \* ledconfig unpublished
\* Before the first report; ctx.ledCounter never takes LedDeleted.
NoReport == [bc |-> LedDeleted, dns |-> EmptyStatus, dpc |-> EmptyDPCList]
NoVerdict == "none"
NotTested == "notTested"
RequestPcs == {"ping", "google1", "google2", "uuid"}

\* A ledconfig publication is a counter or LedDeleted; a
\* DeviceNetworkStatus publication is [del, st].
DNSEvent(del, st) == [del |-> del, st |-> st]

\* The TLS configuration zedcloud.GetTlsConfig builds for a server name;
\* tryPing sets InsecureSkipVerify on it for a URL other than the
\* controller's.
TLSConfig(name, insecure) == [name |-> name, insecure |-> insecure]

VARIABLES
    bcQ, dnsQ, dpcQ,    \* subscription changes not yet received
    gotBC, gotDNS, gotDPCList,
    forever,            \* -f
    ledCounter,         \* ctx.ledCounter
    status,             \* *ctx.DeviceNetworkStatus
    dpcList,            \* *ctx.DevicePortConfigList
    pc,                 \* "loop", "exit", or where printOutput is
    portIdx,            \* the port printOutput is at
    retryCount,         \* of the GET in progress
    serverName,         \* ctx.serverName
    tls,                \* ctx.zedcloudCtx.TlsConfig
    mgmtPorts, passPorts,
    results,            \* port name -> outcome of its tests
    verdict,            \* the final line of the last report
    reported,           \* the context the last report was printed for
    envSteps

vars == <<bcQ, dnsQ, dpcQ, gotBC, gotDNS, gotDPCList, forever, ledCounter,
          status, dpcList, pc, portIdx, retryCount, serverName, tls,
          mgmtPorts, passPorts, results, verdict, reported, envSteps>>

diagVars == <<gotBC, gotDNS, gotDPCList, forever, ledCounter, status,
              dpcList, pc, portIdx, retryCount, serverName, tls, mgmtPorts,
              passPorts, results, verdict, reported>>

\* What printOutput leaves alone: the subscriptions and the context.
loopVars == <<bcQ, dnsQ, dpcQ, envSteps, gotBC, gotDNS, gotDPCList, forever,
              ledCounter, status, dpcList>>

Current == [bc |-> ledCounter, dns |-> status, dpc |-> dpcList]

-----------------------------------------------------------------------------
(* The select loop and the handlers *)

\* After the select: without -f, leave once all three have delivered.
AfterSelect == IF ~forever /\ gotBC' /\ gotDNS' /\ gotDPCList'
               THEN "exit" ELSE "loop"

\* A handler leaves the context (bc, st, dpc); when it changed it, it
\* calls printOutput, which returns at once unless all three have
\* delivered.
ProcessChange(bc, st, dpc, changed) ==
    /\ ledCounter' = bc
    /\ status' = st
    /\ dpcList' = dpc
    /\ IF changed /\ gotBC' /\ gotDNS' /\ gotDPCList'
       THEN /\ pc' = "ports"
            /\ portIdx' = 1
            /\ mgmtPorts' = 0
            /\ passPorts' = 0
            /\ results' = [p \in PortNames |-> NotTested]
            /\ reported' = [bc |-> bc, dns |-> st, dpc |-> dpc]
       ELSE /\ pc' = AfterSelect
            /\ UNCHANGED <<portIdx, mgmtPorts, passPorts, results, reported>>
    /\ UNCHANGED <<retryCount, serverName, tls, verdict>>

\* handleLedBlinkModify: an unchanged counter is suppressed.  The
\* subscription has no delete handler.
HandleLedBlink(ev) ==
    IF ev = LedDeleted
    THEN ProcessChange(ledCounter, status, dpcList, FALSE)
    ELSE ProcessChange(ev, status, dpcList, ev # ledCounter)

\* handleDNSModify ignores a Testing status and an unchanged one;
\* handleDNSDelete resets the status and always prints.
HandleDNS(ev) ==
    IF ev.del
    THEN ProcessChange(ledCounter, EmptyStatus, dpcList, TRUE)
    ELSE IF ev.st.testing \/ ev.st = status
         THEN ProcessChange(ledCounter, status, dpcList, FALSE)
         ELSE ProcessChange(ledCounter, ev.st, dpcList, TRUE)

\* handleDPCModify: an unchanged list is suppressed.
HandleDPCModify(l) == ProcessChange(ledCounter, status, l, l # dpcList)

BCChange ==
    /\ pc = "loop"
    /\ bcQ # <<>>
    /\ bcQ' = Tail(bcQ)
    /\ gotBC' = TRUE
    /\ UNCHANGED <<dnsQ, dpcQ, gotDNS, gotDPCList, forever, envSteps>>
    /\ HandleLedBlink(Head(bcQ))

DNSChange ==
    /\ pc = "loop"
    /\ dnsQ # <<>>
    /\ dnsQ' = Tail(dnsQ)
    /\ gotDNS' = TRUE
    /\ UNCHANGED <<bcQ, dpcQ, gotBC, gotDPCList, forever, envSteps>>
    /\ HandleDNS(Head(dnsQ))

DPCChange ==
    /\ pc = "loop"
    /\ dpcQ # <<>>
    /\ dpcQ' = Tail(dpcQ)
    /\ gotDPCList' = TRUE
    /\ UNCHANGED <<bcQ, dnsQ, gotBC, gotDNS, forever, envSteps>>
    /\ HandleDPCModify(Head(dpcQ))

-----------------------------------------------------------------------------
(* printOutput's loop over the status's ports *)

Port == status.ports[portIdx]

\* The port is done with the given outcome; go on with the next one.
PortDone(outcome) ==
    /\ results' = [results EXCEPT ![Port.name] = outcome]
    /\ portIdx' = portIdx + 1
    /\ pc' = "ports"
    /\ retryCount' = 0

\* tryLookupIP: net.LookupIP(ctx.serverName) may fail or return nothing;
\* -D turns a success into a failure.
LookupResult(ok) == ok /\ ~SimulateDnsFailure

\* Mutant: a management port is counted only once it has an address.
TestPortCountsAddressed ==
    /\ pc = "ports"
    /\ portIdx <= Len(status.ports)
    /\ mgmtPorts' = mgmtPorts + (IF Port.mgmt /\ Port.ip THEN 1 ELSE 0)
    /\ IF ~Port.mgmt \/ ~Port.ip
       THEN PortDone(IF Port.mgmt THEN "noIP" ELSE "notMgmt")
       ELSE \E ok \in BOOLEAN :
              IF LookupResult(ok)
              THEN pc' = "ping" /\ retryCount' = 0
                   /\ UNCHANGED <<results, portIdx>>
              ELSE PortDone("dnsFail")
    /\ UNCHANGED <<passPorts, serverName, tls, verdict, reported,
                   loopVars>>

\* One iteration of the port loop up to the first ping: count management
\* ports, skip a port for application use or without an address, and do
\* the DNS lookup.
TestPort ==
    /\ pc = "ports"
    /\ portIdx <= Len(status.ports)
    /\ mgmtPorts' = mgmtPorts + (IF Port.mgmt THEN 1 ELSE 0)
    /\ IF ~Port.mgmt \/ ~Port.ip
       THEN PortDone(IF Port.mgmt THEN "noIP" ELSE "notMgmt")
       ELSE \E ok \in BOOLEAN :
              IF LookupResult(ok)
              THEN pc' = "ping" /\ retryCount' = 0
                   /\ UNCHANGED <<results, portIdx>>
              ELSE PortDone("dnsFail")
    /\ UNCHANGED <<passPorts, serverName, tls, verdict, reported,
                   loopVars>>

\* The GET loop of tryPing and tryGetUuid: after a failed myGet,
\* retryCount grows; past maxRetries (unless it is 0) the call fails.
Exhausted == MaxRetries # 0 /\ retryCount + 1 > MaxRetries

RetryGet ==
    /\ pc \in RequestPcs
    /\ ~Exhausted
    /\ retryCount' = retryCount + 1
    /\ UNCHANGED <<pc, portIdx, serverName, tls, mgmtPorts, passPorts,
                   results, verdict, reported,
                   loopVars>>

\* The call returns: myGet got StatusOK (ok), or the last retry failed.
\* -P turns a ping that got through into a failure.
\* Mutant: the GET loop never gives up after maxRetries failures.
CallEndsNoGiveUp(ok) == ok

CallEnds(ok) == ok \/ Exhausted
PingResult(ok) == ok /\ ~SimulatePingFailure

\* tryPing to the controller returns.  On failure printOutput saves the
\* server name, sets ctx.serverName to www.google.com, and tryPing of
\* http://www.google.com sets the shared TLS configuration for it,
\* insecure.
PingDone ==
    /\ pc = "ping"
    /\ \E ok \in BOOLEAN :
         /\ CallEnds(ok)
         /\ retryCount' = 0
         /\ IF PingResult(ok)
            THEN pc' = "uuid" /\ UNCHANGED <<serverName, tls>>
            ELSE /\ pc' = "google1"
                 /\ serverName' = Google
                 /\ tls' = TLSConfig(Google, TRUE)
    /\ UNCHANGED <<portIdx, mgmtPorts, passPorts, results, verdict, reported,
                   loopVars>>

\* tryPing of http://www.google.com returns, whatever its result; tryPing
\* of https://www.google.com sets the TLS configuration again.
Google1Done ==
    /\ pc = "google1"
    /\ \E ok \in BOOLEAN : CallEnds(ok)
    /\ pc' = "google2"
    /\ retryCount' = 0
    /\ tls' = TLSConfig(serverName, TRUE)
    /\ UNCHANGED <<portIdx, serverName, mgmtPorts, passPorts, results,
                   verdict, reported,
                   loopVars>>

\* Mutant: the TLS configuration is rebuilt before the server name is
\* restored.
RestoreTLSFirst ==
    /\ pc = "google2"
    /\ \E ok \in BOOLEAN : CallEnds(ok)
    /\ tls' = TLSConfig(serverName, FALSE)
    /\ serverName' = Controller
    /\ PortDone("pingFail")
    /\ UNCHANGED <<mgmtPorts, passPorts, verdict, reported,
                   loopVars>>

\* tryPing of https://www.google.com returns; printOutput restores the
\* server name, then rebuilds ctx.zedcloudCtx.TlsConfig for it, and goes
\* on with the next port.
Google2Done ==
    /\ pc = "google2"
    /\ \E ok \in BOOLEAN : CallEnds(ok)
    /\ serverName' = Controller
    /\ tls' = TLSConfig(serverName', FALSE)
    /\ PortDone("pingFail")
    /\ UNCHANGED <<mgmtPorts, passPorts, verdict, reported,
                   loopVars>>

\* tryGetUuid returns; a port that gets its config passes.  (Only
\* management ports get here, so passOtherPorts stays 0.)
UuidDone ==
    /\ pc = "uuid"
    /\ \E ok \in BOOLEAN :
         /\ CallEnds(ok)
         /\ passPorts' = passPorts + (IF ok THEN 1 ELSE 0)
         /\ PortDone(IF ok THEN "pass" ELSE "uuidFail")
    /\ UNCHANGED <<serverName, tls, mgmtPorts, verdict, reported,
                   loopVars>>

\* The summary after the loop; printOutput returns to the handler, and
\* the loop goes on or, without -f, is left.
Verdict ==
    /\ pc = "ports"
    /\ portIdx > Len(status.ports)
    /\ verdict' = CASE mgmtPorts = 0         -> "noMgmt"
                    [] passPorts = mgmtPorts -> "pass"
                    [] OTHER                 -> "partial"
    /\ pc' = IF ~forever THEN "exit" ELSE "loop"
    /\ UNCHANGED <<portIdx, retryCount, serverName, tls, mgmtPorts,
                   passPorts, results, reported,
                   loopVars>>

-----------------------------------------------------------------------------
(* Environment: the agents' ledconfig and nim's publications *)

EnvStep == envSteps < MaxEnvSteps /\ envSteps' = envSteps + 1

LedWrite(v) ==
    /\ EnvStep
    /\ bcQ' = Append(bcQ, v)
    /\ UNCHANGED <<dnsQ, dpcQ, diagVars>>

LedDelete ==
    /\ EnvStep
    /\ bcQ' = Append(bcQ, LedDeleted)
    /\ UNCHANGED <<dnsQ, dpcQ, diagVars>>

NimPublishDNS(s) ==
    /\ EnvStep
    /\ dnsQ' = Append(dnsQ, DNSEvent(FALSE, s))
    /\ UNCHANGED <<bcQ, dpcQ, diagVars>>

NimUnpublishDNS ==
    /\ EnvStep
    /\ dnsQ' = Append(dnsQ, DNSEvent(TRUE, EmptyStatus))
    /\ UNCHANGED <<bcQ, dpcQ, diagVars>>

NimPublishDPC(l) ==
    /\ EnvStep
    /\ dpcQ' = Append(dpcQ, l)
    /\ UNCHANGED <<bcQ, dnsQ, diagVars>>

\* Run, up to the loop: an empty context, the controller's name and its
\* TLS configuration, the three subscriptions activated.
Init ==
    /\ bcQ = <<>> /\ dnsQ = <<>> /\ dpcQ = <<>>
    /\ gotBC = FALSE /\ gotDNS = FALSE /\ gotDPCList = FALSE
    /\ forever \in BOOLEAN
    /\ ledCounter = 0
    /\ status = EmptyStatus
    /\ dpcList = EmptyDPCList
    /\ pc = "loop"
    /\ portIdx = 1
    /\ retryCount = 0
    /\ serverName = Controller
    /\ tls = TLSConfig(Controller, FALSE)
    /\ mgmtPorts = 0 /\ passPorts = 0
    /\ results = [p \in PortNames |-> NotTested]
    /\ verdict = NoVerdict
    /\ reported = NoReport
    /\ envSteps = 0

\* The select of Run, the steps of printOutput, and the environment.
Next ==
    \/ BCChange \/ DNSChange \/ DPCChange
    \/ TestPort \/ RetryGet \/ PingDone \/ Google1Done \/ Google2Done
    \/ UuidDone \/ Verdict
    \/ \E v \in LedValues : LedWrite(v)
    \/ LedDelete
    \/ \E s \in Statuses : NimPublishDNS(s)
    \/ NimUnpublishDNS
    \/ \E l \in DPCLists : NimPublishDPC(l)

\* A call to the controller that returns a failure: SendOnIntf times out
\* after 15 s, so a call returns even when nothing answers.
PingFails == PingDone /\ pc' = "google1"
UuidFails == UuidDone /\ passPorts' = passPorts

\* diag's goroutine keeps running; nothing is assumed of the publishers,
\* and nothing of the network: a call is only assumed to return, and
\* the controller may never answer.
Fairness ==
    /\ WF_vars(BCChange) /\ WF_vars(DNSChange) /\ WF_vars(DPCChange)
    /\ WF_vars(TestPort \/ RetryGet \/ PingFails \/ Google1Done
               \/ Google2Done \/ UuidFails \/ Verdict)

Spec == Init /\ [][Next]_vars /\ Fairness

-----------------------------------------------------------------------------
(* Properties *)

MgmtNames(st) == {st.ports[i].name : i \in {j \in DOMAIN st.ports : st.ports[j].mgmt}}

\* Every DNS lookup, ping and GET of the config addressed to the
\* controller uses the controller's name and a TLS configuration that
\* verifies it: the google fallback of an earlier port, which rewrites
\* ctx.serverName and the shared ctx.zedcloudCtx.TlsConfig, is undone
\* before the next port is tested.
ControllerRequestsVerified ==
    pc \notin {"google1", "google2"}
        => /\ serverName = Controller
           /\ tls = TLSConfig(Controller, FALSE)

\* The summary line of a finished report says PASS exactly when the
\* status it was printed for has management ports and every one of them
\* passed the lookup, the ping and the GET; it says there are none exactly
\* when there are none.
VerdictMatchesResults ==
    pc \in {"loop", "exit"} /\ verdict # NoVerdict
        => LET mg == MgmtNames(reported.dns) IN
           /\ verdict = "pass" <=> mg # {} /\ \A n \in mg : results[n] = "pass"
           /\ verdict = "noMgmt" <=> mg = {}

\* Without -f diag prints a report of the state it leaves with: the
\* change that completes the three subscriptions ends the loop only after
\* printOutput has described it.
ExitsWithReport == pc = "exit" => reported = Current

\* Every report that printOutput starts is finished: the loop over the
\* ports ends, and each GET of tryPing and tryGetUuid gives up once
\* retryCount exceeds maxRetries (maxRetries is 5, not 0), so the goroutine
\* returns to the select of Run, or, without -f, leaves it.  A port whose
\* controller never answers delays the report but does not stall it.
ReportFinishes == pc = "ports" ~> pc \in {"loop", "exit"}

=============================================================================
