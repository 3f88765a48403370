# TLA+ models of go-provision's network management

This directory holds TLA+ models of the network-management agents in `src/`. Each one is checked with TLC. The centre of the project is **nim**, the network interface manager. It keeps a priority-ordered list of candidate port configurations (DevicePortConfig, "DPC"). It tests one candidate at a time against the controller, fails over along the list and republishes the resulting DeviceNetworkStatus. The other agents consume that status.

## 1. Inventory of the system

| Part | Source | State | Operations | Interacts with |
|---|---|---|---|---|
| nim event loop | `src/cmd/nim/nim.go` `Run`, `tryDeviceConnectivityToCloud` | phase (GC wait, AA wait, main loop); `CloudConnectivityWorks`; three one-shot timers (PendTimer, NetworkTestTimer, NetworkTestBetterTimer); a geolocation ticker | a select over the GlobalConfig, DeviceNetworkConfig, three DPC and AssignableAdapters subscriptions, netlink address updates and the timers | the verification engine, the address handler, every consumer of DeviceNetworkStatus |
| DPC verification engine | not in `src/`; specified in `spec.md` | `DevicePortConfigList` (sorted, `CurrentIndex`); `NextDPCIndex`; `Pending` (in progress, PendDNS, waited budget); Exhausted | `HandleDPCModify`/`Delete` (upsert, re-sort), `RestartVerify`, `VerifyDevicePortConfig` (wait for DHCP, probe, then accept, advance or exhaust), the exhausted retry | driven by the nim loop; reads the status synthesis |
| Status synthesis and probe | `src/devicenetwork/devicenetwork.go` (an error-returning copy is in `src/unnamed/part_005`) | none (pure functions of config and kernel) | `MakeDeviceNetworkStatus` (reads the kernel's addresses for each configured port), `VerifyDeviceNetworkStatus` (passes if any management port reaches the controller) | kernel, controller |
| Address-change handling | `src/unnamed/part_004` | IfindexToAddrs cache | `AddrChange`, `HandleAddressChange`, `checkIfAllDNSPortsHaveIPAddrs` | nim loop, verification engine |
| Interface directory, link changes | `src/unnamed/part_000`, `part_001`, `src/devicenetwork/addrchange_linux.go` | ifindex→name and ifindex→addresses caches | add/del/lookup with a netlink fallback, `LinkChange`, `setLinkUp` | zedrouter PBR, nim |
| zedrouter policy-based routing | `src/unnamed/part_000` (newer), `part_001` (older, "uplink" naming) | free-management-port set; routes in the main table and FreeTable | `PbrLinkChange`, `PbrAddrChange`, `PbrRouteChange`, `setFreeMgmtPorts` | interface directory, kernel routing |
| DeviceNetworkConfig client | `src/cmd/client/dnc.go` | usable address count | `handleDNCModify`/`Delete`, `doDNSUpdate` (LED 1 or 2 when the count crosses zero) | ledmanager |
| ledmanager | `src/cmd/ledmanager/ledmanager.go` 18-410 (current), 411-726 (an older watcher-based version), `src/unnamed/part_002` (a pubsub copy between the two) | ledCounter, usableAddressCount, derivedLedCounter; the blink goroutine's counter | `handleLedBlinkModify`/`Delete`, `handleDNSModify`/`Delete`, `updateDerivedLedCounter`, `TriggerBlinkOnDevice` over an unbuffered channel | DNS status from nim, LED config from every agent |
| diag | `src/cmd/ledmanager/ledmanager.go` 727-1486 | the last counter, status and DPC list; the got flags; `ctx.serverName` and the shared TLS configuration | three handlers, `printOutput` over the ports (DNS lookup, `tryPing` with a google fallback, `tryGetUuid`, each GET retried), the one-shot exit | ledconfig from the agents, nim's status and list, the controller |
| wstunnelclient | `src/unnamed/part_003` | DNS status, DNSinitialized, the tunnel client | `handleDNSModify`/`Delete`, `scanAIConfigs` on AppInstanceConfig events | nim's status, zedagent, the tunnel server |
| iptables ssh/vnc access | `src/iptables/ssh.go`, `src/cmd/nim/nim.go` 530-594 | ctx.sshAccess, ctx.allowAppVnc, GCInitialized; the REJECT rules in INPUT | `handleGlobalConfigModify`/`Delete`/`Synchronized`, `UpdateSshAccess`, `UpdateVncAccess` | zedagent's GlobalConfig, the kernel's filter table |
| device-steps.sh (boot script) | `src/types/domainmgrtypes.go` 493-972 | /config: the device key pair, `self-register-failed`; `SELF_REGISTER` | key pair check, `generate-device.sh`, `client selfRegister`/`getUuid`, start of the agents | the controller; ledmanager, nim and diag, which it starts |
| conntrack, agentlog, domainmgr types, Makefile | `part_003`, `part_006`, `src/types/domainmgrtypes.go` (Go part), `src/Makefile` | none of interest | one-shot dumps, command-line building, logging, boot script | not modelled (see section 12) |

### Behaviours that make it hard

- Everything in nim runs in one goroutine. The interleaving that matters is therefore the *order of events*: a DPC push handled between two pend-timer steps of a sweep; a netlink address update handled after the status was already computed from the kernel; a network test that fires while a verification is in progress.
- The timers are one-shot `time.Timer`s. Whether periodic behaviour continues depends on every path re-arming them.
- State is captured and used later: `Pending.PendDNS`, `CloudConnectivityWorks`, `ctx.DeviceNetworkStatus`.
- Liveness: once the network is quiet, the device should settle on a working configuration, and on the best one.

## 2. Plan

Modules, in order of importance:

1. **NIM** (built): the nim loop together with the verification engine and the address handler. See section 3.
2. **PBR** (built): the interface directory (`IfindexToName*`, `IfindexToAddrs*`) of `part_001`, fed by three netlink event queues, with the lookup fallback. Also `PbrLinkChange`, `PbrAddrChange`, `PbrRouteChange` and `setFreeUplinks`, which keep FreeTable, the per-interface tables and the source rules in step with the kernel. A zedrouter restart re-runs `PbrInit`. See section 4.
3. **LedManager**, **LedBlinkHandoff** and **LedManagerV0** (built): the current ledmanager with `doDNSUpdate` in the client, refining an abstract handoff specification, and the older watcher-based ledmanager. See section 5.
4. **WsTunnel** (built): wstunnelclient's loop, DNS handlers and `scanAIConfigs`. See section 6.
5. **Diag** (built): diag's loop, handlers and the port tests of `printOutput`. See section 7.
6. **IptablesAccess** (built): nim's GlobalConfig handlers and the ssh/VNC filters of `iptables/ssh.go`. See section 8.
7. **DeviceSteps** (built): the self-registration of `device-steps.sh` across reboots. See section 9.
8. **PortSelection** (planned): an abstract specification of failover ("the config in effect is the best one that worked in the last sweep"), with NIM shown to refine it through `INSTANCE ... WITH` and a refinement mapping.
9. (planned) The DPC list order and `next` as pure operators, checked against a reference definition over all small lists.

## 3. Module NIM

`NIM.tla` models `src/cmd/nim/nim.go` `Run` and `tryDeviceConnectivityToCloud`, together with `AddrChangeInit`, `AddrChange`, the `IfindexToAddrs` cache operations, `HandleAddressChange` and `checkIfAllDNSPortsHaveIPAddrs` from `src/unnamed/part_004`. The candidate configs of the MC module are built with `makeDevicePortConfig`, `MakeDevicePortConfig` (TimePriority 2) and `LastResortDevicePortConfig` (TimePriority 0) of `src/unnamed/part_005`. The verification engine is not in `src/`; it is modelled from `spec.md` and marked `spec_modelled` in `PROJECT.json`.

### Data abstraction

- A DPC is a record `[key, prio, mgmt, free]`: the source key, the time priority, the management ports and the free (unmetered) ones among them.
- A port's addresses are reduced to "has a usable address".
- `MakeDNS(c)` is `MakeDeviceNetworkStatus` reduced to the management ports of `c` that have an address in the kernel. The code reads netlink, not the cache.
- `Probe(s)` is `VerifyDeviceNetworkStatus`: some port of the status has an address that really exists and a working path (`up`).
- Indices are 0-based with `-1` for none, as in the code.

### State and actions

| Code | TLA+ |
|---|---|
| `DevicePortConfigList`, `CurrentIndex`, `NextDPCIndex`, `Pending` | `dpcList`, `currentIndex`, `nextDPCIndex`, `pending` |
| `*ctx.DevicePortConfig`, `*ctx.DeviceNetworkStatus` | `dpc`, `dns` |
| `Pending.PendTimer`, `NetworkTestTimer`, `NetworkTestBetterTimer` | the booleans `pendTimer`, `networkTestTimer`, `testBetterTimer` (armed) |
| `CloudConnectivityWorks` | `cloudWorks` |
| the GCInitialized and AA wait loops | `phase` with `GCInitialized`, `AAInitialized` |
| `case <-PendTimer.C` | `PendTimerFires` → `VerifyDevicePortConfig` |
| `case <-NetworkTestTimer.C` | `NetworkTestTimerFires` (with `OnRepeatedFailure`) |
| `case <-NetworkTestBetterTimer.C` | `TestBetterTimerFires` |
| `case <-addrChanges` | `AddrChange` → `HandleAddressChange` |
| DPC subscriptions A (zedagent, read only after AA), O, S | `DPCModify(c)`, `DPCDelete(k)` |
| kernel, DHCP and links (environment) | `addrs`, `addrQ` (queued netlink updates), `up`; the actions `KernelAddrChange`, `KernelAddrRenew`, `LinkUpDown` |

`AddrChangeInit` is part of `GCInitialized`: Run subscribes to address updates only after the GlobalConfig wait (`nim.go:312`). The subscription then replays the kernel's addresses at that moment, and address changes before it are not queued (`Notify`).

### Fairness

Weak fairness is assumed on the timer and queue actions and on leaving the two wait loops.
- The Go runtime fires an armed timer, and the single select loop serves every ready channel.
- GlobalConfig and AssignableAdapters are published by agents that start.

There is no fairness on the environment. Its steps are bounded by `MaxEnvSteps`, so every behaviour ends with a quiet network, which is the premise of the liveness properties.

Deadlock checking is off. When no timer is armed and no input arrives, the real loop blocks in `select` (only the stillRunning ticker fires). The model has such states, for example an empty list after every input is used.

### Runs

| Run | cfg | Expect | Shows |
|---|---|---|---|
| `nim_core` | `NIM.cfg` | pass | `TypeOK`; `CurrentIsInEffect`: when Idle or Exhausted, the config in effect is the entry `CurrentIndex` names; `Converges`: once the environment is quiet, if any candidate works the engine ends Idle on a config that passes the test |
| `nim_test_better` | `NIM_better.cfg` | violation | `TopCandidatePreferred`: the test-better timer fires once (possibly at index 0, where it is ignored) and is never re-armed, so a device can stay on a lower candidate forever |
| `nim_addr_kick` | `NIM_kick.cfg` | violation | `AddressKicksVerification`: the address that completes the pending candidate does not kick the verification, because the stale `PendDNS` is tested |

### Bounds

- Two ports, enough for a candidate whose port fails while another works.
- Three sources, including LastResort with every port. No passing run states that a sweep tries every higher candidate: with a fourth source (nim's own config sorting between zedagent and the override) the spec's restart rule, which compares an inserted candidate with `CurrentIndex` only, skips one. That case is listed as a hazard (`nim.go:411`), not run.
- `DPCTestDuration = 1`: one wait step, then the probe.
- `MaxEnvSteps = 3` in the passing run. That covers:
  - a push, a second push and a delete;
  - a push, a link loss and a DHCP arrival.

  The run has about 308,000 distinct states and takes about one minute.

## 4. Module PBR

`PBR.tla` models the older zedrouter policy-based routing in `src/unnamed/part_001`. That is the "uplink" version, and it has the link handler. The zedrouter main loop that calls these functions is not in `src/`. The model lets it serve the three channels in any order.

### Data abstraction

- A route is "the route via ifindex i" of a table. Each table is therefore a set of indices:
  - `main`: the kernel's main table;
  - `free`: FreeTable;
  - `my`: the union of the tables FreeTable+i, where i is in `my` when table FreeTable+i holds i's route.
- An interface has at most one address. Both `kaddr` and the address cache are sets of indices. So are the source rules: `rules` holds i when a rule to FreeTable+i exists.
- Link names are model values. Indices are never reused: a deleted link becomes `Gone`.

### State and actions

| Code | TLA+ |
|---|---|
| `ifindexToName`, `ifindexToAddrs`, `freeUplinkList` | the same names |
| `*deviceUplinkConfig` free uplinks | `freeCfg` |
| the link, address and route channels | the FIFO queues `linkQ`, `addrQ`, `routeQ` |
| `PbrLinkChange`, `PbrAddrChange`, `PbrRouteChange` | the actions of the same names, each taking the head of its queue |
| `setFreeUplinks` after a new DeviceUplinkConfig | `ConfigChange(F)`, which calls `SetFreeUplinks(F)` |
| `PbrInit` in a new process (the kernel keeps its tables) | `Restart` → `PbrInit`. The queues are replaced by the ListExisting replay (`Replay`), and undelivered events are lost |
| the kernel | the actions `LinkAdd`, `LinkRename`, `LinkDel`, `AddrAdd`/`Del`, `RouteAdd`/`Del`. `LinkDel` removes the link's address with an RTM_DELADDR and its routes in every table silently, then sends RTM_DELLINK |

`IfindexToName` falls back to the kernel's current name when the cache has none, as `LinkByIndex` does. `IfnameToIndex` has no fallback. When two entries carry the name, the loop over the Go map returns either one, so the model lets it return either.

### Properties and runs

Each property is checked in states where every queued update has been handled (`Quiescent`).

| Run | cfg | Expect | Shows |
|---|---|---|---|
| `pbr_core` | `PBR.cfg` | pass | `CachesMatchKernel`: the caches equal the kernel; `TablesComplete`: every main route has its per-interface copy and every address its source rule, even across a restart |
| `pbr_stale_after_restart` | `PBR_restart.cfg` | violation | `TablesExact`: TLC finds an address delete lost at a restart leaving its source rule forever (`flushRules(0)` does not flush the per-interface rules, whatever the comment says) |

### Bounds and fairness

- Two indices and two names. That allows a rename into a taken-then-freed name, and a free link beside a non-free one.
- The initial kernel state is arbitrary (98 initial states).
- The core run allows `MaxEnvSteps = 4` kernel or configuration changes and `MaxRestarts = 1`. That is enough for a rename followed by a delete of the renamed link and an address change, around a restart. The core run has 1.4 million distinct states and takes about 40 s. The violation run keeps `MaxEnvSteps = 3`.
- Each violation needs at most two environment steps.
- No run states what FreeTable holds. With renames or configuration changes it can miss or keep routes (`PbrLinkChange` does not re-evaluate a renamed link, and `setFreeUplinks` resolves names through the cache only). These are listed as hazards (`part_001:244`, `part_001:339`).
- Weak fairness is assumed on the three handlers only. The loop serves every ready channel, and netlink delivers the subscribed events.
- Deadlock checking is off: a quiet system blocks in `select`.

## 5. Modules LedManager and LedManagerV0

`LedManager.tla` models the current ledmanager (`src/cmd/ledmanager/ledmanager.go` 110-382) together with the DeviceNetworkConfig client's `handleDNCModify`/`Delete` and `doDNSUpdate` (`src/cmd/client/dnc.go`). Any agent may write `ledconfig` through `types.UpdateLedManagerConfig`. nim, for one, writes 11 while `waitForDeviceNetworkConfigFile` finds no DeviceNetworkConfig. ledmanager merges the ledconfig counter with "nim's status has usable addresses" and hands the result to the blink goroutine.

| Code | TLA+ |
|---|---|
| ledconfig and DeviceNetworkStatus publications | FIFO queues `ledQ`, `dnsQ` (a delete is `LedDelete`, or a `DNSEvent` with `del`) |
| `handleLedBlinkModify`/`Delete` | `HandleLedBlink` |
| `handleDNSModify`/`Delete` (a Testing status or an equal one is ignored; the LED changes only when the count crosses zero) | `HandleDNS`, `CrossesZero` |
| `updateDerivedLedCounter` and its blocking send on `countChange` | `UpdateDerivedLedCounter`: `lmPc = "send"` until `BlinkCycle` takes the value |
| `TriggerBlinkOnDevice` (select with default, blink, sleep) | `BlinkCycle` |
| the client's status and usable count, `doDNSUpdate` writing 1 or 2 | `clientStatus`, `clientCount`, `DoDNSUpdate`, `WriteLedConfig` |
| kernel addresses, nim and the other agents | `KernelChange`, `NimPublish`, `NimUnpublish`, `AgentWrite`, `AgentDelete` |

A status is reduced to Testing, the usable address count (at most `MaxAddrs = 2`) and whether it has ports. `ledPub` and `lastDNS` are history variables: the last ledconfig written and the count of the last non-Testing status nim published. `Init` has `ledconfig = 1` queued, because `device-steps.sh` writes it before the agents start.

`LedManagerV0.tla` models the older watcher-based ledmanager (`ledmanager.go` 505-650). `watch.WatchStatus` reports "M" or "D" events for the config directory on an unbuffered channel. `watch.HandleStatusEvent` is not in `src/`; it is given a `LedBlinkCounter` to decode into, so the model reads the file when the event is handled. The modify handler suppresses a counter equal to the package variable `oldCounter`. The delete handler sends 0, then writes ledconfig 0 itself, which raises another "M".

| Run | cfg | Expect | Shows |
|---|---|---|---|
| `led_core` | `LedManager.cfg` | pass | `TypeOK`; `LedBlinkRefined`: ledmanager implements `LedBlinkHandoff` (below); `LedShowsState`: once nim has published a non-Testing status, the LED eventually blinks, and keeps blinking, the merge of the last ledconfig and that status |
| `ledv0_suppressed_rewrite` | `LedManagerV0_blink.cfg` | violation | `BlinksFile`: after a delete, an agent rewriting the counter shown before the delete is suppressed, and the LED stays dark while ledconfig asks for blinks |

Bounds and fairness:
- `MaxEnvSteps = 5` for LedManager, with agent values {4, 11}. That allows a publication to arrive while the loop is blocked in the send, and a count to cross zero twice. The run has 192,000 states and takes about 11 s.
- `MaxEnvSteps = 4` for LedManagerV0, with agent values {3, 4}. The violation needs a write, a delete and a rewrite of the same value.
- Weak fairness is assumed on the handlers and on `BlinkCycle`. The loop serves every ready channel, and the goroutine loops forever with a sleep. There is no fairness on the environment.
- Deadlock checking is off: an idle agent blocks in `select`.

### Refinement: LedBlinkHandoff

`LedBlinkHandoff.tla` is the abstract specification of what ledmanager promises the LED. It has four variables: the target in effect (`led`, `usable`), whether the target is `pending`, and the counter `shown`. `Accept` takes a new target only when none is pending, and `Show` blinks `Merge(led, usable)`. Weak fairness on `Show` says a pending target is eventually shown.

`LedManager` instantiates it with this refinement mapping:
- `led <- ledCounter`;
- `usable <- usableAddressCount # 0`;
- `pending <- lmPc = "send"` (the loop blocked in `updateDerivedLedCounter`'s send on the unbuffered `countChange`);
- `shown <- counter` (the goroutine's counter).

`led_core` checks `LedBlinkRefined == Handoff!ASpec` as a PROPERTY. A handler that changes the target maps to `Accept`, and the goroutine's receive maps to `Show`. Every other step, including every step of the environment, the client and a suppressed or Testing update, is a stutter. A non-blocking send (the mutant `UpdateDerivedLedCounterNonBlocking`) changes the target without a pending handoff, and the refinement fails.

The pubsub copy in `src/unnamed/part_002` lies between the two versions and is not modelled. Its delete handler also writes ledconfig 0 after the blocking send, so it overwrites an agent write made in between.

## 6. Module WsTunnel

`WsTunnel.tla` models wstunnelclient (`src/unnamed/part_003` 97-367). One goroutine selects over GlobalConfig (log levels only, left out), DeviceNetworkStatus and AppInstanceConfig. Until the first status is adopted, the wait loop does not read AppInstanceConfig (`running`).

| Code | TLA+ |
|---|---|
| DeviceNetworkStatus / AppInstanceConfig publications | FIFO queues `dnsQ` (`DNSEvent`), `aiQ` (`[key, rc]`) |
| `handleDNSModify` (an equal status is ignored before `DNSinitialized` is set; a Testing status is adopted), `handleDNSDelete` | `HandleDNSModify`, `HandleDNSDelete`, inside `DNSChange` |
| `sub.GetAll()`, both AppInstanceConfig handlers | `aiItems`, `AIChange` → `ScanAIConfigs` |
| `scanAIConfigs`: `isTunnelRequired`; the loop over the status's ports; `IsMgmtPort`, `addrCount`, `TestConnection` | `TunnelRequired`, `Connectable` (in `PortOrder`), `ScanAIConfigs` |
| `ctx.wstunnelclient` | `tunnel` (the port, or `NoTunnel`) |
| nim, zedagent, the path to the server | `NimPublish`, `NimUnpublish`, `ZedagentPublish`, `ReachabilityChange` |

A status is reduced to its management ports and the ports with an address (one address each). `TestConnection` succeeds over a port when it is in `reachable`. `usableAddressCount` is only logged and is left out.

| Run | cfg | Expect | Shows |
|---|---|---|---|
| `wstunnel_core` | `WsTunnel.cfg` | pass | `NoTunnelWithoutConsole`: once every publication is handled, a tunnel runs only while some instance asks for a remote console |

Two apps and two ports, both management ports, are checked with three statuses: no addresses, an address on p2 only, and addresses on both. `MaxEnvSteps = 7`: enough for an instance to ask for a console, lose it and ask again around two status changes. The run has 2.2 million states and takes about 30 s. Weak fairness is assumed on the two handlers; deadlock checking is off.

The model shows the gap the code marks with `XXX do we need to trigger something like a reconnect?` (part_003:256). A DeviceNetworkStatus change never rescans, so a tunnel wanted while there were no addresses starts only on the next AppInstanceConfig change. For the same reason, a tunnel keeps a port that has lost its address. No run checks these (see `hazards`).

## 7. Module Diag

`Diag.tla` models diag (`ledmanager.go` 727-1486), the connectivity report. One goroutine selects over ledconfig, nim's DeviceNetworkStatus and its DevicePortConfigList. Each case first sets its got flag, then runs the handler. Without `-f` the loop is left after the first change that makes all three flags true.

| Code | TLA+ |
|---|---|
| the three subscription channels | FIFO queues `bcQ`, `dnsQ`, `dpcQ`; `BCChange`, `DNSChange`, `DPCChange` |
| `handleLedBlinkModify` (an equal counter is suppressed; there is no delete handler) | `HandleLedBlink` |
| `handleDNSModify` (ignores Testing and equal statuses), `handleDNSDelete` (always prints) | `HandleDNS` |
| `handleDPCModify` (an equal list is suppressed) | `HandleDPCModify` |
| `printOutput` and its guard on the got flags | `ProcessChange` starts a report (`reported`, `pc = "ports"`) |
| the port loop: count management ports, skip ports for application use or without an address, `tryLookupIP` | `TestPort`, `PortDone`, `LookupResult` |
| `tryPing` to the controller; on failure `ctx.serverName := "www.google.com"` and two `tryPing`s that write an insecure TLS configuration into the shared `ctx.zedcloudCtx`; then the server name is restored and the TLS configuration rebuilt | `PingDone`, `Google1Done`, `Google2Done` (`serverName`, `tls`) |
| the GET loops of `tryPing`/`tryGetUuid` (`retryCount > maxRetries` unless it is 0), `myGet` | `RetryGet`, `Exhausted`, `CallEnds` |
| `tryGetUuid`, `passPorts` | `UuidDone` |
| the summary (no management ports / all passed / k of n) | `Verdict` |

Output text, `printProxy` and the hardware-model file checks only print, and are left out. A report is represented by the context it was printed for, the per-port outcomes and the summary. The `-f` flag is chosen in `Init`, so one run covers both modes. The result of every lookup and GET is a nondeterministic choice. The `-D` and `-P` flags are constants, FALSE in the runs.

| Run | cfg | Expect | Shows |
|---|---|---|---|
| `diag_core` | `Diag.cfg` | pass | `ControllerRequestsVerified`: every lookup, ping and GET to the controller uses the controller's name and a TLS configuration that verifies it, because the google fallback of an earlier port is undone first; `VerdictMatchesResults`: the summary says PASS exactly when every management port of the reported status passed, and "no ports" exactly when there are none; `ReportFinishes`: every report that printOutput starts ends in its summary, even when the controller never answers, because each GET loop gives up after `maxRetries` failures |
| `diag_oneshot_silent` | `Diag_exit.cfg` | violation | `ExitsWithReport`: without `-f`, when the last of the three subscriptions to deliver brings a change the handler suppresses (a Testing status), diag exits having printed nothing |

The checked instance has two ports and three statuses:
- a Testing status;
- a management port plus a port for application use;
- two management ports, of which only the second has an address.

`diag_core` also has `MaxRetries = 2` (the code has 5) and up to seven publications. Two retries separate a retry that succeeds from one that is exhausted. The publications allow three reports in `-f` mode and the fallback on one port followed by a test of the next. The run has 1.5 million states and takes about 2.5 minutes, most of it checking `ReportFinishes`. `diag_oneshot_silent` needs only `MaxRetries = 1` and five publications.

Fairness: weak fairness is assumed on the three select cases and on printOutput's steps. That is justified because the goroutine never blocks elsewhere, and `SendOnIntf` gives up after 15 s, so every call returns. The network is not assumed to answer. Of a ping or a GET of the config, only the failing return (`PingFails`, `UuidFails`) is fair, so a port whose controller never answers is one of the behaviours. `ReportFinishes` then rests on the code's retry bound alone. With the bound dropped (`CallEndsNoGiveUp`), TLC finds a report stuck at a ping. The safety properties do not depend on fairness.

## 8. Module IptablesAccess

`IptablesAccess.tla` models nim's three GlobalConfig handlers (`nim.go` 530-594) together with the functions of `src/iptables/ssh.go` that they call. nim starts with `ctx.sshAccess = true` (the kernel has no filters). The subscription replays an existing GlobalConfig and then reports it synchronized. Run waits for `GCInitialized`, then keeps handling changes in its loop.

| Code | TLA+ |
|---|---|
| the INPUT chain of iptables and ip6tables | `chain`: a bag, port range -> number of REJECT rules |
| `dropPortRange` (`iptables -A ... -j REJECT`) | `dropPortRange`: adds a copy |
| `allowPortRange` (`iptables -D`, which removes one matching rule; an error is only logged) | `allowPortRange`: removes one copy, if any |
| `UpdateSshAccess` (on the first call also blocks 8080 and 4822), `UpdateVncAccess` | the operators of the same names |
| `handleGlobalConfigModify`: `first := !GCInitialized`; update ssh or VNC when the field changed or on the first call | `HandleGlobalConfigModify` |
| `handleGlobalConfigDelete`: `GCInitialized = false`, nothing else | `HandleGlobalConfigDelete` |
| `handleGlobalConfigSynchronized`: without a GlobalConfig, apply the kernel default for ssh | `HandleGlobalConfigSynchronized` |
| zedagent publishing or unpublishing GlobalConfig | `ZedagentPublish`, `ZedagentUnpublish`, bounded by `MaxEnvSteps` |

GlobalConfig is reduced to its `SshAccess` and `AllowAppVnc` fields. The command strings and the two address families are abstracted to a port range, because both families get the same commands.

| Run | cfg | Expect | Shows |
|---|---|---|---|
| `iptables_ssh_duplicate_reject` | `IptablesAccess.cfg` | violation | `SshFilterMatchesConfig`: once GlobalConfig has been applied, port 22 is filtered exactly when `ctx.sshAccess` is off. TLC finds a sequence that breaks it. A config with ssh off is applied, then deleted. It is published again, and that modify counts as the first, so a second REJECT is appended. Turning ssh on removes one copy, and port 22 stays blocked |

The configs are all four values of `[ssh, vnc]`. `MaxEnvSteps = 3` is the smallest bound that gives an unpublish, a republish and a change. Weak fairness on the handler is stated, but the property is a safety property.

The code also never calls `UpdateVncAccess` on the Synchronized path. When there is no GlobalConfig, VNC stays open while `ctx.allowAppVnc` is false, although the header of `ssh.go` says VNC is blocked with ssh. This is kept as a hazard, because the intended default (`GlobalConfigDefaults`) is not in `src/`.

## 9. Module DeviceSteps

`DeviceSteps.tla` models the self-registration part of the boot script `device-steps.sh` (its copy is in `src/types/domainmgrtypes.go` 493-972). The device can reboot at any step (power loss, or the watchdog the script has started).

What survives a reboot is /config:
- `certs`: the device key pair and certificate;
- `marker`: the file `self-register-failed`.

The controller's side is `registered`. The script's own state, `pc` and `SELF_REGISTER`, is lost at a reboot. The client is not in `src/`, so its calls are nondeterministic:
- `getUuid` can succeed only for a registered certificate;
- `selfRegister` may register the certificate even when its reply is lost.

| Code | TLA+ |
|---|---|
| the `if` on `device.cert.pem`/`device.key.pem`, the `elif` on `self-register-failed`, the `else` (`SELF_REGISTER=0`) | `CheckKeys` |
| `generate-device.sh`, `SELF_REGISTER=1` | `Generate` |
| `client -r 5 getUuid` after an interrupted registration | `GetUuidRetry` |
| the server check (`exit 0`) and `[ $SELF_REGISTER = 1 ]` | `CheckServer` |
| `touch self-register-failed`, the onboarding certificate check (`exit 1`) | `TouchMarker` |
| `client selfRegister` (`exit 1` on failure) | `SelfRegister` |
| `rm -f self-register-failed` | `ClearMarker` |
| `client getUuid` (status not checked), hardware model and hostname | `GetUuid` |
| the find-uplink check and the start of the watchdog, the agents, logmanager and diag | `StartAgents` |
| a reboot | `Reboot` (bounded by `MaxReboots`) |

| Run | cfg | Expect | Shows |
|---|---|---|---|
| `device_steps_unregistered` | `DeviceSteps.cfg` | violation | `RunsRegistered`: the agents start only with a certificate the controller has registered. TLC finds a reboot between `generate-device.sh` and the `touch` of the marker. The next boot sees keys and no marker, takes the "existing device key pair" path and starts the agents unregistered |

The device is provisioned with a server and an onboarding certificate, and may reboot twice. One reboot is enough for the violation.

The model also shows a second behaviour, kept as a hazard. After an interrupted registration whose `getUuid` then succeeds, `SELF_REGISTER` stays unset and the marker is never removed. Every later boot repeats the check, and a boot without network re-runs `selfRegister`.

## 10. Findings

See `findings` in `PROJECT.json`. In short:
1. The test-better escalation is one-shot.
2. The address kick uses a stale snapshot.
3. PBR: after a zedrouter restart, the source rule of an address removed meanwhile is never cleaned.
4. LedManagerV0: the delete handler does not reset `oldCounter`, so rewriting the pre-delete counter is suppressed when that rewrite is handled before the event of the delete's own write of 0.
5. diag: without `-f`, diag can exit without printing a report.
6. nim/iptables: after a GlobalConfig delete, the next config re-appends every REJECT rule, and a later enable removes only one copy.
7. device-steps.sh: a reboot between key generation and the `self-register-failed` marker leaves a device that never registers.

More behaviours were seen with TLC while modelling. They are kept as hazards without a run of their own:
- The spec's restart rule misses a candidate inserted mid-sweep between `CurrentIndex` and the pending index (`nim.go:411`, with four sources). This concerns the spec-modelled engine.
- A configuration change misses a link that PBR knows only through the fallback lookup (`part_001:339`).
- nim's `CloudConnectivityWorks` is not reset when a config is accepted, so a failure of the previous config counts against the new one (`nim.go:500`).
- A renamed link keeps the FreeTable membership of its old name (`part_001:244`).

## 11. Hazards

`hazards` in `PROJECT.json` lists each hazard at its line. For each one it gives the properties that cover it, or says why none does.

## 12. Not modelled

- Geolocation refresh: it changes only annotations.
- GlobalConfig contents (intervals, log levels). Of `waitForDeviceNetworkConfigFile` (a file poll before the loop), only its ledconfig write of 11 is modelled, as an `AgentWrite` in LedManager.
- ledmanager's pubsub copy in `part_002`, and its hardware model lookup and blink functions.
- conntrack, and the iptables copy in `part_006` (`allowLocalPortRange`): command building and dumps.
- agentlog, the domainmgr types, diskmetrics and the Makefile: I/O and data layout.
- The rest of `device-steps.sh`: the watchdog configuration sequence, the /persist mount, the copies of configuration, ntp and the hostname. These are commands whose effects no property reads. The watchdog's reaction to a missing pidfile depends on `watchdog(8)`, which is not in `src/`. The /persist mount runs mkfs whenever `fsck.ext3 -y` exits non-zero. e2fsck also exits 1 after it has repaired errors, so a repaired /persist is reformatted. This is listed as a hazard (`domainmgrtypes.go:621`). It is not modelled, because the exit codes are e2fsck's, and what the agents keep in /persist is outside `src/`.
- diag's output text, `printProxy` and the hardware-model file checks: they only print.
- PBR: the newer copy in `part_000` (`setFreeMgmtPorts`), the NAT rules (`PbrNATAdd`/`Del`), and the zedrouter callbacks `addrChangeFuncUplink`/`NonUplink`, which are not in `src/`.
- `addrchange_linux.go` (`LinkChange`, `setLinkUp`): it calls a five-argument `IfindexToNameAdd` and `RelevantLastResort`, which are not in `src/`, and nothing in `src/` calls it.
- The reboot-reason and log-directory helpers in `domainmgrtypes.go`: file I/O whose callers are not in `src/`. `getOtherIMGdir` caches the other partition's directory before its in-progress check, so `GetOtherLogdir` can keep returning it after the partition has left that state. This is listed as a hazard (`domainmgrtypes.go:437`). When zboot changes the partition state is not in `src/` either.
- The restore of the persisted DPC list after a restart: it is not in `src/`, and nim starts from an empty list (`nim.go:181`).
