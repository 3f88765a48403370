-------------------------------- MODULE NIM --------------------------------
(***************************************************************************)
(* The network interface manager (nim) of go-provision: the single select *)
(* loop of src/cmd/nim/nim.go that owns the DevicePortConfig list, the     *)
(* pending-candidate verification state and three one-shot timers, and     *)
(* the address-change handler of the devicenetwork package                 *)
(* (src/unnamed/part_004).  The verification engine itself                 *)
(* (VerifyDevicePortConfig, RestartVerify, the DPC list upsert/delete) is  *)
(* not part of src/ and is modelled from spec.md.                          *)
(*                                                                         *)
(* Data abstraction: a DevicePortConfig is a record with its source key,   *)
(* its priority, its management ports and the free (unmetered) subset of   *)
(* them.  A port's address set is abstracted to "has a usable address";   *)
(* the cloud probe of a port succeeds iff the port has an address in the   *)
(* kernel and its path to the controller is up.  Indices are 0-based as in *)
(* the Go code; list element i is dpcList[i+1].                            *)
(***************************************************************************)
EXTENDS Integers, Sequences, SequencesExt, FiniteSets, TLC

CONSTANTS
    Ports,            \* interface names
    Keys,             \* DPC source keys (zedagent, override, lastresort, ...)
    Zedagent,         \* the key zedagent publishes under (subDevicePortConfigA)
    NoKey,            \* key of the empty DevicePortConfig
    Configs,          \* candidates the sources may publish: [key, prio, mgmt, free]
    KeyRank,          \* tie-break among equal priorities (lower sorts first)
    DPCTestDuration,  \* pend-timer ticks VerifyDevicePortConfig waits for DHCP
    TestBetterEnabled,\* NetworkTestBetterInterval # 0
    MaxEnvSteps       \* bound on configuration pushes and link/address events

ASSUME /\ Zedagent \in Keys /\ NoKey \notin Keys
       /\ \A c \in Configs : c.key \in Keys /\ c.free \subseteq c.mgmt
                             /\ c.mgmt \subseteq Ports
       /\ KeyRank \in [Keys -> Nat]
       /\ DPCTestDuration \in Nat /\ MaxEnvSteps \in Nat
       /\ TestBetterEnabled \in BOOLEAN

NoIndex == -1
NoDPC == [key |-> NoKey, prio |-> 0, mgmt |-> {}, free |-> {}]

\* makeDevicePortConfig: every listed port is a management port; those
\* also in free are free.
makeDevicePortConfig(key, prio, ports, free) ==
    [key |-> key, prio |-> prio, mgmt |-> ports, free |-> free \cap ports]

\* LastResortDevicePortConfig: all ports, all free, TimePriority 0.
LastResortDevicePortConfig(key, ports) == makeDevicePortConfig(key, 0, ports, ports)

VARIABLES
    phase,            \* "gc": GCInitialized wait, "aa": AA wait, "run": main loop
    dpcList,          \* DevicePortConfigList.PortConfigList, sorted
    currentIndex,     \* DevicePortConfigList.CurrentIndex
    nextDPCIndex,     \* DeviceNetworkContext.NextDPCIndex (candidate under test)
    pending,          \* DeviceNetworkContext.Pending: [inprogress, dns, waited]
    exhausted,        \* fell off the end of the list (spec: Exhausted)
    dpc,              \* *ctx.DevicePortConfig, the config in effect
    dns,              \* *ctx.DeviceNetworkStatus: ports with a usable address
    pendTimer,        \* Pending.PendTimer armed
    networkTestTimer, \* NetworkTestTimer armed
    testBetterTimer,  \* NetworkTestBetterTimer armed
    cloudWorks,       \* CloudConnectivityWorks
    ifAddrs,          \* IfindexToAddrs cache: ports with an address
    addrs,            \* kernel: ports with a usable address
    addrQ,            \* netlink address updates not yet read by the loop
    up,               \* ports whose path to the controller works
    envSteps          \* environment steps taken

engineVars == <<dpcList, currentIndex, nextDPCIndex, pending, exhausted,
                pendTimer>>
nimVars == <<phase, dpc, dns, networkTestTimer, testBetterTimer, cloudWorks>>
envVars == <<ifAddrs, addrs, addrQ, up, envSteps>>
vars == <<engineVars, nimVars, envVars>>

-----------------------------------------------------------------------------
(* Helpers *)

\* The list order: higher TimePriority first, source key as tie-break.
Before(a, b) == \/ a.prio > b.prio
                \/ a.prio = b.prio /\ KeyRank[a.key] < KeyRank[b.key]

\* 0-based position of source key k in list l, or NoIndex.
IndexOfKey(l, k) ==
    IF \E i \in 1..Len(l) : l[i].key = k
    THEN (CHOOSE i \in 1..Len(l) : l[i].key = k) - 1
    ELSE NoIndex

\* upsertCandidate: replace the entry of the same source key, re-sort.
Upsert(l, c) == SortSeq(Append(SelectSeq(l, LAMBDA x : x.key # c.key), c),
                        Before)

\* MakeDeviceNetworkStatus: the management ports of c that have an
\* address in the kernel (it reads netlink, not the cache).
MakeDNS(c) == c.mgmt \cap addrs

\* checkIfAllDNSPortsHaveIPAddrs: false without free management ports,
\* else every free management port of the status has an address.
AllDNSPortsHaveIPAddrs(c, s) == c.free # {} /\ c.free \subseteq s

\* VerifyDeviceNetworkStatus: any management port with an address in the
\* status reaches the controller (only if the address really exists).
Probe(s) == \E p \in s : p \in addrs /\ p \in up

PendingDPC == dpcList[nextDPCIndex + 1]

-----------------------------------------------------------------------------
(* Verification engine (spec.md, Verification Engine) *)

\* RestartVerify over the (already updated) list l: test from index 0.
RestartVerify(l) ==
    /\ exhausted' = FALSE
    /\ IF l = <<>>
       THEN /\ pending' = [pending EXCEPT !.inprogress = FALSE]
            /\ pendTimer' = FALSE
            /\ UNCHANGED nextDPCIndex
       ELSE /\ nextDPCIndex' = 0
            /\ pending' = [inprogress |-> TRUE, dns |-> MakeDNS(l[1]),
                           waited |-> 0]
            /\ pendTimer' = TRUE

\* VerifyDevicePortConfig: materialize the pending candidate's status; wait
\* for DHCP within DPCTestDuration; then probe and accept, or advance to the
\* next candidate, or hold the last one as Exhausted.
\* Mutant: waits one pend-timer tick longer than DPCTestDuration.
DHCPWaitOverLate == pending.waited > DPCTestDuration

\* The DHCP wait budget of the pending candidate is used up.
DHCPWaitOver == pending.waited >= DPCTestDuration

VerifyDevicePortConfig ==
    LET c     == PendingDPC
        s     == MakeDNS(c)
        ready == \/ c.mgmt = {}
                 \/ AllDNSPortsHaveIPAddrs(c, s)
                 \/ DHCPWaitOver
    IN
    /\ pending.inprogress
    /\ \/ /\ ~ready
          /\ pending' = [pending EXCEPT !.dns = s, !.waited = @ + 1]
          /\ pendTimer' = TRUE
          /\ UNCHANGED <<dpcList, currentIndex, nextDPCIndex, exhausted,
                         dpc, dns, networkTestTimer>>
       \/ /\ ready /\ Probe(s)
          /\ currentIndex' = nextDPCIndex
          /\ dpc' = c
          /\ dns' = s
          /\ pending' = [inprogress |-> FALSE, dns |-> s, waited |-> 0]
          /\ pendTimer' = FALSE
          /\ networkTestTimer' = TRUE
          /\ UNCHANGED <<dpcList, nextDPCIndex, exhausted>>
       \/ /\ ready /\ ~Probe(s)
          /\ IF nextDPCIndex + 1 < Len(dpcList)
             THEN /\ nextDPCIndex' = nextDPCIndex + 1
                  /\ pending' = [inprogress |-> TRUE,
                                 dns |-> MakeDNS(dpcList[nextDPCIndex + 2]),
                                 waited |-> 0]
                  /\ pendTimer' = TRUE
                  /\ UNCHANGED <<currentIndex, exhausted, dpc, dns>>
             ELSE /\ pending' = [inprogress |-> FALSE, dns |-> s, waited |-> 0]
                  /\ pendTimer' = FALSE
                  /\ exhausted' = TRUE
                  /\ currentIndex' = nextDPCIndex
                  /\ dpc' = c
                  /\ dns' = s
                  /\ UNCHANGED nextDPCIndex
          /\ UNCHANGED <<dpcList, networkTestTimer>>

\* Mutant: replacing the current candidate in place does not restart.
SortsAtOrAheadStrict(l, c, cur) == IndexOfKey(l, c.key) < cur

\* Candidate c sits at or ahead of position cur of list l.
SortsAtOrAhead(l, c, cur) == IndexOfKey(l, c.key) <= cur

\* HandleDPCModify: upsert, re-sort, CurrentIndex follows its candidate;
\* restart from the top when the candidate sorts at or ahead of the current
\* one, when there is no current one, or when the engine is exhausted.
HandleDPCModify(c) ==
    LET l      == Upsert(dpcList, c)
        curKey == IF currentIndex = NoIndex THEN NoKey
                  ELSE dpcList[currentIndex + 1].key
        newCur == IndexOfKey(l, curKey)
    IN
    /\ l # dpcList
    /\ dpcList' = l
    /\ currentIndex' = newCur
    /\ IF \/ exhausted \/ newCur = NoIndex
          \/ SortsAtOrAhead(l, c, newCur)
       THEN RestartVerify(l)
       ELSE UNCHANGED <<nextDPCIndex, pending, exhausted, pendTimer>>

\* HandleDPCDelete: remove the source key's entry; re-verify when it was
\* the current one or at/ahead of the candidate under test.
HandleDPCDelete(k) ==
    LET i == IndexOfKey(dpcList, k)
        l == RemoveAt(dpcList, i + 1)
    IN
    /\ i # NoIndex
    /\ dpcList' = l
    /\ currentIndex' = IF currentIndex = i THEN NoIndex
                       ELSE IF i < currentIndex THEN currentIndex - 1
                       ELSE currentIndex
    /\ IF currentIndex = i \/ (pending.inprogress /\ i <= nextDPCIndex)
       THEN RestartVerify(l)
       ELSE UNCHANGED <<nextDPCIndex, pending, exhausted, pendTimer>>

-----------------------------------------------------------------------------
(* The nim select loop (src/cmd/nim/nim.go, Run) *)

\* The AA wait loop (for !AssignableAdapters.Initialized) selects over
\* the same subscriptions, address updates and timers as the main loop,
\* except zedagent's DevicePortConfig (subDevicePortConfigA), which only
\* the main loop reads.
Serving == phase \in {"aa", "run"}
Reads(k) == k = Zedagent => phase = "run"

\* AddrChangeInit (called by Run after the GlobalConfig wait): an empty
\* IfindexToAddrs cache, and a subscription with ListExisting that first
\* replays the kernel's addresses at that moment.
AddrChangeInit ==
    /\ ifAddrs' = {}
    /\ addrQ' = [i \in 1..Cardinality(addrs) |->
                   [port |-> SetToSeq(addrs)[i], new |-> TRUE]]

\* The kernel reports an address update to the subscription, once there
\* is one; before AddrChangeInit the update is only in the kernel.
Notify(ev) == addrQ' = IF phase = "gc" THEN addrQ ELSE Append(addrQ, ev)

\* GC wait loop ends: the timers are created, NetworkTestTimer armed,
\* the TestBetter timer armed unless its interval is 0, and
\* CloudConnectivityWorks starts TRUE.
GCInitialized ==
    /\ phase = "gc"
    /\ phase' = "aa"
    /\ networkTestTimer' = TRUE
    /\ testBetterTimer' = TestBetterEnabled
    /\ cloudWorks' = TRUE
    /\ AddrChangeInit
    /\ UNCHANGED <<engineVars, dpc, dns, addrs, up, envSteps>>

\* AA wait loop ends: subDevicePortConfigA (zedagent) is now read.
AAInitialized ==
    /\ phase = "aa"
    /\ phase' = "run"
    /\ UNCHANGED <<engineVars, dpc, dns, networkTestTimer, testBetterTimer,
                   cloudWorks, envVars>>

\* A DevicePortConfig modify from a subscription the current loop reads.
DPCModify(c) ==
    /\ Serving
    /\ Reads(c.key)
    /\ envSteps < MaxEnvSteps
    /\ HandleDPCModify(c)
    /\ envSteps' = envSteps + 1
    /\ UNCHANGED <<nimVars, ifAddrs, addrs, addrQ, up>>

DPCDelete(k) ==
    /\ Serving
    /\ Reads(k)
    /\ envSteps < MaxEnvSteps
    /\ HandleDPCDelete(k)
    /\ envSteps' = envSteps + 1
    /\ UNCHANGED <<nimVars, ifAddrs, addrs, addrQ, up>>

\* case <-dnc.Pending.PendTimer.C: VerifyDevicePortConfig.
PendTimerFires ==
    /\ Serving
    /\ pendTimer
    /\ VerifyDevicePortConfig
    /\ UNCHANGED <<phase, testBetterTimer, cloudWorks, envVars>>

\* Mutant: a repeated failure is taken for verification in progress.
OnRepeatedFailureIgnored == UNCHANGED engineVars

\* Second failure in a row: leave an ongoing verification alone, else
\* RestartVerify to find a working configuration.
OnRepeatedFailure ==
    IF pending.inprogress
    THEN UNCHANGED engineVars
    ELSE /\ RestartVerify(dpcList)
         /\ UNCHANGED <<dpcList, currentIndex>>

\* case <-dnc.NetworkTestTimer.C: tryDeviceConnectivityToCloud.  The timer
\* is one-shot: it is re-armed on a pass and on a first failure only.  The
\* LastSucceeded update on a pass writes a copy of the list entry.
NetworkTestTimerFires ==
    /\ Serving
    /\ networkTestTimer
    /\ \/ /\ Probe(dns)
          /\ cloudWorks' = TRUE
          /\ networkTestTimer' = TRUE
          /\ UNCHANGED engineVars
       \/ /\ ~Probe(dns) /\ cloudWorks
          /\ cloudWorks' = FALSE
          /\ networkTestTimer' = TRUE
          /\ UNCHANGED engineVars
       \/ /\ ~Probe(dns) /\ ~cloudWorks
          /\ networkTestTimer' = FALSE
          /\ UNCHANGED cloudWorks
          /\ OnRepeatedFailure
    /\ UNCHANGED <<phase, dpc, dns, testBetterTimer, envVars>>

\* case <-dnc.NetworkTestBetterTimer.C: ignored at NextDPCIndex 0, else
\* RestartVerify.  Nothing re-arms the timer.
TestBetterTimerFires ==
    /\ Serving
    /\ testBetterTimer
    /\ testBetterTimer' = FALSE
    /\ IF nextDPCIndex = 0
       THEN UNCHANGED engineVars
       ELSE /\ RestartVerify(dpcList)
            /\ UNCHANGED <<dpcList, currentIndex>>
    /\ UNCHANGED <<phase, dpc, dns, networkTestTimer, cloudWorks,
                   envVars>>

\* Exhausted: the retry timer of spec.md restarts the sweep from index 0.
ExhaustedRetry ==
    /\ exhausted
    /\ RestartVerify(dpcList)
    /\ UNCHANGED <<dpcList, currentIndex, nimVars, envVars>>

\* HandleAddressChange.  Not testing: regenerate the status from the
\* config in effect.  Testing: the fresh status is discarded and the
\* Pending.PendDNS of the last verification decides whether to kick
\* VerifyDevicePortConfig now.
HandleAddressChange ==
    IF ~pending.inprogress
    THEN /\ dns' = MakeDNS(dpc)
         /\ UNCHANGED <<engineVars, dpc, networkTestTimer>>
    ELSE IF AllDNSPortsHaveIPAddrs(PendingDPC, pending.dns)
    THEN VerifyDevicePortConfig
    ELSE UNCHANGED <<engineVars, dpc, dns, networkTestTimer>>

\* IfindexToAddrsAdd / IfindexToAddrsDel: the cache after the update and
\* whether it changed (an address already cached, or a delete of an
\* unknown index or address, changes nothing).
IfindexToAddrsAdd(p) == [cache |-> ifAddrs \cup {p}, changed |-> p \notin ifAddrs]
IfindexToAddrsDel(p) == [cache |-> ifAddrs \ {p}, changed |-> p \in ifAddrs]

\* case change := <-addrChanges: AddrChange updates the IfindexToAddrs
\* cache and handles the change only if the cache changed.
AddrChange ==
    LET ev == Head(addrQ)
        upd == IF ev.new THEN IfindexToAddrsAdd(ev.port)
               ELSE IfindexToAddrsDel(ev.port)
    IN
    /\ Serving
    /\ addrQ # <<>>
    /\ addrQ' = Tail(addrQ)
    /\ ifAddrs' = upd.cache
    /\ IF upd.changed THEN HandleAddressChange
       ELSE UNCHANGED <<engineVars, dpc, dns, networkTestTimer>>
    /\ UNCHANGED <<phase, testBetterTimer, cloudWorks, addrs,
                   up, envSteps>>

-----------------------------------------------------------------------------
(* Environment: DHCP and the path to the controller *)

KernelAddrChange(p) ==
    /\ envSteps < MaxEnvSteps
    /\ addrs' = SymDiff(addrs, {p})
    /\ Notify([port |-> p, new |-> p \notin addrs])
    /\ envSteps' = envSteps + 1
    /\ UNCHANGED <<engineVars, nimVars, ifAddrs, up>>

\* An RTM_NEWADDR for an address the kernel already has (a DHCP renewal
\* updating its lifetime).
KernelAddrRenew(p) ==
    /\ envSteps < MaxEnvSteps
    /\ p \in addrs
    /\ Notify([port |-> p, new |-> TRUE])
    /\ envSteps' = envSteps + 1
    /\ UNCHANGED <<engineVars, nimVars, ifAddrs, addrs, up>>

LinkUpDown(p) ==
    /\ envSteps < MaxEnvSteps
    /\ up' = SymDiff(up, {p})
    /\ envSteps' = envSteps + 1
    /\ UNCHANGED <<engineVars, nimVars, ifAddrs, addrs, addrQ>>

-----------------------------------------------------------------------------
(* Specification *)

\* Run starts with an empty list, config and status (nim.go 178-182), no
\* timer armed, and no address subscription yet.

Init ==
    /\ phase = "gc"
    /\ dpcList = <<>>
    /\ currentIndex = NoIndex
    /\ nextDPCIndex = 0
    /\ pending = [inprogress |-> FALSE, dns |-> {}, waited |-> 0]
    /\ exhausted = FALSE
    /\ dpc = NoDPC
    /\ dns = {}
    /\ pendTimer = FALSE
    /\ networkTestTimer = FALSE
    /\ testBetterTimer = FALSE
    /\ cloudWorks = FALSE
    /\ addrs \in SUBSET Ports
    /\ ifAddrs = {}
    /\ addrQ = <<>>
    /\ up \in SUBSET Ports
    /\ envSteps = 0

Next ==
    \/ GCInitialized
    \/ AAInitialized
    \/ \E c \in Configs : DPCModify(c)
    \/ \E k \in Keys : DPCDelete(k)
    \/ PendTimerFires
    \/ NetworkTestTimerFires
    \/ TestBetterTimerFires
    \/ ExhaustedRetry
    \/ AddrChange
    \/ \E p \in Ports : \/ KernelAddrChange(p)
                        \/ KernelAddrRenew(p)
                        \/ LinkUpDown(p)

\* The loop serves every ready channel of its select: timers fire, queued
\* netlink updates are read.  GlobalConfig and AssignableAdapters are
\* published by other agents that do start.  Nothing forces the
\* environment (configuration pushes, DHCP, links) to act.
Fairness ==
    /\ WF_vars(GCInitialized)
    /\ WF_vars(AAInitialized)
    /\ WF_vars(PendTimerFires)
    /\ WF_vars(NetworkTestTimerFires)
    /\ WF_vars(TestBetterTimerFires)
    /\ WF_vars(ExhaustedRetry)
    /\ WF_vars(AddrChange)

Spec == Init /\ [][Next]_vars /\ Fairness

-----------------------------------------------------------------------------
(* Properties *)

DPCs == Configs \cup {NoDPC}

TypeOK ==
    /\ phase \in {"gc", "aa", "run"}
    /\ dpcList \in Seq(Configs)
    /\ currentIndex \in NoIndex..(Len(dpcList) - 1)
    /\ pending.inprogress \in BOOLEAN
    /\ pending.dns \subseteq Ports
    /\ pending.waited \in 0..DPCTestDuration
    /\ pending.inprogress => nextDPCIndex \in 0..(Len(dpcList) - 1)
    /\ exhausted \in BOOLEAN
    /\ dpc \in DPCs /\ dns \subseteq Ports
    /\ {pendTimer, networkTestTimer, testBetterTimer, cloudWorks}
         \subseteq BOOLEAN
    /\ ifAddrs \subseteq Ports /\ addrs \subseteq Ports /\ up \subseteq Ports
    /\ envSteps \in 0..MaxEnvSteps

\* Idle or Exhausted, the config in effect (ctx.DevicePortConfig) is the
\* list entry CurrentIndex points at: the list upsert/delete must move
\* CurrentIndex with its entry, and VerifyDevicePortConfig must set both.
CurrentIsInEffect ==
    (~pending.inprogress /\ currentIndex # NoIndex)
        => dpc = dpcList[currentIndex + 1]

\* Some listed candidate would pass the probe now.
SomeCandidateWorks ==
    \E i \in 1..Len(dpcList) : Probe(MakeDNS(dpcList[i]))

\* Once configuration and network stop changing, if a candidate works the
\* engine ends Idle on a config that passes tryDeviceConnectivityToCloud.
Converges ==
    <>[](SomeCandidateWorks =>
            /\ ~pending.inprogress /\ ~exhausted
            /\ currentIndex # NoIndex /\ Probe(dns))

-----------------------------------------------------------------------------
(* What spec.md promises and the runs find the code does not keep *)

\* "Try to do better": while a lower-priority candidate is in effect the
\* NetworkTestBetterTimer keeps forcing RestartVerify, so once the top
\* candidate works and nothing changes any more, it is the one in effect.
TopCandidatePreferred ==
    <>[]((dpcList # <<>> /\ Probe(MakeDNS(dpcList[1]))) => currentIndex = 0)

\* Probe protocol: when DHCP supplies the address a pending candidate was
\* waiting for, HandleAddressChange runs VerifyDevicePortConfig at once.
AddressKicksVerification ==
    [][ ( /\ pending.inprogress
          /\ Len(addrQ') < Len(addrQ)
          /\ ~AllDNSPortsHaveIPAddrs(PendingDPC, PendingDPC.mgmt \cap ifAddrs)
          /\ AllDNSPortsHaveIPAddrs(PendingDPC, PendingDPC.mgmt \cap ifAddrs') )
        => (~pending'.inprogress \/ nextDPCIndex' # nextDPCIndex) ]_vars

=============================================================================
