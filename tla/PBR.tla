-------------------------------- MODULE PBR --------------------------------
(***************************************************************************)
(* zedrouter's policy-based routing (src/unnamed/part_001, the "uplink"   *)
(* version that handles link events): the ifindex->name and               *)
(* ifindex->addresses caches fed by three netlink subscriptions, and the   *)
(* handlers that copy main-table routes of free uplinks into FreeTable,    *)
(* every route of interface i into table FreeTable+i, and add a source     *)
(* rule per address.                                                       *)
(*                                                                         *)
(* Data abstraction: a route is "the default route via ifindex i" of a     *)
(* table, so a table is a set of indices; an interface has at most one     *)
(* address, so the address cache and the rules are sets of indices.  The   *)
(* kernel (links, addresses, main table) is the environment.               *)
(***************************************************************************)
EXTENDS Integers, Sequences, SequencesExt, FiniteSets

CONSTANTS
    Index,          \* ifindex values
    Names,          \* interface names
    MaxEnvSteps,    \* bound on kernel and configuration changes
    MaxRestarts,    \* bound on zedrouter restarts
    Renames,        \* the kernel may rename a link
    FreeConfigs     \* the free-uplink sets the configuration takes

Absent == "absent"  \* no link with this index yet
Gone == "gone"      \* link deleted (the kernel does not reuse the index)
NoName == "none"    \* no entry in ifindexToName

VARIABLES
    klink,          \* kernel: index -> name, Absent or Gone
    kaddr,          \* kernel: indices with an address
    main,           \* kernel: main-table routes
    free,           \* kernel: FreeTable routes
    my,             \* kernel: routes in table FreeTable+i, per index i
    rules,          \* kernel: source rules to table FreeTable+i
    linkQ,          \* undelivered link updates
    addrQ,          \* undelivered address updates
    routeQ,         \* undelivered main-table route updates
    ifindexToName,  \* cache: index -> name or NoName
    ifindexToAddrs, \* cache: indices with an address
    freeUplinkList, \* the free uplinks setFreeUplinks last applied
    freeCfg,        \* free uplinks of *deviceUplinkConfig
    restarts,
    envSteps

kernelVars == <<klink, kaddr, main, free, my, rules>>
queueVars == <<linkQ, addrQ, routeQ>>
cacheVars == <<ifindexToName, ifindexToAddrs, freeUplinkList>>
vars == <<kernelVars, queueVars, cacheVars, freeCfg, restarts, envSteps>>

Present == {i \in Index : klink[i] \in Names}

-----------------------------------------------------------------------------
(* Cache lookups *)

\* IfindexToName: the cache, else a netlink LinkByIndex fallback.
IfindexToName(i) ==
    IF ifindexToName[i] # NoName THEN ifindexToName[i]
    ELSE IF klink[i] \in Names THEN klink[i]
    ELSE NoName

\* IfnameToIndex: the indices the cache maps to name n (no fallback);
\* the loop over the Go map returns any one of them.
IfnameToIndex(n) == {i \in Index : ifindexToName[i] = n}

\* moveRoutesTable(0, i, FreeTable): copy i's main-table route.
MoveRoutesToFree(S) == free \cup (S \cap main)

\* flushRoutesTable(T, i): delete the routes via i from table T.
FlushRoutesTable(T, S) == T \ S

\* flushRules(i): delete the rules to table FreeTable+i.
FlushRules(i) == rules \ {i}

\* addSourceRule / delSourceRule (the add first deletes a duplicate).
AddSourceRule(i) == rules \cup {i}
DelSourceRule(i) == rules \ {i}

\* The indices IfnameToIndex may return for name n: one of the cached
\* ones, or none (an error) when the cache has no such name.
IndexChoices(n) ==
    IF IfnameToIndex(n) = {} THEN {{}} ELSE {{i} : i \in IfnameToIndex(n)}

-----------------------------------------------------------------------------
(* Handlers (part_001) *)

\* setFreeUplinks: copy the main routes of newly free uplinks into
\* FreeTable, flush FreeTable of uplinks no longer free, remember F.
SetFreeUplinks(F) ==
    LET added   == F \ freeUplinkList
        removed == freeUplinkList \ F
    IN \E pick \in [added \cup removed -> SUBSET Index] :
         /\ \A n \in added \cup removed : pick[n] \in IndexChoices(n)
         /\ free' = FlushRoutesTable(
                        MoveRoutesToFree(UNION {pick[n] : n \in added}),
                        UNION {pick[n] : n \in removed})
         /\ freeUplinkList' = F

\* PbrRouteChange for a main-table route via interface i.  The route is
\* copied to FreeTable if i's name is a free uplink, and always to table
\* FreeTable+i; RouteAdd fails once the link is gone.
PbrRouteChange ==
    LET ev     == Head(routeQ)
        i      == ev.idx
        doFree == IfindexToName(i) \in freeCfg
        ok     == klink[i] \in Names
    IN
    /\ routeQ # <<>>
    /\ routeQ' = Tail(routeQ)
    /\ IF ev.new
       THEN /\ free' = IF doFree /\ ok THEN free \cup {i} ELSE free
            /\ my' = IF ok THEN my \cup {i} ELSE my
       ELSE /\ free' = IF doFree THEN free \ {i} ELSE free
            /\ my' = my \ {i}
    /\ UNCHANGED <<klink, kaddr, main, rules, linkQ, addrQ, cacheVars,
                   freeCfg, restarts, envSteps>>

\* Mutant: IfindexToAddrsAdd returns found instead of !found.
IfindexToAddrsChangedFlip(i, new) ==
    IF new THEN i \in ifindexToAddrs ELSE i \in ifindexToAddrs

\* IfindexToAddrsAdd/Del: TRUE when the cache changed.
IfindexToAddrsChanged(i, new) == (i \in ifindexToAddrs) # new

\* PbrAddrChange: update the address cache; when it changed, add or
\* delete the source rule to table FreeTable+i.
PbrAddrChange ==
    LET ev      == Head(addrQ)
        i       == ev.idx
    IN
    /\ addrQ # <<>>
    /\ addrQ' = Tail(addrQ)
    /\ ifindexToAddrs' = IF ev.new THEN ifindexToAddrs \cup {i}
                         ELSE ifindexToAddrs \ {i}
    /\ rules' = IF ~IfindexToAddrsChanged(i, ev.new) THEN rules
                ELSE IF ev.new THEN AddSourceRule(i) ELSE DelSourceRule(i)
    /\ UNCHANGED <<klink, kaddr, main, free, my, linkQ, routeQ,
                   ifindexToName, freeUplinkList, freeCfg, restarts,
                   envSteps>>

\* IfindexToNameAdd returns TRUE only for an unknown index.
IfindexToNameAdd(i, n) == ifindexToName[i] = NoName

\* Mutant: the name-mismatch branch keeps the old name.
CachedNameKeep(i, n) ==
    IF ifindexToName[i] = NoName THEN n ELSE ifindexToName[i]

\* The name IfindexToNameAdd leaves in the cache: the new one, also on
\* a mismatch (a rename).
CachedName(i, n) == n

\* IfindexToNameDel: true when the index was cached (also on a name
\* mismatch); the entry is deleted either way.
IfindexToNameDel(i) == ifindexToName[i] # NoName

\* PbrLinkChange.  RTM_NEWLINK of a new index that is a free uplink moves
\* its routes to FreeTable.  RTM_DELLINK of a known index flushes its
\* FreeTable routes (if the event's name is a free uplink), its own table
\* and its rules.
PbrLinkChange ==
    LET ev == Head(linkQ)
        i  == ev.idx
        n  == ev.name
    IN
    /\ linkQ # <<>>
    /\ linkQ' = Tail(linkQ)
    /\ IF ev.new
       THEN /\ ifindexToName' =
                   [ifindexToName EXCEPT ![i] = CachedName(i, n)]
            /\ free' = IF IfindexToNameAdd(i, n) /\ n \in freeCfg
                       THEN MoveRoutesToFree({i}) ELSE free
            /\ UNCHANGED <<my, rules>>
       ELSE LET gone == IfindexToNameDel(i) IN
            /\ ifindexToName' = [ifindexToName EXCEPT ![i] = NoName]
            /\ free' = IF gone /\ n \in freeCfg
                       THEN FlushRoutesTable(free, {i}) ELSE free
            /\ my' = IF gone THEN FlushRoutesTable(my, {i}) ELSE my
            /\ rules' = IF gone THEN FlushRules(i) ELSE rules
    /\ UNCHANGED <<klink, kaddr, main, addrQ, routeQ, ifindexToAddrs,
                   freeUplinkList, freeCfg, restarts, envSteps>>

-----------------------------------------------------------------------------
(* The kernel and the configuration (environment) *)

LinkEv(new, i, n) == [new |-> new, idx |-> i, name |-> n]
AddrEv(new, i) == [new |-> new, idx |-> i]
RouteEv(new, i) == [new |-> new, idx |-> i]

EnvStep == envSteps < MaxEnvSteps /\ envSteps' = envSteps + 1

\* A link appears under a name no other link has.
LinkAdd(i, n) ==
    /\ EnvStep
    /\ klink[i] = Absent
    /\ \A j \in Present : klink[j] # n
    /\ klink' = [klink EXCEPT ![i] = n]
    /\ linkQ' = Append(linkQ, LinkEv(TRUE, i, n))
    /\ UNCHANGED <<kaddr, main, free, my, rules, addrQ, routeQ, cacheVars,
                   freeCfg, restarts>>

\* A link is renamed (vif* to bu*, ethN to a predictable name).
LinkRename(i, n) ==
    /\ Renames
    /\ EnvStep
    /\ i \in Present
    /\ \A j \in Present : klink[j] # n
    /\ klink' = [klink EXCEPT ![i] = n]
    /\ linkQ' = Append(linkQ, LinkEv(TRUE, i, n))
    /\ UNCHANGED <<kaddr, main, free, my, rules, addrQ, routeQ, cacheVars,
                   freeCfg, restarts>>

\* A link is deleted: the kernel drops its address (RTM_DELADDR) and its
\* routes in every table without an RTM_DELROUTE, then sends RTM_DELLINK.
LinkDel(i) ==
    /\ EnvStep
    /\ i \in Present
    /\ klink' = [klink EXCEPT ![i] = Gone]
    /\ kaddr' = kaddr \ {i}
    /\ main' = main \ {i}
    /\ free' = free \ {i}
    /\ my' = my \ {i}
    /\ addrQ' = IF i \in kaddr THEN Append(addrQ, AddrEv(FALSE, i)) ELSE addrQ
    /\ linkQ' = Append(linkQ, LinkEv(FALSE, i, klink[i]))
    /\ UNCHANGED <<rules, routeQ, cacheVars, freeCfg, restarts>>

\* DHCP adds or removes the address of a link.
AddrAdd(i) ==
    /\ EnvStep
    /\ i \in Present \ kaddr
    /\ kaddr' = kaddr \cup {i}
    /\ addrQ' = Append(addrQ, AddrEv(TRUE, i))
    /\ UNCHANGED <<klink, main, free, my, rules, linkQ, routeQ, cacheVars,
                   freeCfg, restarts>>

AddrDel(i) ==
    /\ EnvStep
    /\ i \in kaddr
    /\ kaddr' = kaddr \ {i}
    /\ addrQ' = Append(addrQ, AddrEv(FALSE, i))
    /\ UNCHANGED <<klink, main, free, my, rules, linkQ, routeQ, cacheVars,
                   freeCfg, restarts>>

\* DHCP adds or removes the default route via a link in the main table.
RouteAdd(i) ==
    /\ EnvStep
    /\ i \in Present \ main
    /\ main' = main \cup {i}
    /\ routeQ' = Append(routeQ, RouteEv(TRUE, i))
    /\ UNCHANGED <<klink, kaddr, free, my, rules, linkQ, addrQ, cacheVars,
                   freeCfg, restarts>>

RouteDel(i) ==
    /\ EnvStep
    /\ i \in main
    /\ main' = main \ {i}
    /\ routeQ' = Append(routeQ, RouteEv(FALSE, i))
    /\ UNCHANGED <<klink, kaddr, free, my, rules, linkQ, addrQ, cacheVars,
                   freeCfg, restarts>>

\* A new DeviceUplinkConfig changes the free uplinks; zedrouter stores it
\* and calls setFreeUplinks.
ConfigChange(F) ==
    /\ EnvStep
    /\ F \in FreeConfigs \ {freeCfg}
    /\ freeCfg' = F
    /\ SetFreeUplinks(F)
    /\ UNCHANGED <<klink, kaddr, main, my, rules, queueVars, ifindexToName,
                   ifindexToAddrs, restarts>>

-----------------------------------------------------------------------------
(* Start and restart of zedrouter: PbrInit *)

\* The ListExisting replay of a subscription: one "new" event per object.
Replay(E) == SetToSeq(E)

\* PbrInit in a fresh process: setFreeUplinks with empty caches moves
\* nothing; the caches start empty; FreeTable is flushed; flushRules(0)
\* deletes only rules to FreeTable itself; the subscriptions replay the
\* kernel's links, addresses and routes.  Undelivered events of the old
\* process are lost.
PbrInit ==
    /\ free' = FlushRoutesTable(free, Index)
    /\ ifindexToName' = [i \in Index |-> NoName]
    /\ ifindexToAddrs' = {}
    /\ freeUplinkList' = freeCfg
    /\ linkQ' = Replay({LinkEv(TRUE, i, klink[i]) : i \in Present})
    /\ addrQ' = Replay({AddrEv(TRUE, i) : i \in kaddr})
    /\ routeQ' = Replay({RouteEv(TRUE, i) : i \in main})

Restart ==
    /\ restarts < MaxRestarts
    /\ restarts' = restarts + 1
    /\ PbrInit
    /\ UNCHANGED <<klink, kaddr, main, my, rules, freeCfg, envSteps>>

-----------------------------------------------------------------------------
(* Specification *)

\* Kernel names are unique among present links.
UniqueNames(k) ==
    \A i, j \in Index : k[i] \in Names /\ k[i] = k[j] => i = j

\* Boot: any set of links, addresses and main routes; no FreeTable,
\* per-index table or rule yet; zedrouter runs PbrInit.
Init ==
    /\ klink \in {k \in [Index -> Names \cup {Absent}] : UniqueNames(k)}
    /\ kaddr \in SUBSET Present
    /\ main \in SUBSET Present
    /\ my = {}
    /\ rules = {}
    /\ freeCfg \in FreeConfigs
    /\ free = {}
    /\ ifindexToName = [i \in Index |-> NoName]
    /\ ifindexToAddrs = {}
    /\ freeUplinkList = freeCfg
    /\ linkQ = Replay({LinkEv(TRUE, i, klink[i]) : i \in Present})
    /\ addrQ = Replay({AddrEv(TRUE, i) : i \in kaddr})
    /\ routeQ = Replay({RouteEv(TRUE, i) : i \in main})
    /\ restarts = 0
    /\ envSteps = 0

\* zedrouter's select loop serves the three channels in any order.
Next ==
    \/ PbrLinkChange
    \/ PbrAddrChange
    \/ PbrRouteChange
    \/ Restart
    \/ \E i \in Index, n \in Names : LinkAdd(i, n) \/ LinkRename(i, n)
    \/ \E i \in Index : \/ LinkDel(i)
                        \/ AddrAdd(i) \/ AddrDel(i)
                        \/ RouteAdd(i) \/ RouteDel(i)
    \/ \E F \in FreeConfigs : ConfigChange(F)

\* The loop serves every ready channel; the kernel delivers subscribed
\* events.  The environment is bounded and gets no fairness.
Fairness ==
    /\ WF_vars(PbrLinkChange)
    /\ WF_vars(PbrAddrChange)
    /\ WF_vars(PbrRouteChange)

Spec == Init /\ [][Next]_vars /\ Fairness

-----------------------------------------------------------------------------
(* Properties *)

\* Every netlink update delivered and handled.
Quiescent == linkQ = <<>> /\ addrQ = <<>> /\ routeQ = <<>>

\* Once every update is handled, IfindexToNameAdd/Del and
\* IfindexToAddrsAdd/Del have left the caches equal to the kernel's
\* links and addresses, across renames, deletions and restarts.
CachesMatchKernel ==
    Quiescent =>
        /\ \A i \in Index :
               ifindexToName[i] = IF i \in Present THEN klink[i] ELSE NoName
        /\ ifindexToAddrs = kaddr

\* Once every update is handled, PbrRouteChange has copied every
\* main-table route into its interface's table FreeTable+i and
\* PbrAddrChange has added a source rule for every address, also after
\* a restart of zedrouter.
TablesComplete ==
    Quiescent => main \subseteq my /\ kaddr \subseteq rules

\* ... and no per-interface route or source rule outlives the route or
\* address it was made for.
TablesExact ==
    Quiescent => my \subseteq main /\ rules \subseteq kaddr

=============================================================================
