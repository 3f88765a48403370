----------------------------- MODULE LedManager -----------------------------
(***************************************************************************)
(* LED signalling: the ledmanager agent (src/cmd/ledmanager/ledmanager.go) *)
(* and the client's doDNSUpdate (src/cmd/client/dnc.go).                   *)
(*                                                                         *)
(* ledmanager's pubsub handlers run in its main loop.  They merge the     *)
(* LedBlinkCounter "ledconfig" written by the agents with whether nim's    *)
(* DeviceNetworkStatus has usable addresses, and hand the result to the    *)
(* TriggerBlinkOnDevice goroutine over the unbuffered channel countChange. *)
(* The send blocks the main loop until the goroutine reaches its select,   *)
(* once per blink cycle.                                                   *)
(*                                                                         *)
(* Publications are delivered in order, one handler call per publication. *)
(* A DeviceNetworkStatus is reduced to Testing, the usable address count   *)
(* and whether it has ports at all (the empty status of a delete has none).*)
(***************************************************************************)
EXTENDS Integers, Sequences

CONSTANTS
    MaxAddrs,       \* usable addresses a status can count
    AgentValues,    \* counters other agents write to ledconfig (nim's 11, ...)
    MaxEnvSteps     \* bound on publications and kernel changes

LedDelete == -1     \* a delete of ledconfig

Status == [testing : BOOLEAN, count : 0..MaxAddrs, ports : BOOLEAN]
EmptyStatus == [testing |-> FALSE, count |-> 0, ports |-> FALSE]
NoneYet == -1

VARIABLES
    kcount,         \* kernel: usable addresses on the management ports
    ledQ,           \* ledconfig publications not yet handled by ledmanager
    dnsQ,           \* DeviceNetworkStatus publications not yet handled
    clientStatus,   \* client ctx.deviceNetworkStatus
    clientCount,    \* client ctx.usableAddressCount
    lmStatus,       \* ledmanager ctx.deviceNetworkStatus
    usableAddressCount,
    ledCounter,
    derivedLedCounter,
    lmPc,           \* "loop", or "send": blocked in countChange <- derived
    counter,        \* TriggerBlinkOnDevice's counter
    ledPub,         \* history: the ledconfig value last written (0: deleted)
    lastDNS,        \* history: count of the last non-Testing status published
    envSteps

clientVars == <<clientStatus, clientCount>>
lmVars == <<lmStatus, usableAddressCount, ledCounter, derivedLedCounter, lmPc>>
vars == <<kcount, ledQ, dnsQ, clientVars, lmVars, counter, ledPub, lastDNS,
          envSteps>>

-----------------------------------------------------------------------------
(* ledmanager (ledmanager.go) *)

\* updateDerivedLedCounter's merge of the ledconfig counter with "has
\* usable addresses".
DerivedCounter(led, usable) ==
    IF usable = 0 THEN 1 ELSE IF led < 2 THEN 2 ELSE led

\* Mutant: the send made non-blocking (select with default), so an
\* update is dropped while the goroutine is blinking.
UpdateDerivedLedCounterNonBlocking(led, usable) ==
    /\ derivedLedCounter' = DerivedCounter(led, usable)
    /\ lmPc' = lmPc

\* updateDerivedLedCounter: compute, then block sending it to the
\* blink goroutine.
UpdateDerivedLedCounter(led, usable) ==
    /\ derivedLedCounter' = DerivedCounter(led, usable)
    /\ lmPc' = "send"

\* Mutant: only the rise from zero is tested.
CrossesZeroUp(old, new) == old = 0 /\ new # 0

\* The zero crossing test of handleDNSModify and handleDNSDelete.
CrossesZero(old, new) == (old = 0 /\ new # 0) \/ (old # 0 /\ new = 0)

Idle == lmPc = "loop"

\* Mutant: handleLedBlinkModify registered as the delete handler too.
HandleLedBlinkNoDelete ==
    LET v == Head(ledQ) IN
    /\ Idle
    /\ ledQ # <<>>
    /\ ledQ' = Tail(ledQ)
    /\ IF v = ledCounter
       THEN UNCHANGED <<ledCounter, derivedLedCounter, lmPc>>
       ELSE /\ ledCounter' = v
            /\ UpdateDerivedLedCounter(v, usableAddressCount)
    /\ UNCHANGED <<kcount, dnsQ, clientVars, lmStatus, usableAddressCount,
                   counter, ledPub, lastDNS, envSteps>>

\* subLedBlinkCounter.ProcessChange: handleLedBlinkModify or
\* handleLedBlinkDelete for key "ledconfig".
HandleLedBlink ==
    LET v == Head(ledQ) IN
    /\ Idle
    /\ ledQ # <<>>
    /\ ledQ' = Tail(ledQ)
    /\ IF v = LedDelete
       THEN /\ ledCounter' = 0
            /\ UpdateDerivedLedCounter(0, usableAddressCount)
       ELSE IF v = ledCounter
       THEN UNCHANGED <<ledCounter, derivedLedCounter, lmPc>>
       ELSE /\ ledCounter' = v
            /\ UpdateDerivedLedCounter(v, usableAddressCount)
    /\ UNCHANGED <<kcount, dnsQ, clientVars, lmStatus, usableAddressCount,
                   counter, ledPub, lastDNS, envSteps>>

\* A publication of DeviceNetworkStatus: a modify with the status, or a
\* delete.
DNSEvent == [del : BOOLEAN, st : Status]

\* The status handleDNSModify / handleDNSDelete installs.
StatusOf(e) == IF e.del THEN EmptyStatus ELSE e.st

\* subDeviceNetworkStatus.ProcessChange for key "global": a Testing
\* status or an unchanged one is ignored; a delete installs the empty
\* status; the derived counter is updated only when the usable count
\* crosses zero.
HandleDNS ==
    LET e   == Head(dnsQ)
        new == StatusOf(e).count
    IN
    /\ Idle
    /\ dnsQ # <<>>
    /\ dnsQ' = Tail(dnsQ)
    /\ IF ~e.del /\ (e.st.testing \/ e.st = lmStatus)
       THEN UNCHANGED <<lmStatus, usableAddressCount, derivedLedCounter, lmPc>>
       ELSE /\ lmStatus' = StatusOf(e)
            /\ IF CrossesZero(usableAddressCount, new)
               THEN /\ usableAddressCount' = new
                    /\ UpdateDerivedLedCounter(ledCounter, new)
               ELSE UNCHANGED <<usableAddressCount, derivedLedCounter, lmPc>>
    /\ UNCHANGED <<kcount, ledQ, clientVars, ledCounter, counter, ledPub,
                   lastDNS, envSteps>>

\* One iteration of TriggerBlinkOnDevice: the select takes a pending send
\* (a ready case beats default), then the goroutine blinks and sleeps.
BlinkCycle ==
    /\ IF lmPc = "send"
       THEN /\ counter' = derivedLedCounter
            /\ lmPc' = "loop"
       ELSE UNCHANGED <<counter, lmPc>>
    /\ UNCHANGED <<kcount, ledQ, dnsQ, clientVars, lmStatus,
                   usableAddressCount, ledCounter, derivedLedCounter, ledPub,
                   lastDNS, envSteps>>

-----------------------------------------------------------------------------
(* The client (dnc.go) *)

\* A write of ledconfig, as types.UpdateLedManagerConfig does.
WriteLedConfig(v) ==
    /\ ledQ' = Append(ledQ, v)
    /\ ledPub' = v

\* doDNSUpdate: tell ledmanager 1 when the usable count drops to zero,
\* 2 when it rises from zero; remember the count.
DoDNSUpdate(new) ==
    /\ IF new = 0 /\ clientCount # 0 THEN WriteLedConfig(1)
       ELSE IF new # 0 /\ clientCount = 0 THEN WriteLedConfig(2)
       ELSE UNCHANGED <<ledQ, ledPub>>
    /\ clientCount' = new

EnvStep == envSteps < MaxEnvSteps /\ envSteps' = envSteps + 1

\* handleDNCModify for this model's DeviceNetworkConfig: compute the
\* status from the kernel and act on a change.
HandleDNCModify ==
    LET new == [testing |-> FALSE, count |-> kcount, ports |-> TRUE] IN
    /\ EnvStep
    /\ IF new # clientStatus
       THEN /\ clientStatus' = new
            /\ DoDNSUpdate(new.count)
       ELSE UNCHANGED <<clientStatus, clientCount, ledQ, ledPub>>
    /\ UNCHANGED <<kcount, dnsQ, lmVars, counter, lastDNS>>

\* handleDNCDelete of key "global": the status becomes empty.
HandleDNCDelete ==
    /\ EnvStep
    /\ IF EmptyStatus # clientStatus
       THEN /\ clientStatus' = EmptyStatus
            /\ DoDNSUpdate(0)
       ELSE UNCHANGED <<clientStatus, clientCount, ledQ, ledPub>>
    /\ UNCHANGED <<kcount, dnsQ, lmVars, counter, lastDNS>>

-----------------------------------------------------------------------------
(* Environment: the kernel, nim and the other agents *)

KernelChange(n) ==
    /\ EnvStep
    /\ n # kcount
    /\ kcount' = n
    /\ UNCHANGED <<ledQ, dnsQ, clientVars, lmVars, counter, ledPub, lastDNS>>

\* nim publishes its DeviceNetworkStatus, possibly marked Testing.
NimPublish(testing) ==
    /\ EnvStep
    /\ dnsQ' = Append(dnsQ, [del |-> FALSE,
                             st |-> [testing |-> testing, count |-> kcount,
                                     ports |-> TRUE]])
    /\ lastDNS' = IF testing THEN lastDNS ELSE kcount
    /\ UNCHANGED <<kcount, ledQ, clientVars, lmVars, counter, ledPub>>

NimUnpublish ==
    /\ EnvStep
    /\ dnsQ' = Append(dnsQ, [del |-> TRUE, st |-> EmptyStatus])
    /\ lastDNS' = 0
    /\ UNCHANGED <<kcount, ledQ, clientVars, lmVars, counter, ledPub>>

\* Another agent writes or deletes ledconfig (nim, for one, writes 11
\* while waitForDeviceNetworkConfigFile finds no DeviceNetworkConfig).
AgentWrite(v) ==
    /\ EnvStep
    /\ WriteLedConfig(v)
    /\ UNCHANGED <<kcount, dnsQ, clientVars, lmVars, counter, lastDNS>>

AgentDelete ==
    /\ EnvStep
    /\ ledQ' = Append(ledQ, LedDelete)
    /\ ledPub' = 0
    /\ UNCHANGED <<kcount, dnsQ, clientVars, lmVars, counter, lastDNS>>

-----------------------------------------------------------------------------
(* Specification *)

\* device-steps.sh writes ledconfig 1 before the agents start; ledmanager
\* starts with a zero context and the blink goroutine with counter 0.
Init ==
    /\ kcount \in 0..MaxAddrs
    /\ ledQ = <<1>>
    /\ ledPub = 1
    /\ dnsQ = <<>>
    /\ clientStatus = EmptyStatus
    /\ clientCount = 0
    /\ lmStatus = EmptyStatus
    /\ usableAddressCount = 0
    /\ ledCounter = 0
    /\ derivedLedCounter = 0
    /\ lmPc = "loop"
    /\ counter = 0
    /\ lastDNS = NoneYet
    /\ envSteps = 0

\* ledmanager's select loop and the blink goroutine run concurrently.
Next ==
    \/ HandleLedBlink
    \/ HandleDNS
    \/ BlinkCycle
    \/ HandleDNCModify
    \/ HandleDNCDelete
    \/ \E n \in 0..MaxAddrs : KernelChange(n)
    \/ \E t \in BOOLEAN : NimPublish(t)
    \/ NimUnpublish
    \/ \E v \in AgentValues : AgentWrite(v)
    \/ AgentDelete

\* The select loop serves every ready subscription, and the goroutine
\* never stops cycling.
Fairness ==
    /\ WF_vars(HandleLedBlink)
    /\ WF_vars(HandleDNS)
    /\ WF_vars(BlinkCycle)

Spec == Init /\ [][Next]_vars /\ Fairness

-----------------------------------------------------------------------------
(* Properties *)

Counters == {0, 1, 2} \cup AgentValues

TypeOK ==
    /\ kcount \in 0..MaxAddrs
    /\ ledQ \in Seq(Counters \cup {LedDelete})
    /\ dnsQ \in Seq(DNSEvent)
    /\ clientStatus \in Status \cup {EmptyStatus}
    /\ clientCount \in 0..MaxAddrs
    /\ lmStatus \in Status \cup {EmptyStatus}
    /\ usableAddressCount \in 0..MaxAddrs
    /\ {ledCounter, derivedLedCounter, counter, ledPub} \subseteq Counters
    /\ lmPc \in {"loop", "send"}
    /\ lastDNS \in {NoneYet} \cup 0..MaxAddrs
    /\ envSteps \in 0..MaxEnvSteps

\* ledmanager implements LedBlinkHandoff.  ledCounter and whether
\* usableAddressCount is non-zero are the target in effect, the loop
\* blocked in updateDerivedLedCounter's send is a pending target, and the
\* goroutine's counter is what is shown.  The unbuffered countChange
\* channel must keep every handler from taking a new target before the
\* goroutine has received the last one, and the goroutine must blink the
\* merge of exactly that target.
Handoff == INSTANCE LedBlinkHandoff
               WITH LedValues <- Counters,
                    led <- ledCounter,
                    usable <- usableAddressCount # 0,
                    pending <- lmPc = "send",
                    shown <- counter

LedBlinkRefined == Handoff!ASpec

\* Once nim has published a non-Testing status, the LED eventually blinks,
\* and keeps blinking, the merge (updateDerivedLedCounter) of the last
\* ledconfig written and whether the last such status had usable
\* addresses: no update is lost between the publishers, the handlers'
\* change filters and the blink goroutine.
LedShowsState ==
    <>[](lastDNS # NoneYet => counter = DerivedCounter(ledPub, lastDNS))

=============================================================================
