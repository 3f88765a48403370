--------------------------- MODULE IptablesAccess ---------------------------
(***************************************************************************)
(* nim's GlobalConfig handlers (src/cmd/nim/nim.go 530-594) and the        *)
(* firewall toggling they call (src/iptables/ssh.go).  The handlers run in *)
(* nim's single loop.  ctx.sshAccess starts TRUE (the kernel has no       *)
(* filters) and ctx.allowAppVnc FALSE; the first GlobalConfig, or the      *)
(* Synchronized callback when there is none, blocks 8080 and 4822.  A      *)
(* port range is blocked by appending a REJECT rule to INPUT (iptables    *)
(* -A, the same for ip6tables) and opened by deleting one (iptables -D,   *)
(* which removes one matching rule and fails when there is none).  The     *)
(* INPUT chain is therefore a bag of rules.  GlobalConfig is reduced to    *)
(* its SshAccess and AllowAppVnc fields.                                   *)
(***************************************************************************)
EXTENDS Naturals, Sequences

CONSTANTS
    Configs,        \* GlobalConfig values zedagent may publish: [ssh, vnc]
    MaxEnvSteps,    \* bound on publications after the initial ones
    NoConfig        \* no GlobalConfig published

\* The port ranges the handlers filter.
Port8080 == "8080"
Port4822 == "4822"
PortSsh == "22"
PortsVnc == "5900:5999"
Rules == {Port8080, Port4822, PortSsh, PortsVnc}

\* GlobalConfig subscription changes.
Modify(c) == [kind |-> "modify", cfg |-> c]
Delete == [kind |-> "delete", cfg |-> NoConfig]
Synchronized == [kind |-> "sync", cfg |-> NoConfig]

VARIABLES
    gcQ,            \* subscription changes not yet handled
    gcPub,          \* zedagent's GlobalConfig, or NoConfig
    gcInitialized,  \* ctx.GCInitialized
    sshAccess,      \* ctx.sshAccess
    allowAppVnc,    \* ctx.allowAppVnc
    chain,          \* INPUT: rule -> number of copies
    envSteps

vars == <<gcQ, gcPub, gcInitialized, sshAccess, allowAppVnc, chain, envSteps>>

-----------------------------------------------------------------------------
(* iptables/ssh.go *)

\* dropPortRange: iptables -A INPUT ... --dport r -j REJECT.
dropPortRange(ch, r) == [ch EXCEPT ![r] = @ + 1]

\* allowPortRange: iptables -D of the same rule; an error when absent is
\* only logged.
allowPortRange(ch, r) == [ch EXCEPT ![r] = IF @ > 0 THEN @ - 1 ELSE 0]

\* UpdateSshAccess: the first call also blocks 8080 and 4822.
UpdateSshAccess(ch, enable, first) ==
    LET always == IF first
                  THEN dropPortRange(dropPortRange(ch, Port8080), Port4822)
                  ELSE ch
    IN IF enable THEN allowPortRange(always, PortSsh)
                 ELSE dropPortRange(always, PortSsh)

UpdateVncAccess(ch, enable) ==
    IF enable THEN allowPortRange(ch, PortsVnc) ELSE dropPortRange(ch, PortsVnc)

-----------------------------------------------------------------------------
(* nim's GlobalConfig handlers *)

\* handleGlobalConfigModify: on the first GlobalConfig, or when a field
\* differs from the one last applied, record it and update the filter.
HandleGlobalConfigModify(c) ==
    LET first == ~gcInitialized
        doSsh == c.ssh # sshAccess \/ first
        doVnc == c.vnc # allowAppVnc \/ first
        ch1 == IF doSsh THEN UpdateSshAccess(chain, c.ssh, first) ELSE chain
        ch2 == IF doVnc THEN UpdateVncAccess(ch1, c.vnc) ELSE ch1
    IN /\ sshAccess' = IF doSsh THEN c.ssh ELSE sshAccess
       /\ allowAppVnc' = IF doVnc THEN c.vnc ELSE allowAppVnc
       /\ chain' = ch2
       /\ gcInitialized' = TRUE

\* handleGlobalConfigDelete: only forgets that GlobalConfig was seen.
HandleGlobalConfigDelete ==
    /\ gcInitialized' = FALSE
    /\ UNCHANGED <<sshAccess, allowAppVnc, chain>>

\* handleGlobalConfigSynchronized(done): without any GlobalConfig, apply
\* the kernel default for ssh (and block 8080 and 4822).
HandleGlobalConfigSynchronized ==
    /\ chain' = IF ~gcInitialized THEN UpdateSshAccess(chain, sshAccess, TRUE)
                                  ELSE chain
    /\ gcInitialized' = TRUE
    /\ UNCHANGED <<sshAccess, allowAppVnc>>

\* case change := <-subGlobalConfig.C, in the wait for GCInitialized and
\* in every later select of Run.
GCChange ==
    LET ev == Head(gcQ) IN
    /\ gcQ # <<>>
    /\ gcQ' = Tail(gcQ)
    /\ CASE ev.kind = "modify" -> HandleGlobalConfigModify(ev.cfg)
         [] ev.kind = "delete" -> HandleGlobalConfigDelete
         [] ev.kind = "sync"   -> HandleGlobalConfigSynchronized
    /\ UNCHANGED <<gcPub, envSteps>>

-----------------------------------------------------------------------------
(* Environment: zedagent's GlobalConfig *)

EnvStep == envSteps < MaxEnvSteps /\ envSteps' = envSteps + 1

ZedagentPublish(c) ==
    /\ EnvStep
    /\ gcPub' = c
    /\ gcQ' = Append(gcQ, Modify(c))
    /\ UNCHANGED <<gcInitialized, sshAccess, allowAppVnc, chain>>

ZedagentUnpublish ==
    /\ EnvStep
    /\ gcPub # NoConfig
    /\ gcPub' = NoConfig
    /\ gcQ' = Append(gcQ, Delete)
    /\ UNCHANGED <<gcInitialized, sshAccess, allowAppVnc, chain>>

\* Run: the kernel has no filters; Activate replays an existing
\* GlobalConfig, then reports the subscription synchronized.
Init ==
    /\ gcPub \in Configs \cup {NoConfig}
    /\ gcQ = IF gcPub = NoConfig THEN <<Synchronized>>
                                 ELSE <<Modify(gcPub), Synchronized>>
    /\ gcInitialized = FALSE
    /\ sshAccess = TRUE
    /\ allowAppVnc = FALSE
    /\ chain = [r \in Rules |-> 0]
    /\ envSteps = 0

Next ==
    \/ GCChange
    \/ \E c \in Configs : ZedagentPublish(c)
    \/ ZedagentUnpublish

Spec == Init /\ [][Next]_vars /\ WF_vars(GCChange)

-----------------------------------------------------------------------------
(* Properties *)

Blocked(r) == chain[r] > 0

\* Once nim has seen GlobalConfig, port 22 is filtered exactly when the
\* SshAccess it last applied is off: UpdateSshAccess keeps the kernel in
\* step with ctx.sshAccess across every sequence of modifies and deletes.
SshFilterMatchesConfig == gcInitialized => (Blocked(PortSsh) <=> ~sshAccess)

=============================================================================
