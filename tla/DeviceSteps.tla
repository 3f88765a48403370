----------------------------- MODULE DeviceSteps -----------------------------
(***************************************************************************)
(* The self-registration part of the boot script device-steps.sh (the     *)
(* copy in src/types/domainmgrtypes.go 493-972), across reboots.          *)
(*                                                                         *)
(* The script runs once per boot.  It keeps two things in /config, which  *)
(* survive a reboot: the device key pair and certificate, and the marker  *)
(* file self-register-failed.  The marker is meant to carry an            *)
(* interrupted self-registration over to the next boot.  Everything else  *)
(* (the variable SELF_REGISTER, where the script is) is lost.  The        *)
(* controller's registration of the certificate is the state on the      *)
(* other side.  The client (selfRegister, getUuid) is not in src/: a call  *)
(* succeeds or fails nondeterministically, getUuid can succeed only for a *)
(* registered certificate, and a selfRegister whose reply is lost may     *)
(* still have registered the certificate.  A reboot (power loss, the     *)
(* watchdog) can happen at any point of the script.                       *)
(***************************************************************************)
EXTENDS Integers

CONSTANTS
    ServerConfigured,   \* /config/server and root-certificate.pem exist
    OnboardCertPresent, \* /config/onboard.cert.pem and onboard.key.pem exist
    MaxReboots          \* bound on reboots

\* The values of the shell variable SELF_REGISTER; it is unset at start.
Unset == -1

VARIABLES
    certs,          \* /config/device.cert.pem and device.key.pem exist
    marker,         \* /config/self-register-failed exists
    registered,     \* the controller has registered the device certificate
    selfRegister,   \* SELF_REGISTER
    pc,             \* the step of the script about to run
    reboots

persistent == <<certs, marker, registered>>
vars == <<certs, marker, registered, selfRegister, pc, reboots>>


-----------------------------------------------------------------------------
(* The script *)

\* The key pair check: generate when missing; after an interrupted
\* self-registration ask the controller; otherwise use the existing pair.
CheckKeys ==
    /\ pc = "keys"
    /\ IF ~certs THEN pc' = "generate" /\ UNCHANGED selfRegister
       ELSE IF marker THEN pc' = "getUuidRetry" /\ UNCHANGED selfRegister
       ELSE pc' = "server" /\ selfRegister' = 0
    /\ UNCHANGED <<persistent, reboots>>

\* generate-device.sh writes a new key pair and self-signed certificate,
\* which the controller does not know.
Generate ==
    /\ pc = "generate"
    /\ certs' = TRUE
    /\ registered' = FALSE
    /\ selfRegister' = 1
    /\ pc' = "server"
    /\ UNCHANGED <<marker, reboots>>

\* client -r 5 getUuid: on failure redo the self-registration; on success
\* SELF_REGISTER stays unset and the marker stays.
GetUuidRetry ==
    /\ pc = "getUuidRetry"
    /\ \E ok \in BOOLEAN :
          /\ ok => registered
          /\ selfRegister' = IF ok THEN selfRegister ELSE 1
    /\ pc' = "server"
    /\ UNCHANGED <<persistent, reboots>>

\* No server or root certificate: exit 0.  Otherwise self-register when
\* SELF_REGISTER is 1 ([ $SELF_REGISTER = 1 ] is false when it is unset).
CheckServer ==
    /\ pc = "server"
    /\ pc' = IF ~ServerConfigured THEN "exit"
             ELSE IF selfRegister = 1 THEN "touch"
             ELSE "getUuid"
    /\ UNCHANGED <<persistent, selfRegister, reboots>>

\* touch self-register-failed; without an onboarding certificate exit 1.
TouchMarker ==
    /\ pc = "touch"
    /\ marker' = TRUE
    /\ pc' = IF OnboardCertPresent THEN "selfRegister" ELSE "exit"
    /\ UNCHANGED <<certs, registered, selfRegister, reboots>>

\* client selfRegister: exit 1 on failure.  The controller may have
\* registered the certificate although the client saw a failure.
SelfRegister ==
    /\ pc = "selfRegister"
    /\ \E ok \in BOOLEAN :
          /\ registered' \in IF ok THEN {TRUE} ELSE {registered, TRUE}
          /\ pc' = IF ok THEN "clear" ELSE "exit"
    /\ UNCHANGED <<certs, marker, selfRegister, reboots>>

\* rm -f self-register-failed.
ClearMarker ==
    /\ pc = "clear"
    /\ marker' = FALSE
    /\ pc' = "getUuid"
    /\ UNCHANGED <<certs, registered, selfRegister, reboots>>

\* client getUuid; its exit status is not checked.
GetUuid ==
    /\ pc = "getUuid"
    /\ pc' = "agents"
    /\ UNCHANGED <<persistent, selfRegister, reboots>>

\* The LISP directory is assumed present.  After a self-registration a
\* missing DeviceNetworkConfig model file is generated from find-uplink.sh,
\* exiting 1 when no uplink is found; then the watchdog for all agents,
\* the agents, logmanager and diag start.
StartAgents ==
    /\ pc = "agents"
    /\ \E found \in BOOLEAN :
          pc' = IF selfRegister = 1 /\ ~found THEN "exit" ELSE "running"
    /\ UNCHANGED <<persistent, selfRegister, reboots>>

-----------------------------------------------------------------------------
(* Faults *)

\* A reboot at any point: /config survives, the script starts over.
Reboot ==
    /\ reboots < MaxReboots
    /\ reboots' = reboots + 1
    /\ pc' = "keys"
    /\ selfRegister' = Unset
    /\ UNCHANGED persistent

\* A device from the factory: no key pair, no marker, unknown to the
\* controller; the script starts with SELF_REGISTER unset.
Init ==
    /\ certs = FALSE
    /\ marker = FALSE
    /\ registered = FALSE
    /\ selfRegister = Unset
    /\ pc = "keys"
    /\ reboots = 0

\* One step of the script.
ScriptStep ==
    \/ CheckKeys
    \/ Generate
    \/ GetUuidRetry
    \/ CheckServer
    \/ TouchMarker
    \/ SelfRegister
    \/ ClearMarker
    \/ GetUuid
    \/ StartAgents

Next == ScriptStep \/ Reboot

\* The script runs to its end unless the device reboots.
Spec == Init /\ [][Next]_vars /\ WF_vars(ScriptStep)

-----------------------------------------------------------------------------
(* Properties *)

\* Whenever the script has started zedagent and the other agents, the
\* controller has registered the device certificate: the
\* self-register-failed marker carries an interrupted self-registration
\* over any reboot, so no boot takes the "existing device key pair" path
\* for a certificate that was never registered.
RunsRegistered == pc = "running" => registered

=============================================================================
