---------------------------- MODULE LedManagerV0 ----------------------------
(***************************************************************************)
(* The watcher-based ledmanager (cmd/ledmanager/ledmanager.go 505-650).    *)
(* watch.WatchStatus reports a change of a file in the config directory   *)
(* as an event "M" (modified) or "D" (deleted) on the unbuffered channel   *)
(* ledChanges; watch.HandleStatusEvent then reads and decodes the file as  *)
(* it is when the event is handled.  The main loop suppresses a counter    *)
(* equal to the package variable oldCounter, and hands the others to the   *)
(* TriggerBlinkOnDevice goroutine over the unbuffered channel countChange. *)
(***************************************************************************)
EXTENDS Integers, Sequences

CONSTANTS
    AgentValues,    \* counters the agents write to ledconfig
    MaxEnvSteps     \* bound on agent writes and deletes

Absent == -1        \* ledconfig does not exist

VARIABLES
    ledChanges,     \* watcher events not yet handled, "M" or "D"
    ledFile,        \* the content of ledconfig, or Absent
    oldCounter,
    lmPc,           \* "loop", "send" (modify), "sendDel", "afterDel"
    sendVal,        \* the value being sent on countChange
    counter,        \* TriggerBlinkOnDevice's counter
    envSteps

vars == <<ledChanges, ledFile, oldCounter, lmPc, sendVal, counter, envSteps>>

Idle == lmPc = "loop"

\* The counter ledconfig asks for: a missing file asks for none.
FileCount == IF ledFile = Absent THEN 0 ELSE ledFile

\* HandleStatusEvent on "M": read ledconfig (nothing to do if it has gone
\* since), then handleLedBlinkModify: suppress a counter equal to
\* oldCounter, else remember it and block sending it.
HandleLedBlinkModify ==
    /\ Idle
    /\ ledChanges # <<>>
    /\ Head(ledChanges) = "M"
    /\ ledChanges' = Tail(ledChanges)
    /\ IF ledFile = Absent \/ ledFile = oldCounter
       THEN UNCHANGED <<oldCounter, lmPc, sendVal>>
       ELSE /\ oldCounter' = ledFile
            /\ lmPc' = "send"
            /\ sendVal' = ledFile
    /\ UNCHANGED <<ledFile, counter, envSteps>>

\* HandleStatusEvent on "D": handleLedBlinkDelete, up to its blocking
\* send of 0.  oldCounter is left as it was.
HandleLedBlinkDelete ==
    /\ Idle
    /\ ledChanges # <<>>
    /\ Head(ledChanges) = "D"
    /\ ledChanges' = Tail(ledChanges)
    /\ lmPc' = "sendDel"
    /\ sendVal' = 0
    /\ UNCHANGED <<ledFile, oldCounter, counter, envSteps>>

\* The rest of handleLedBlinkDelete once 0 is handed over:
\* types.UpdateLedManagerConfig(0) writes ledconfig, which the watcher
\* reports as a modification.
FinishLedBlinkDelete ==
    /\ lmPc = "afterDel"
    /\ ledFile' = 0
    /\ ledChanges' = Append(ledChanges, "M")
    /\ lmPc' = "loop"
    /\ UNCHANGED <<oldCounter, sendVal, counter, envSteps>>

\* One iteration of TriggerBlinkOnDevice: take a pending send, blink,
\* sleep.
BlinkCycle ==
    /\ IF lmPc \in {"send", "sendDel"}
       THEN /\ counter' = sendVal
            /\ lmPc' = IF lmPc = "sendDel" THEN "afterDel" ELSE "loop"
       ELSE UNCHANGED <<counter, lmPc>>
    /\ UNCHANGED <<ledChanges, ledFile, oldCounter, sendVal, envSteps>>

EnvStep == envSteps < MaxEnvSteps /\ envSteps' = envSteps + 1

AgentWrite(v) ==
    /\ EnvStep
    /\ ledFile' = v
    /\ ledChanges' = Append(ledChanges, "M")
    /\ UNCHANGED <<oldCounter, lmPc, sendVal, counter>>

AgentDelete ==
    /\ EnvStep
    /\ ledFile # Absent
    /\ ledFile' = Absent
    /\ ledChanges' = Append(ledChanges, "D")
    /\ UNCHANGED <<oldCounter, lmPc, sendVal, counter>>

\* device-steps.sh writes ledconfig 1 before ledmanager starts; the
\* watcher reports the existing file.
Init ==
    /\ ledChanges = <<"M">>
    /\ ledFile = 1
    /\ oldCounter = 0
    /\ lmPc = "loop"
    /\ sendVal = 0
    /\ counter = 0
    /\ envSteps = 0

Next ==
    \/ HandleLedBlinkModify
    \/ HandleLedBlinkDelete
    \/ FinishLedBlinkDelete
    \/ BlinkCycle
    \/ \E v \in AgentValues : AgentWrite(v)
    \/ AgentDelete

Fairness ==
    /\ WF_vars(HandleLedBlinkModify)
    /\ WF_vars(HandleLedBlinkDelete)
    /\ WF_vars(FinishLedBlinkDelete)
    /\ WF_vars(BlinkCycle)

Spec == Init /\ [][Next]_vars /\ Fairness

-----------------------------------------------------------------------------
(* Properties *)

Quiescent == Idle /\ ledChanges = <<>>

\* Once the watcher's events are all handled, the goroutine blinks what
\* ledconfig says: no counter the loop suppressed as unchanged differs
\* from what is on the LED.
BlinksFile == Quiescent => counter = FileCount

=============================================================================
