-------------------------- MODULE RTBuddyDisplay ---------------------------
(***************************************************************************)
(* The driver with its display broker (src/display.c): listeners that come *)
(* and go while agx_rtbuddy_set_power tells the registered ones, one after *)
(* the other and under the broker's spinlock, of a change of power.        *)
(*                                                                         *)
(* Registering and unregistering are one step each, since they hold the    *)
(* lock throughout; only agx_display_notify holds it for longer.           *)
(***************************************************************************)
EXTENDS RTBuddy, SequencesExt

CONSTANT Listeners
ASSUME ListenersAssumption == "none" \notin Listeners

VARIABLES
    listeners,   \* the list of the broker
    npc, at,     \* agx_display_notify: where it is, the position in the list
    old,         \* its argument from; between calls, the power last announced
    running,     \* the listener whose callback runs
    heard        \* per registered listener, the power it knows of

notifyVars == <<npc, at, old, running>>
displayVars == <<listeners, notifyVars, heard>>
allVars == <<vars, displayVars>>

DisplayInit ==
    /\ Init
    /\ listeners = <<>> /\ npc = "idle" /\ at = 1 /\ old = power
    /\ running = "none" /\ heard = [l \in Listeners |-> "none"]

\* Variant for the checks: the broker's lock is not taken.
LockIgnored == TRUE

LockFree == npc # "call"

\* The broker lives as long as the driver is bound.
Register(l) ==
    /\ pc # "gone" /\ LockFree /\ l \notin Range(listeners)
    /\ listeners' = Append(listeners, l)
    /\ heard' = [heard EXCEPT ![l] = old]
    /\ UNCHANGED <<vars, notifyVars>>

Unregister(l) ==
    /\ pc # "gone" /\ LockFree
    /\ \E i \in DOMAIN listeners :
          listeners[i] = l /\ listeners' = RemoveAt(listeners, i)
    /\ heard' = [heard EXCEPT ![l] = "none"]
    /\ UNCHANGED <<vars, notifyVars>>

\* Variant for the checks: agx_rtbuddy_set_power returns before the listeners
\* were told.
SetPowerAsync == TRUE

SetPowerReturned == npc = "idle"

\* The probing thread; agx_rtbuddy_set_power notifies only of a change.
ProbeRuns ==
    /\ SetPowerReturned /\ (ProbeStep \/ Teardown)
    /\ npc' = IF power' = power THEN npc ELSE "lock"
    /\ old' = IF power' = power THEN old ELSE power
    /\ UNCHANGED <<listeners, at, running, heard>>

NotifyLock ==
    /\ npc = "lock" /\ npc' = "call" /\ at' = 1
    /\ UNCHANGED <<vars, listeners, old, running, heard>>

\* Variant for the checks: the last listener is left out.
EndOfListEarly == at >= Len(listeners)

EndOfList == at > Len(listeners)

NotifyCall ==
    /\ npc = "call" /\ running = "none" /\ ~EndOfList
    /\ running' = listeners[at]
    /\ UNCHANGED <<vars, listeners, npc, at, old, heard>>

NotifyReturn ==
    /\ running # "none"
    /\ heard' = [heard EXCEPT ![running] = power]
    /\ running' = "none" /\ at' = at + 1
    /\ UNCHANGED <<vars, listeners, npc, old>>

NotifyUnlock ==
    /\ npc = "call" /\ running = "none" /\ EndOfList
    /\ npc' = "idle" /\ at' = 1 /\ old' = power
    /\ UNCHANGED <<vars, listeners, running, heard>>

OthersRun ==
    /\ IrqStep \/ GpuStep \/ FwRecv \/ \E m \in FwMsgs : FwSend(m)
    /\ UNCHANGED displayVars

DisplayNext ==
    \/ ProbeRuns \/ OthersRun \/ (Unbound /\ UNCHANGED displayVars)
    \/ NotifyLock \/ NotifyCall \/ NotifyReturn \/ NotifyUnlock
    \/ \E l \in Listeners : Register(l) \/ Unregister(l)

DisplaySpec == DisplayInit /\ [][DisplayNext]_allVars

----------------------------------------------------------------------------
\* A listener is not called once agx_display_unregister has returned, so it
\* may free what its cookie points to, also in the middle of a notification.
UnregisteredQuiet == running # "none" => running \in Range(listeners)

\* Every listener follows every change exactly once and in order: the "from" it
\* is called with is the state it knew, at registration or from its last
\* call, and nobody is left out, whoever registers or leaves in between.
ListenersFollow ==
    \A i \in DOMAIN listeners :
        heard[listeners[i]] = IF npc = "call" /\ i < at THEN power ELSE old

\* No listener is left believing that the GPU is on when its power domain is
\* released: agx_teardown drops it after the listeners were told OFF, and a
\* failed boot never tells them ON (probe.c:80 and 92).
OnWhilePowered == \A l \in Listeners : heard[l] = "ON" => powered
============================================================================
