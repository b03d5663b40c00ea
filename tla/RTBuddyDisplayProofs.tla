------------------------ MODULE RTBuddyDisplayProofs ------------------------
(***************************************************************************)
(* Proofs about RTBuddyDisplay: for any set of listeners and any           *)
(* coprocessor, every listener follows every change of power, none is      *)
(* called after it left, and none believes the GPU on when its power is    *)
(* released.                                                               *)
(*                                                                         *)
(* The broker only watches the driver: its steps are steps of RTBuddy or   *)
(* leave it alone, so what RTBuddyProofs shows of the driver holds here.   *)
(***************************************************************************)
EXTENDS RTBuddyDisplay, RTBuddyProofs

\* The driver with its broker behaves like the driver.
THEOREM DisplayIsDriver == DisplaySpec => Spec
<1>1. DisplayInit => Init
  BY DEF DisplayInit
<1>2. [DisplayNext]_allVars => [Next]_vars
  BY DEF DisplayNext, allVars, ProbeRuns, OthersRun, NotifyLock, NotifyCall, NotifyReturn,
         NotifyUnlock, Register, Unregister, Next, DriverNext
<1> QED  BY <1>1, <1>2, PTL DEF DisplaySpec, Spec

----------------------------------------------------------------------------
\* The inductive invariant.

\* Every listener is in the list once, and one that is not knows nothing.
ListOK ==
    /\ listeners \in Seq(Listeners)
    /\ \A i, j \in 1..Len(listeners) : listeners[i] = listeners[j] => i = j
    /\ heard \in [Listeners -> {"none", "OFF", "ON"}]
    /\ \A l \in Listeners :
          (\A i \in 1..Len(listeners) : listeners[i] # l) => heard[l] = "none"

\* Where a notification is.  Between two of them the listeners were told of
\* every change.
NotifyOK ==
    /\ npc \in {"idle", "lock", "call"} /\ at \in Nat \ {0} /\ old \in {"OFF", "ON"}
    /\ running # "none" =>
          npc = "call" /\ at \in 1..Len(listeners) /\ running = listeners[at]
    /\ npc = "idle" => old = power
    /\ pc = "gone" => npc = "idle"

Followed ==
    \A i \in 1..Len(listeners) :
        heard[listeners[i]] = IF npc = "call" /\ i < at THEN power ELSE old

DisplayInv == ListOK /\ NotifyOK /\ Followed

\* No listener is in the list at first.
LEMMA DisplayInitInv == DisplayInit => DisplayInv
<1> SUFFICES ASSUME DisplayInit PROVE DisplayInv
  OBVIOUS
<1>1. listeners = <<>> /\ Len(listeners) = 0
  BY DEF DisplayInit
<1>2. power = "OFF" /\ pc = "new"
  BY DEF DisplayInit, Init
<1> QED  BY <1>1, <1>2 DEF DisplayInit, DisplayInv, ListOK, NotifyOK, Followed

\* What the driver does between two notifications.
LEMMA ProbeRunsKeeps ==
    ASSUME DriverInv, DriverInv', DisplayInv, ProbeRuns
    PROVE  DisplayInv'
<1>1. npc = "idle" /\ UNCHANGED <<listeners, at, running, heard>>
  BY DEF ProbeRuns, SetPowerReturned
<1>2. power \in {"OFF", "ON"}
  BY DEF DriverInv, TypeOK
<1>3. pc' = "gone" => power' = power
  BY DEF ProbeRuns, ProbeStep, BootStep, WaitStep, RemoveStep, Teardown, Go,
         BootEnable, BootRun, BootSendInit, BootRequestIrq, BootCheckIop, BootClearAp,
         BootSendAp, BootCheckRunning, BootStartFirmware, BootStartDoorbell, BootStart,
         BootSendFirmware, BootSendDoorbell, BootReport, BootFail, Send,
         Shutdown, ShutdownQuiesceAp, ShutdownSendQuiesce, ShutdownSleepIop,
         ShutdownSendSleep, RemoveFreeIrq, RemoveSyncIrq, RemoveStop, RemoveFree,
         RemovePut, WaitTest, WaitExpire, WaitReturn, upVars
<1>4. npc' \in {"idle", "lock"} /\ old' = old
      /\ (npc' = "idle" => power' = power) /\ (pc' = "gone" => npc' = "idle")
  BY <1>1, <1>3 DEF ProbeRuns, DisplayInv, NotifyOK
<1> QED  BY <1>1, <1>2, <1>4 DEF DisplayInv, ListOK, NotifyOK, Followed

\* A step that is not the probing thread's leaves the power alone.
LEMMA QuietKeeps ==
    ASSUME DisplayInv, UNCHANGED <<pc, power, displayVars>>
    PROVE  DisplayInv'
BY DEF DisplayInv, ListOK, NotifyOK, Followed, displayVars, notifyVars

\* A listener that registers is told of the changes to come.
LEMMA RegisterKeeps ==
    ASSUME DisplayInv, NEW l \in Listeners, Register(l)
    PROVE  DisplayInv'
<1>1. /\ listeners' = Append(listeners, l) /\ heard' = [heard EXCEPT ![l] = old]
      /\ npc # "call" /\ pc # "gone" /\ UNCHANGED <<pc, power, npc, at, old, running>>
  BY DEF Register, LockFree, notifyVars, vars, upVars
<1>2. /\ Len(listeners') = Len(listeners) + 1
      /\ \A i \in 1..Len(listeners) : listeners'[i] = listeners[i]
      /\ listeners'[Len(listeners) + 1] = l /\ listeners' \in Seq(Listeners)
      /\ Len(listeners) \in Nat
  BY <1>1 DEF DisplayInv, ListOK
<1>3. \A i \in 1..Len(listeners) : listeners[i] # l /\ listeners[i] \in Listeners
  BY DEF Register, Range, DisplayInv, ListOK
<1>4. ListOK'
  <2>1. \A i, j \in 1..Len(listeners') : listeners'[i] = listeners'[j] => i = j
    BY <1>2, <1>3 DEF DisplayInv, ListOK
  <2>2. heard' \in [Listeners -> {"none", "OFF", "ON"}]
    BY <1>1 DEF DisplayInv, ListOK, NotifyOK
  <2>3. ASSUME NEW k \in Listeners, \A i \in 1..Len(listeners') : listeners'[i] # k
        PROVE  heard'[k] = "none"
    <3>1. k # l /\ \A i \in 1..Len(listeners) : listeners[i] # k
      BY <1>2, <2>3
    <3> QED  BY <1>1, <3>1 DEF DisplayInv, ListOK
  <2> QED  BY <1>2, <2>1, <2>2, <2>3 DEF ListOK
<1>5. NotifyOK'
  BY <1>1 DEF DisplayInv, NotifyOK
<1>6. Followed'
  <2> SUFFICES ASSUME NEW i \in 1..Len(listeners')
               PROVE  heard'[listeners'[i]] = old
    BY <1>1 DEF Followed
  <2>1. CASE i = Len(listeners) + 1
    BY <2>1, <1>1, <1>2 DEF DisplayInv, ListOK
  <2>2. CASE i \in 1..Len(listeners)
    BY <2>2, <1>1, <1>2, <1>3 DEF DisplayInv, ListOK, Followed
  <2> QED  BY <1>2, <2>1, <2>2
<1> QED  BY <1>4, <1>5, <1>6 DEF DisplayInv

\* The elements of a concatenation.
LEMMA ConcatElements ==
    ASSUME NEW S, NEW a \in Seq(S), NEW b \in Seq(S)
    PROVE  /\ a \o b \in Seq(S) /\ Len(a \o b) = Len(a) + Len(b)
           /\ \A k \in 1..(Len(a) + Len(b)) :
                 (a \o b)[k] = IF k <= Len(a) THEN a[k] ELSE b[k - Len(a)]
OBVIOUS

\* Taking an element out of a list.
LEMMA RemoveAtElements ==
    ASSUME NEW S, NEW s \in Seq(S), NEW i \in 1..Len(s)
    PROVE  /\ RemoveAt(s, i) \in Seq(S) /\ Len(RemoveAt(s, i)) = Len(s) - 1
           /\ \A k \in 1..(Len(s) - 1) :
                 RemoveAt(s, i)[k] = IF k < i THEN s[k] ELSE s[k + 1]
<1>1. /\ SubSeq(s, 1, i - 1) \in Seq(S) /\ Len(SubSeq(s, 1, i - 1)) = i - 1
      /\ \A k \in 1..(i - 1) : SubSeq(s, 1, i - 1)[k] = s[k]
  OBVIOUS
<1>2. /\ SubSeq(s, i + 1, Len(s)) \in Seq(S) /\ Len(SubSeq(s, i + 1, Len(s))) = Len(s) - i
      /\ \A k \in 1..(Len(s) - i) : SubSeq(s, i + 1, Len(s))[k] = s[i + k]
  OBVIOUS
<1>3. PICK a \in Seq(S) :
         /\ a = SubSeq(s, 1, i - 1) /\ Len(a) = i - 1
         /\ \A k \in 1..(i - 1) : a[k] = s[k]
  BY <1>1, Zenon
<1>4. PICK b \in Seq(S) :
         /\ b = SubSeq(s, i + 1, Len(s)) /\ Len(b) = Len(s) - i
         /\ \A k \in 1..(Len(s) - i) : b[k] = s[i + k]
  BY <1>2, Zenon
<1>5. RemoveAt(s, i) = a \o b
  BY <1>3, <1>4 DEF RemoveAt
<1>6. PICK c : c = a \o b
  OBVIOUS
<1>7. /\ c \in Seq(S) /\ Len(c) = Len(a) + Len(b)
      /\ \A k \in 1..(Len(a) + Len(b)) : c[k] = IF k <= Len(a) THEN a[k] ELSE b[k - Len(a)]
  BY ConcatElements, <1>6, Zenon
<1>8. /\ Len(a) = i - 1 /\ \A k \in 1..(i - 1) : a[k] = s[k]
      /\ Len(b) = Len(s) - i /\ \A k \in 1..(Len(s) - i) : b[k] = s[i + k]
  BY <1>3, <1>4, Zenon
<1>9. Len(s) \in Nat /\ Len(c) = Len(s) - 1
  BY <1>3, <1>4, <1>7
<1>10. ASSUME NEW k \in 1..(Len(s) - 1)
      PROVE  c[k] = IF k < i THEN s[k] ELSE s[k + 1]
  <2>1. CASE k < i
    BY <2>1, <1>8, <1>7, <1>9
  <2>2. CASE k >= i
    <3>1. PICK j \in 1..(Len(s) - i) : j = k - (i - 1) /\ i + j = k + 1
      BY <2>2, <1>9
    <3>2. k \in 1..((i - 1) + (Len(s) - i)) /\ ~(k <= i - 1)
      BY <2>2, <1>9
    <3>3. k \in 1..(Len(a) + Len(b)) /\ ~(k <= Len(a)) /\ k - Len(a) = j
      BY <3>1, <3>2, <1>8, Zenon
    <3>4. c[k] = b[j]
      BY <3>3, <1>7
    <3>5. b[j] = s[k + 1]
      BY <3>1, <1>8
    <3> QED  BY <2>2, <3>4, <3>5
  <2> QED  BY <2>1, <2>2, <1>9
<1> QED  BY <1>5, <1>6, <1>7, <1>9, <1>10, Zenon

\* A listener that leaves is forgotten, and the others keep their places.
LEMMA UnregisterKeeps ==
    ASSUME DisplayInv, NEW l \in Listeners, Unregister(l)
    PROVE  DisplayInv'
<1>1. /\ heard' = [heard EXCEPT ![l] = "none"] /\ npc # "call" /\ running = "none"
      /\ UNCHANGED <<pc, power, npc, at, old, running>>
  BY DEF Unregister, LockFree, notifyVars, vars, upVars, DisplayInv, NotifyOK
<1>2. listeners \in Seq(Listeners) /\ Len(listeners) \in Nat
  BY DEF DisplayInv, ListOK
<1>3. PICK d \in 1..Len(listeners) :
         listeners[d] = l /\ listeners' = RemoveAt(listeners, d)
  BY <1>2 DEF Unregister
<1>4. PICK n \in Nat : n = Len(listeners) /\ d <= n
  BY <1>2, <1>3
<1>5. /\ listeners' \in Seq(Listeners) /\ Len(listeners') = n - 1
      /\ \A k \in 1..(n - 1) :
            listeners'[k] = IF k < d THEN listeners[k] ELSE listeners[k + 1]
  BY RemoveAtElements, <1>2, <1>3, <1>4, Zenon
<1> DEFINE from(k) == IF k < d THEN k ELSE k + 1
<1>6. \A k \in 1..(n - 1) :
         from(k) \in 1..n /\ from(k) # d /\ listeners'[k] = listeners[from(k)]
  BY <1>3, <1>4, <1>5
<1>7. ASSUME NEW i \in 1..n, i # d
      PROVE  \E k \in 1..(n - 1) : from(k) = i
  <2>1. CASE i < d
    <3>1. i \in 1..(n - 1) /\ from(i) = i
      BY <2>1, <1>4
    <3> QED  BY <3>1
  <2>2. CASE i > d
    <3>1. i - 1 \in 1..(n - 1) /\ from(i - 1) = i
      BY <2>2, <1>4
    <3> QED  BY <3>1
  <2> QED  BY <2>1, <2>2, <1>7
<1>8. \A j, k \in 1..(n - 1) : from(j) = from(k) => j = k
  BY <1>4
<1> HIDE DEF from
<1>9. \A i, j \in 1..n : listeners[i] = listeners[j] => i = j
  BY <1>4 DEF DisplayInv, ListOK
<1>10. ListOK'
  <2>1. ASSUME NEW j \in 1..(n - 1), NEW k \in 1..(n - 1), listeners'[j] = listeners'[k]
        PROVE  j = k
    <3>1. /\ from(j) \in 1..n /\ listeners'[j] = listeners[from(j)]
          /\ from(k) \in 1..n /\ listeners'[k] = listeners[from(k)]
      BY <1>6
    <3>2. from(j) = from(k)
      BY <2>1, <3>1, <1>9
    <3> QED  BY <3>2, <1>8
  <2>2. heard' \in [Listeners -> {"none", "OFF", "ON"}]
    BY <1>1 DEF DisplayInv, ListOK
  <2>3. ASSUME NEW k \in Listeners, \A i \in 1..Len(listeners') : listeners'[i] # k
        PROVE  heard'[k] = "none"
    <3>1. CASE k = l
      BY <3>1, <1>1 DEF DisplayInv, ListOK
    <3>2. CASE k # l
      <4>1. ASSUME NEW i \in 1..n, listeners[i] = k PROVE FALSE
        <5>1. i # d
          BY <4>1, <3>2, <1>3
        <5>2. PICK j \in 1..(n - 1) : from(j) = i
          BY <5>1, <1>7
        <5> QED  BY <5>2, <4>1, <1>5, <1>6, <2>3
      <4> QED  BY <3>2, <4>1, <1>1, <1>4 DEF DisplayInv, ListOK
    <3> QED  BY <3>1, <3>2
  <2>4. \A j, k \in 1..Len(listeners') : listeners'[j] = listeners'[k] => j = k
    BY <1>5, <2>1
  <2> QED  BY <1>5, <2>2, <2>3, <2>4 DEF ListOK
<1>11. NotifyOK'
  BY <1>1 DEF DisplayInv, NotifyOK
<1>12. Followed'
  <2> SUFFICES ASSUME NEW k \in 1..(n - 1)
               PROVE  heard'[listeners'[k]] = old
    BY <1>1, <1>5 DEF Followed
  <2>1. PICK i \in 1..n : i # d /\ listeners'[k] = listeners[i]
    BY <1>6
  <2>2. listeners[i] # l /\ listeners[i] \in Listeners
    BY <2>1, <1>2, <1>3, <1>4, <1>9
  <2>3. heard[listeners[i]] = old
    BY <1>1, <1>4 DEF DisplayInv, Followed
  <2> QED  BY <2>1, <2>2, <2>3, <1>1 DEF DisplayInv, ListOK
<1> QED  BY <1>10, <1>11, <1>12 DEF DisplayInv

\* agx_display_notify takes the lock, or calls the next listener.
LEMMA NotifyStartKeeps ==
    ASSUME DisplayInv, NotifyLock \/ NotifyCall
    PROVE  DisplayInv'
<1>1. UNCHANGED <<pc, power, listeners, old, heard>>
  BY DEF NotifyLock, NotifyCall, vars, upVars
<1>2. ListOK'
  BY <1>1 DEF DisplayInv, ListOK
<1>3. Len(listeners) \in Nat
  BY DEF DisplayInv, ListOK
<1>4. CASE NotifyLock
  <2>1. npc = "lock" /\ npc' = "call" /\ at' = 1 /\ running' = running
    BY <1>4 DEF NotifyLock
  <2>2. NotifyOK'
    BY <1>1, <2>1 DEF DisplayInv, NotifyOK
  <2>3. Followed'
    BY <1>1, <1>3, <2>1 DEF DisplayInv, Followed
  <2> QED  BY <1>2, <2>2, <2>3 DEF DisplayInv
<1>5. CASE NotifyCall
  <2>1. npc = "call" /\ at <= Len(listeners) /\ running' = listeners[at]
        /\ UNCHANGED <<npc, at>>
    BY <1>5, <1>3 DEF NotifyCall, EndOfList, DisplayInv, NotifyOK
  <2>2. NotifyOK'
    BY <1>1, <1>3, <2>1 DEF DisplayInv, NotifyOK
  <2>3. Followed'
    BY <1>1, <2>1 DEF DisplayInv, Followed
  <2> QED  BY <1>2, <2>2, <2>3 DEF DisplayInv
<1> QED  BY <1>4, <1>5

\* A listener that was called knows the new state, and it alone.
LEMMA NotifyReturnKeeps ==
    ASSUME DriverInv, DisplayInv, NotifyReturn
    PROVE  DisplayInv'
<1>1. /\ running # "none" /\ heard' = [heard EXCEPT ![running] = power]
      /\ running' = "none" /\ at' = at + 1
      /\ UNCHANGED <<pc, power, listeners, npc, old>>
  BY DEF NotifyReturn, vars, upVars
<1>2. npc = "call" /\ at \in 1..Len(listeners) /\ running = listeners[at]
  BY <1>1 DEF DisplayInv, NotifyOK
<1>3. listeners \in Seq(Listeners) /\ Len(listeners) \in Nat /\ running \in Listeners
  BY <1>2 DEF DisplayInv, ListOK
<1>4. power \in {"OFF", "ON"}
  BY DEF DriverInv, TypeOK
<1>5. heard \in [Listeners -> {"none", "OFF", "ON"}]
  BY DEF DisplayInv, ListOK
<1>6. ListOK'
  <2>1. heard' \in [Listeners -> {"none", "OFF", "ON"}]
    BY <1>1, <1>3, <1>4, <1>5
  <2>2. ASSUME NEW k \in Listeners, \A i \in 1..Len(listeners) : listeners[i] # k
        PROVE  heard'[k] = "none"
    <3>1. k # running
      BY <2>2, <1>2
    <3> QED  BY <2>2, <3>1, <1>1, <1>5 DEF DisplayInv, ListOK
  <2> QED  BY <1>1, <2>1, <2>2 DEF DisplayInv, ListOK
<1>7. NotifyOK'
  BY <1>1, <1>2, <1>3 DEF DisplayInv, NotifyOK
<1>8. Followed'
  <2> SUFFICES ASSUME NEW i \in 1..Len(listeners)
               PROVE  heard'[listeners[i]] = IF i < at + 1 THEN power ELSE old
    BY <1>1, <1>2 DEF Followed
  <2>1. CASE i = at
    BY <2>1, <1>1, <1>2, <1>3, <1>5
  <2>2. CASE i # at
    <3>1. listeners[i] # running /\ listeners[i] \in Listeners
      BY <2>2, <1>2, <1>3 DEF DisplayInv, ListOK
    <3>2. heard[listeners[i]] = IF i < at THEN power ELSE old
      BY <1>2 DEF DisplayInv, Followed
    <3>3. i < at + 1 <=> i < at
      BY <2>2, <1>2, <1>3
    <3> QED  BY <3>1, <3>2, <3>3, <1>1, <1>5
  <2> QED  BY <2>1, <2>2
<1> QED  BY <1>6, <1>7, <1>8 DEF DisplayInv

\* When the lock is dropped every listener knows the new state.
LEMMA NotifyUnlockKeeps ==
    ASSUME DriverInv, DisplayInv, NotifyUnlock
    PROVE  DisplayInv'
<1>1. /\ npc = "call" /\ running = "none" /\ at > Len(listeners)
      /\ npc' = "idle" /\ at' = 1 /\ old' = power
      /\ UNCHANGED <<pc, power, listeners, running, heard>>
  BY DEF NotifyUnlock, EndOfList, vars, upVars
<1>2. Len(listeners) \in Nat /\ at \in Nat
  BY DEF DisplayInv, ListOK, NotifyOK
<1>3. power \in {"OFF", "ON"}
  BY DEF DriverInv, TypeOK
<1>4. ListOK'
  BY <1>1 DEF DisplayInv, ListOK
<1>5. NotifyOK'
  BY <1>1, <1>3 DEF DisplayInv, NotifyOK
<1>6. Followed'
  <2>1. \A i \in 1..Len(listeners) : i < at /\ heard[listeners[i]] = power
    BY <1>1, <1>2 DEF DisplayInv, Followed
  <2> QED  BY <1>1, <2>1 DEF Followed
<1> QED  BY <1>4, <1>5, <1>6 DEF DisplayInv

\* Every step keeps the invariant.
LEMMA DisplayStep ==
    ASSUME DriverInv, DriverInv', DisplayInv, [DisplayNext]_allVars
    PROVE  DisplayInv'
<1>1. CASE OthersRun
  <2>1. UNCHANGED <<pc, power>>
    BY <1>1, IrqLeavesProbe
       DEF OthersRun, GpuStep, GpuCheck, GpuSend, GpuRest, FwRecv, FwSend, FwRest, upVars
  <2> QED  BY <1>1, <2>1, QuietKeeps DEF OthersRun
<1>2. CASE (Unbound /\ UNCHANGED displayVars) \/ UNCHANGED allVars
  <2>1. UNCHANGED <<pc, power, displayVars>>
    BY <1>2 DEF Unbound, allVars, vars, upVars
  <2> QED  BY <2>1, QuietKeeps
<1>3. CASE \E l \in Listeners : Register(l) \/ Unregister(l)
  BY <1>3, RegisterKeeps, UnregisterKeeps
<1> QED
  BY <1>1, <1>2, <1>3, ProbeRunsKeeps, NotifyStartKeeps, NotifyReturnKeeps, NotifyUnlockKeeps
     DEF DisplayNext

\* The invariant of the driver and its broker, for any listeners.
THEOREM DisplayInvHolds == DisplaySpec => [](DriverInv /\ DisplayInv)
<1>1. DisplaySpec => []DriverInv
  BY DisplayIsDriver, DriverInvHolds, PTL
<1> QED  BY <1>1, DisplayInitInv, DisplayStep, PTL DEF DisplaySpec

----------------------------------------------------------------------------
\* What the broker promises.

\* agx_display_notify never calls a listener that agx_display_unregister has
\* taken out of the list.
THEOREM UnregisteredQuietHolds == DisplaySpec => []UnregisteredQuiet
<1>1. DisplayInv => UnregisteredQuiet
  BY DEF DisplayInv, ListOK, NotifyOK, UnregisteredQuiet, Range
<1> QED  BY <1>1, DisplayInvHolds, PTL

\* Every listener follows every change of power, once and in order, however
\* many there are and whoever comes and goes between the calls.
THEOREM ListenersFollowHolds == DisplaySpec => []ListenersFollow
<1>1. DisplayInv => ListenersFollow
  BY DEF DisplayInv, ListOK, Followed, ListenersFollow
<1> QED  BY <1>1, DisplayInvHolds, PTL

\* No listener believes the GPU on once agx_teardown has released its power
\* domain.
THEOREM OnWhilePoweredHolds == DisplaySpec => []OnWhilePowered
<1>1. ASSUME DriverInv, DisplayInv PROVE OnWhilePowered
  <2> SUFFICES ASSUME NEW l \in Listeners, heard[l] = "ON", ~powered PROVE FALSE
    BY DEF OnWhilePowered
  <2>1. pc = "gone" /\ power = "OFF"
    BY <1>1 DEF DriverInv, Stopping
  <2>2. npc = "idle" /\ old = "OFF"
    BY <1>1, <2>1 DEF DisplayInv, NotifyOK
  <2>3. \A i \in 1..Len(listeners) : heard[listeners[i]] = "OFF"
    BY <1>1, <2>2 DEF DisplayInv, Followed
  <2> QED  BY <1>1, <2>3 DEF DisplayInv, ListOK
<1> QED  BY <1>1, DisplayInvHolds, PTL
=============================================================================
