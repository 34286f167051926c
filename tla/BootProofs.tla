----------------------------- MODULE BootProofs -----------------------------
(***************************************************************************)
(* Proofs about Boot: its types, the order of a boot, that services only   *)
(* run on mounted filesystems, that a boot never stalls half-way and that  *)
(* a request to stop leads to the reboot, for every capacity of the event  *)
(* stream and of the channel of signals.                                   *)
(***************************************************************************)
EXTENDS Boot, FiniteSetTheorems, TLAPS

\* The list of mounts, element by element.
LEMMA MountList ==
  /\ essentialMounts = <<"proc", "sys", "dev", "devpts", "shm", "run", "cgroup">>
  /\ DOMAIN essentialMounts = 1 .. 7 /\ Len(essentialMounts) = 7
  /\ Filesystems = {"proc", "sys", "dev", "devpts", "shm", "run", "cgroup"}
<1>1. DOMAIN essentialMounts = 1 .. 7 /\ Len(essentialMounts) = 7
  BY DEF essentialMounts
<1>2. DOMAIN essentialMounts = {1, 2, 3, 4, 5, 6, 7}
  BY <1>1
<1>3. Filesystems = {"proc", "sys", "dev", "devpts", "shm", "run", "cgroup"}
  BY <1>2 DEF essentialMounts, Filesystems
<1> QED
  BY <1>1, <1>3 DEF essentialMounts

\* Every variable keeps its type, whatever the capacities: the stream and the
\* channel of signals are never longer than their bounds.
THEOREM BootTypeCorrect == Spec => []TypeOK
<1> USE BootAssumption
<1>1. Init => TypeOK
  <2> SUFFICES ASSUME Init PROVE TypeOK
    OBVIOUS
  <2>1. ManagerTypeOK
    BY DEF Init, ManagerInit, ManagerTypeOK, Lives
  <2>2. /\ mounted \subseteq Filesystems /\ untried \subseteq Filesystems
        /\ failed \subseteq Filesystems
    BY MountList DEF Init
  <2>3. /\ sigCh \in Seq({"SIGCHLD", "SIGTERM"}) /\ Len(sigCh) <= SigCap
        /\ stream \in Seq(Events) /\ Len(stream) <= Capacity
    BY DEF Init
  <2>4. ctl \in [Services -> {"off", "idle", "load", "start", "wait"}]
    BY DEF Init
  <2> QED
    BY <2>1, <2>2, <2>3, <2>4 DEF Init, TypeOK
<1>2. TypeOK /\ [Next]_vars => TypeOK'
  <2> SUFFICES ASSUME TypeOK, [Next]_vars PROVE TypeOK'
    OBVIOUS
  <2> USE DEF TypeOK, ManagerTypeOK, Lives, managerVars, mainVars, fileVars, udevdVars,
              streamVars, serviceVars, deviceVars, ctlVars
  <2>1. CASE Main
    <3>1. CASE Mount
      <4>1. mounted' \subseteq Filesystems
        BY <3>1 DEF Mount, Filesystems
      <4>2. crashed' \in BOOLEAN
        BY <3>1 DEF Mount
      <4> QED
        BY <3>1, <4>1, <4>2 DEF Mount
    <3>2. CASE Serve
      <4>1. crashed' \in BOOLEAN
        BY <3>2 DEF Serve
      <4> QED
        BY <3>2, <4>1 DEF Serve
    <3>3. CASE ReadSignal
      BY <3>3 DEF ReadSignal, OnceServices
    <3>4. CASE CallShutdown
      BY <3>4 DEF CallShutdown, Shutdown
    <3>5. CASE ShutdownDone
      BY <3>5 DEF ShutdownDone, ShutdownReturns
    <3>6. CASE Unmount
      <4>1. /\ mounted' \subseteq Filesystems /\ untried' \subseteq Filesystems
            /\ failed' \subseteq Filesystems
        BY <3>6 DEF Unmount
      <4> QED
        BY <3>6, <4>1 DEF Unmount
    <3>7. CASE Halt
      <4>1. /\ crashed' \in BOOLEAN
            /\ main' \in {"mount", "serve", "stop", "wait", "unmount", "halted"}
        BY <3>7 DEF Halt
      <4> QED
        BY <3>7, <4>1 DEF Halt
    <3> QED
      BY <2>1, <3>1, <3>2, <3>3, <3>4, <3>5, <3>6, <3>7 DEF Main
  <2>2. ASSUME NEW x \in {"SIGCHLD", "SIGTERM"}, Signal(x) PROVE TypeOK'
    BY <2>2 DEF Signal
  <2>3. CASE CtrlRun
    BY <2>3 DEF CtrlRun, OnceServices, WokenAtStart
  <2>4. CASE ServiceController
    <3>1. CASE Watch
      BY <3>1 DEF Watch, WatchedHistory
    <3>2. CASE Receive
      BY <3>2 DEF Receive, ResourceOf, Controllers
    <3>3. CASE WatchEnds
      BY <3>3 DEF WatchEnds
    <3> QED
      BY <2>4, <3>1, <3>2, <3>3 DEF ServiceController
  <2>5. CASE DeviceStatus
    <3>1. eventCh' \subseteq Controllers
      BY <2>5 DEF DeviceStatus, ReadyWakes, Controllers
    <3>2. ready' \in BOOLEAN /\ devices' \in {"off", "waiting", "done"}
      BY <2>5 DEF DeviceStatus
    <3> QED
      BY <2>5, <3>1, <3>2 DEF DeviceStatus
  <2>6. CASE WaitForDevicesReady
    BY <2>6 DEF WaitForDevicesReady
  <2>7. CASE LinksRestart
    BY <2>7 DEF LinksRestart, Controllers
  <2>8. ASSUME NEW s \in Services, EnsureStarted(s) PROVE TypeOK'
    <3> USE DEF Moves
    <3>1. CASE Wake(s)
      BY <3>1 DEF Wake
    <3>2. CASE LoadService(s)
      BY <3>2 DEF LoadService, Load, Becomes, RestartWakes, Controllers
    <3>3. CASE StartService(s)
      BY <3>3 DEF StartService, Start, Becomes
    <3>4. CASE UpSeen(s)
      BY <3>4 DEF UpSeen
    <3>5. CASE UpTimeout(s)
      BY <3>5 DEF UpTimeout, RestartWakes, Controllers
    <3> QED
      BY <2>8, <3>1, <3>2, <3>3, <3>4, <3>5 DEF EnsureStarted
  <2>9. ASSUME NEW s \in Services, CreateRunner(s) PROVE TypeOK'
    <3>1. begun' \subseteq Services
      BY <2>9 DEF CreateRunner
    <3>2. crashed' \in BOOLEAN
      BY <2>9 DEF CreateRunner
    <3> QED
      BY <2>9, <3>1, <3>2 DEF CreateRunner
  <2>10. ASSUME NEW s \in Services, ServiceEnds(s) PROVE TypeOK'
    BY <2>10 DEF ServiceEnds, End, Becomes
  <2>11. CASE HealthFunc
    <3> USE DEF Checking
    <3>1. CASE CheckBegins
      BY <3>1 DEF CheckBegins
    <3>2. CASE CheckFails
      BY <3>2 DEF CheckFails
    <3>3. CASE TriggerDevices
      BY <3>3 DEF TriggerDevices, Replay
    <3>4. CASE TriggerSubsystems
      BY <3>4 DEF TriggerSubsystems, Replay
    <3>5. CASE CheckSucceeds
      BY <3>5 DEF CheckSucceeds
    <3> QED
      BY <2>11, <3>1, <3>2, <3>3, <3>4, <3>5 DEF HealthFunc
  <2>12. ASSUME NEW e \in Events, Publish(e), last' \in {"none", "up", "sick", "other"}
         PROVE  TypeOK'
    <3>1. /\ stream' \in Seq(Events) /\ Len(stream') <= Capacity
          /\ overrun' \in BOOLEAN
      <4>1. CASE overrun \/ watch = "ended"
        BY <2>12, <4>1 DEF Publish
      <4>2. CASE ~overrun /\ watch /= "ended" /\ Len(stream) < Capacity
        <5>1. stream' = Append(stream, e) /\ overrun' = overrun
          BY <2>12, <4>2 DEF Publish
        <5>2. stream' \in Seq(Events) /\ Len(stream') = Len(stream) + 1
          BY <2>12, <5>1
        <5> QED
          BY <4>2, <5>1, <5>2
      <4>3. CASE ~overrun /\ watch = "off" /\ Len(stream) = Capacity
        <5>1. stream' = Append(Tail(stream), e) /\ overrun' = overrun
          BY <2>12, <4>3 DEF Publish
        <5>2. Tail(stream) \in Seq(Events) /\ Len(Tail(stream)) = Capacity - 1
          BY <4>3
        <5>3. stream' \in Seq(Events) /\ Len(stream') = Capacity
          BY <2>12, <5>1, <5>2
        <5> QED
          BY <5>1, <5>3
      <4>4. CASE ~overrun /\ watch = "watching" /\ Len(stream) = Capacity
        <5>1. overrun' = TRUE /\ stream' \in {<<>>, <<Head(stream)>>}
          BY <2>12, <4>4 DEF Publish
        <5>2. Head(stream) \in Events
          BY <4>4
        <5>3. CASE stream' = <<>>
          BY <5>1, <5>3
        <5>4. CASE stream' = <<Head(stream)>>
          BY <5>1, <5>2, <5>4
        <5> QED
          BY <5>1, <5>3, <5>4
      <4> QED
        BY <4>1, <4>2, <4>3, <4>4
    <3> QED
      BY <2>12, <3>1 DEF Publish
  <2>13. CASE ApidEvent
    BY <2>13, <2>12 DEF ApidEvent, Events
  <2>14. ASSUME NEW e \in {"up", "sick", "other"}, UdevdEvent(e) PROVE TypeOK'
    BY <2>14, <2>12 DEF UdevdEvent, Events
  <2>15. CASE UNCHANGED vars
    BY <2>15 DEF vars
  <2> QED
    BY <2>1, <2>2, <2>3, <2>4, <2>5, <2>6, <2>7, <2>8, <2>9, <2>10, <2>11,
       <2>13, <2>14, <2>15 DEF Next
<1> QED
  BY <1>1, <1>2, PTL DEF Spec

-----------------------------------------------------------------------------
(* The order of a boot.                                                    *)

\* A check that gets to settle has made both replays, in this run of the check
\* or in an earlier one, and whatever depends on devices depends on a check.
OrderInv ==
  /\ triggered \/ check = "settle" => replayed = Replay
  /\ check = "subsystems" => "devices" \in replayed
  /\ checked => settled
  /\ \A i \in DOMAIN stream : stream[i] = "up" => settled
  /\ resource = "healthy" => settled
  /\ ready => settled
  /\ links = "listing" => ready
  /\ ctl[Apid] \in {"load", "start", "wait"} => ready
  /\ life[Apid] /= "unloaded" => ready
  /\ Udevd \in started => settled

\* What the stream holds after a publication was in it before, or is new.
LEMMA PublishedEvents ==
  ASSUME TypeOK, NEW e \in Events, Publish(e),
         NEW i \in DOMAIN stream'
  PROVE  stream'[i] = e \/ \E j \in DOMAIN stream : stream'[i] = stream[j]
<1> USE BootAssumption DEF TypeOK
<1>1. CASE overrun \/ watch = "ended"
  BY <1>1 DEF Publish
<1>2. CASE ~overrun /\ watch /= "ended" /\ Len(stream) < Capacity
  <2>1. stream' = Append(stream, e)
    BY <1>2 DEF Publish
  <2> QED
    BY <2>1
<1>3. CASE ~overrun /\ watch = "off" /\ Len(stream) = Capacity
  <2>1. stream' = Append(Tail(stream), e) /\ Len(stream) > 0
    BY <1>3 DEF Publish
  <2>2. CASE i = Len(stream)
    BY <2>1, <2>2
  <2>3. CASE i < Len(stream)
    <3>1. stream'[i] = stream[i + 1] /\ i + 1 \in DOMAIN stream
      BY <2>1, <2>3
    <3> QED
      BY <3>1
  <2> QED
    BY <2>1, <2>2, <2>3
<1>4. CASE ~overrun /\ watch = "watching" /\ Len(stream) = Capacity
  <2>1. stream' \in {<<>>, <<Head(stream)>>}
    BY <1>4 DEF Publish
  <2>2. stream' = <<Head(stream)>> /\ i = 1
    BY <2>1
  <2>3. Head(stream) = stream[1] /\ 1 \in DOMAIN stream
    BY <1>4
  <2> QED
    BY <2>2, <2>3
<1> QED
  BY <1>1, <1>2, <1>3, <1>4

\* OrderInv is an invariant, for every capacity of the stream.
THEOREM OrderCorrect == Spec => []OrderInv
<1> USE BootAssumption
<1>1. Init => OrderInv
  BY DEF Init, OrderInv, ManagerInit
<1>2. TypeOK /\ OrderInv /\ [Next]_vars => OrderInv'
  <2> SUFFICES ASSUME TypeOK, OrderInv, [Next]_vars PROVE OrderInv'
    OBVIOUS
  <2> USE DEF OrderInv, managerVars, mainVars, fileVars, udevdVars, streamVars,
              serviceVars, deviceVars, ctlVars
  <2>1. CASE Main
    BY <2>1 DEF Main, Mount, Serve, ReadSignal, CallShutdown, Shutdown,
                ShutdownDone, ShutdownReturns, Unmount, Halt
  <2>2. ASSUME NEW x \in {"SIGCHLD", "SIGTERM"}, Signal(x) PROVE OrderInv'
    BY <2>2 DEF Signal
  <2>3. CASE CtrlRun
    BY <2>3 DEF CtrlRun
  <2>4. CASE ServiceController
    <3>1. CASE Watch
      BY <3>1 DEF Watch, WatchedHistory
    <3>2. CASE Receive
      <4>1. \A i \in DOMAIN stream' : stream'[i] = stream[i + 1] /\ i + 1 \in DOMAIN stream
        BY <3>2 DEF Receive, TypeOK
      <4>2. 1 \in DOMAIN stream /\ Head(stream) = stream[1]
        BY <3>2 DEF Receive, TypeOK
      <4>3. resource' = "healthy" => settled
        BY <3>2, <4>2 DEF Receive, ResourceOf
      <4>4. \A i \in DOMAIN stream' : stream'[i] = "up" => settled
        BY <4>1
      <4> QED
        BY <3>2, <4>3, <4>4 DEF Receive
    <3>3. CASE WatchEnds
      BY <3>3 DEF WatchEnds
    <3> QED
      BY <2>4, <3>1, <3>2, <3>3 DEF ServiceController
  <2>5. CASE DeviceStatus
    BY <2>5 DEF DeviceStatus, UdevdReady
  <2>6. CASE WaitForDevicesReady
    BY <2>6 DEF WaitForDevicesReady
  <2>7. CASE LinksRestart
    BY <2>7 DEF LinksRestart
  <2>8. ASSUME NEW s \in Services, EnsureStarted(s) PROVE OrderInv'
    <3> USE DEF Moves, TypeOK, ManagerTypeOK
    <3>1. CASE Wake(s)
      BY <3>1 DEF Wake, Wanted
    <3>2. CASE LoadService(s)
      BY <3>2 DEF LoadService, Load, Becomes
    <3>3. CASE StartService(s)
      BY <3>3 DEF StartService, Start, Becomes
    <3>4. CASE UpSeen(s)
      BY <3>4 DEF UpSeen
    <3>5. CASE UpTimeout(s)
      BY <3>5 DEF UpTimeout
    <3> QED
      BY <2>8, <3>1, <3>2, <3>3, <3>4, <3>5 DEF EnsureStarted
  <2>9. ASSUME NEW s \in Services, CreateRunner(s) PROVE OrderInv'
    BY <2>9 DEF CreateRunner
  <2>10. ASSUME NEW s \in Services, ServiceEnds(s) PROVE OrderInv'
    BY <2>10 DEF ServiceEnds, End, Becomes, TypeOK, ManagerTypeOK
  <2>11. CASE HealthFunc
    <3> USE DEF Checking
    <3>1. CASE CheckBegins
      BY <3>1 DEF CheckBegins
    <3>2. CASE CheckFails
      BY <3>2 DEF CheckFails
    <3>3. CASE TriggerDevices
      BY <3>3 DEF TriggerDevices, Replay, TypeOK
    <3>4. CASE TriggerSubsystems
      <4>1. replayed' = Replay
        BY <3>4 DEF TriggerSubsystems, Replay, TypeOK
      <4> QED
        BY <3>4, <4>1 DEF TriggerSubsystems
    <3>5. CASE CheckSucceeds
      BY <3>5 DEF CheckSucceeds
    <3> QED
      BY <2>11, <3>1, <3>2, <3>3, <3>4, <3>5 DEF HealthFunc
  <2>12. ASSUME NEW e \in Events, Publish(e), e = "up" => checked
         PROVE  OrderInv'
    <3>1. \A i \in DOMAIN stream' : stream'[i] = "up" => settled
      BY <2>12, PublishedEvents
    <3> QED
      BY <2>12, <3>1 DEF Publish
  <2>13. CASE ApidEvent
    BY <2>13, <2>12 DEF ApidEvent, Events
  <2>14. ASSUME NEW e \in {"up", "sick", "other"}, UdevdEvent(e) PROVE OrderInv'
    BY <2>14, <2>12 DEF UdevdEvent, Events
  <2>15. CASE UNCHANGED vars
    BY <2>15 DEF vars
  <2> QED
    BY <2>1, <2>2, <2>3, <2>4, <2>5, <2>6, <2>7, <2>8, <2>9, <2>10, <2>11,
       <2>13, <2>14, <2>15 DEF Next
<1> QED
  BY <1>1, <1>2, BootTypeCorrect, PTL DEF Spec

\* Nothing that needs devices begins before udevd has replayed all device
\* events and settled, for every capacity of the stream.
THEOREM DevicesFirst == Spec => []BootOrder
<1>1. OrderInv => BootOrder
  BY DEF OrderInv, BootOrder
<1> QED
  BY <1>1, OrderCorrect, PTL

-----------------------------------------------------------------------------
(* Services and filesystems.                                               *)

\* Nothing is loaded while main mounts; after Shutdown nothing is started any
\* more, and main unmounts only when all that was loaded has ended.  Then each
\* filesystem is mounted until its turn, and afterwards only if it refused.
FilesInv ==
  /\ main \in {"serve", "stop", "wait"} => mounted = Filesystems
  /\ main = "mount" => /\ devices = "off"
                       /\ \A s \in Services : ctl[s] = "off" /\ life[s] = "unloaded"
  /\ main \in {"wait", "unmount", "halted"} => terminating
  /\ main \in {"unmount", "halted"} =>
       \A s \in Services : life[s] \in {"unloaded", "ended"}
  /\ main /= "unmount" => untried = {}
  /\ untried \subseteq mounted
  /\ main \in {"unmount", "halted"} => mounted \subseteq untried \cup failed

\* What is under a filesystem comes after it in the list, and has had its turn
\* before it.
LEMMA NothingUnder ==
  ASSUME NEW x \in untried, UnmountNext(x), untried \subseteq Filesystems
  PROVE  untried \cap Detached(x) = {x}
<1>1. PICK i \in 1 .. 7 :
         /\ x = essentialMounts[i]
         /\ \A j \in i + 1 .. 7 : essentialMounts[j] \notin untried
  BY MountList DEF UnmountNext
<1>2. /\ i < 7 => "cgroup" \notin untried
      /\ i < 5 => "shm" \notin untried
      /\ i < 4 => "devpts" \notin untried
  BY <1>1 DEF essentialMounts
<1>3. x = "dev" => i = 3
  BY <1>1 DEF essentialMounts
<1>4. x = "sys" => i = 2
  BY <1>1 DEF essentialMounts
<1>5. DOMAIN Under = {"devpts", "shm", "cgroup"}
  BY DEF Under
<1>6. Under["devpts"] = "dev" /\ Under["shm"] = "dev" /\ Under["cgroup"] = "sys"
  BY DEF Under
<1>7. ASSUME NEW y \in untried, y \in DOMAIN Under, Under[y] = x PROVE FALSE
  BY <1>2, <1>3, <1>4, <1>5, <1>6, <1>7
<1> QED
  BY <1>7 DEF Detached

\* A turn of syncAndUnmountAll, whether it works or not.
LEMMA UnmountKeeps ==
  ASSUME TypeOK, FilesInv, Unmount
  PROVE  untried' \subseteq mounted' /\ mounted' \subseteq untried' \cup failed'
<1>1. PICK x \in untried :
         /\ UnmountNext(x) /\ untried' = untried \ {x}
         /\ \/ mounted' = mounted \ Detached(x) /\ UNCHANGED failed
            \/ failed' = failed \cup {x} /\ UNCHANGED mounted
  BY DEF Unmount
<1>2. untried \cap Detached(x) = {x}
  BY <1>1, NothingUnder DEF TypeOK
<1>3. untried \subseteq mounted /\ mounted \subseteq untried \cup failed
  BY DEF FilesInv, Unmount
<1> QED
  BY <1>1, <1>2, <1>3

\* FilesInv is an invariant.
THEOREM FilesCorrect == Spec => []FilesInv
<1> USE BootAssumption
<1>1. Init => FilesInv
  BY DEF Init, FilesInv, ManagerInit
<1>2. TypeOK /\ FilesInv /\ [Next]_vars => FilesInv'
  <2> SUFFICES ASSUME TypeOK, FilesInv, [Next]_vars PROVE FilesInv'
    OBVIOUS
  <2> USE DEF FilesInv, managerVars, mainVars, fileVars, udevdVars, streamVars,
              serviceVars, deviceVars, ctlVars
  <2>1. CASE Main
    <3>1. CASE Mount
      BY <3>1 DEF Mount
    <3>2. CASE Serve
      BY <3>2 DEF Serve
    <3>3. CASE ReadSignal
      BY <3>3 DEF ReadSignal
    <3>4. CASE CallShutdown
      BY <3>4 DEF CallShutdown, Shutdown
    <3>5. CASE ShutdownDone
      BY <3>5 DEF ShutdownDone, ShutdownReturns
    <3>6. CASE Unmount
      <4>1. untried' \subseteq mounted' /\ mounted' \subseteq untried' \cup failed'
        BY <3>6, UnmountKeeps
      <4> QED
        BY <3>6, <4>1 DEF Unmount
    <3>7. CASE Halt
      BY <3>7 DEF Halt
    <3> QED
      BY <2>1, <3>1, <3>2, <3>3, <3>4, <3>5, <3>6, <3>7 DEF Main
  <2>2. ASSUME NEW x \in {"SIGCHLD", "SIGTERM"}, Signal(x) PROVE FilesInv'
    BY <2>2 DEF Signal
  <2>3. CASE CtrlRun
    BY <2>3 DEF CtrlRun
  <2>4. CASE ServiceController
    BY <2>4 DEF ServiceController, Watch, Receive, WatchEnds
  <2>5. CASE DeviceStatus
    BY <2>5 DEF DeviceStatus
  <2>6. CASE WaitForDevicesReady \/ LinksRestart
    BY <2>6 DEF WaitForDevicesReady, LinksRestart
  <2>7. ASSUME NEW s \in Services, EnsureStarted(s) PROVE FilesInv'
    <3> USE DEF Moves, TypeOK, ManagerTypeOK
    <3>1. CASE Wake(s)
      BY <3>1 DEF Wake
    <3>2. CASE LoadService(s)
      BY <3>2 DEF LoadService, Load, Becomes
    <3>3. CASE StartService(s)
      BY <3>3 DEF StartService, Start, Becomes
    <3>4. CASE UpSeen(s) \/ UpTimeout(s)
      BY <3>4 DEF UpSeen, UpTimeout
    <3> QED
      BY <2>7, <3>1, <3>2, <3>3, <3>4 DEF EnsureStarted
  <2>8. ASSUME NEW s \in Services, CreateRunner(s) PROVE FilesInv'
    BY <2>8 DEF CreateRunner
  <2>9. ASSUME NEW s \in Services, ServiceEnds(s) PROVE FilesInv'
    BY <2>9 DEF ServiceEnds, End, Becomes, TypeOK, ManagerTypeOK
  <2>10. CASE HealthFunc
    BY <2>10 DEF HealthFunc, CheckBegins, CheckFails, TriggerDevices,
                 TriggerSubsystems, CheckSucceeds, Checking
  <2>11. ASSUME NEW e, Publish(e) PROVE FilesInv'
    BY <2>11 DEF Publish
  <2>12. CASE ApidEvent
    BY <2>11, <2>12 DEF ApidEvent
  <2>13. ASSUME NEW e \in {"up", "sick", "other"}, UdevdEvent(e) PROVE FilesInv'
    BY <2>11, <2>13 DEF UdevdEvent
  <2>14. CASE UNCHANGED vars
    BY <2>14 DEF vars
  <2> QED
    BY <2>1, <2>2, <2>3, <2>4, <2>5, <2>6, <2>7, <2>8, <2>9, <2>10, <2>12,
       <2>13, <2>14 DEF Next
<1> QED
  BY <1>1, <1>2, BootTypeCorrect, PTL DEF Spec

\* A service runs only while all filesystems are mounted; each filesystem has a
\* turn of its own to be unmounted, and what is still mounted when the machine
\* goes down refused.
THEOREM ServicesHaveFilesystems == Spec => []FilesystemsUnderServices
<1>1. TypeOK /\ FilesInv => FilesystemsUnderServices
  BY BootAssumption
     DEF TypeOK, ManagerTypeOK, FilesInv, FilesystemsUnderServices
<1> QED
  BY <1>1, BootTypeCorrect, FilesCorrect, PTL

-----------------------------------------------------------------------------
(* The resource of udevd.                                                  *)

\* The resource that the last event of udevd calls for.
Expected ==
  CASE last = "up" -> "healthy" [] last = "sick" -> "sick" [] OTHER -> "absent"

\* Before it is watched the stream ends with the last event of udevd, for
\* apid is not running yet.  From then on the last event of udevd is either
\* unread, with only events of apid after it, or in the resource.
LastUnread(i) ==
  stream[i] /= "apid" /\ \A j \in DOMAIN stream : j > i => stream[j] = "apid"

WatchInv ==
  /\ watch = "off" =>
       /\ resource = "absent" /\ ~ready /\ ~overrun
       /\ stream = <<>> => last = "none"
       /\ stream /= <<>> => stream[Len(stream)] = last
  /\ watch = "watching" /\ ~overrun =>
       /\ (\A i \in DOMAIN stream : stream[i] = "apid") => resource = Expected
       /\ \A i \in DOMAIN stream : LastUnread(i) => stream[i] = last

\* A publication of either service keeps WatchInv.
LEMMA PublishKeepsWatch ==
  ASSUME TypeOK, OrderInv, WatchInv, NEW e \in Events, Publish(e),
         \/ e = "apid" /\ life[Apid] = "active" /\ last' = last
         \/ e /= "apid" /\ last' = e
  PROVE  WatchInv'
<1> USE BootAssumption DEF TypeOK, WatchInv
<1>1. UNCHANGED <<watch, resource, ready>>
  BY DEF Publish, serviceVars, deviceVars
<1>2. CASE overrun \/ watch = "ended"
  BY <1>1, <1>2 DEF Publish
<1>3. CASE ~overrun /\ watch = "watching" /\ Len(stream) = Capacity
  <2>1. overrun'
    BY <1>3 DEF Publish
  <2> QED
    BY <1>1, <1>3, <2>1
<1>4. CASE ~overrun /\ watch = "watching" /\ Len(stream) < Capacity
  <2>1. stream' = Append(stream, e)
    BY <1>4 DEF Publish
  <2>2. /\ DOMAIN stream' = 1 .. Len(stream) + 1
        /\ DOMAIN stream = 1 .. Len(stream)
        /\ stream'[Len(stream) + 1] = e
        /\ \A i \in DOMAIN stream : stream'[i] = stream[i]
        /\ Len(stream) \in Nat
    BY <2>1
  <2>3. (\A i \in DOMAIN stream' : stream'[i] = "apid") => resource' = Expected'
    <3> SUFFICES ASSUME \A i \in DOMAIN stream' : stream'[i] = "apid"
                 PROVE  resource' = Expected'
      OBVIOUS
    <3>1. e = "apid"
      <4>1. Len(stream) + 1 \in DOMAIN stream'
        BY <2>2
      <4> QED
        BY <2>2, <4>1
    <3>2. ASSUME NEW i \in DOMAIN stream PROVE stream[i] = "apid"
      <4>1. i \in DOMAIN stream'
        BY <2>2
      <4> QED
        BY <2>2, <4>1
    <3> QED
      BY <3>1, <3>2, <1>1, <1>4 DEF Expected
  <2>4. ASSUME NEW i \in DOMAIN stream', LastUnread(i)'
        PROVE  stream'[i] = last'
    <3>1. CASE i = Len(stream) + 1
      BY <2>2, <2>4, <3>1 DEF LastUnread
    <3>2. CASE i < Len(stream) + 1
      <4>1. i \in DOMAIN stream /\ stream'[i] = stream[i]
        BY <2>2, <3>2
      <4>2. e = "apid"
        BY <2>2, <2>4, <3>2 DEF LastUnread
      <4>3. LastUnread(i)
        BY <2>2, <2>4, <4>1 DEF LastUnread
      <4> QED
        BY <4>1, <4>2, <4>3, <1>4
    <3> QED
      BY <2>2, <3>1, <3>2
  <2> QED
    BY <1>1, <1>4, <2>3, <2>4
<1>5. CASE watch = "off"
  <2>1. e /= "apid" /\ last' = e /\ ~overrun
    BY <1>5 DEF OrderInv
  <2>2. \/ stream' = Append(stream, e) /\ ~overrun'
        \/ stream' = Append(Tail(stream), e) /\ ~overrun' /\ stream /= <<>>
    BY <1>5, <2>1 DEF Publish
  <2>3. stream' /= <<>> /\ stream'[Len(stream')] = e
    BY <2>2
  <2> QED
    BY <1>1, <1>5, <2>1, <2>2, <2>3
<1> QED
  BY <1>2, <1>3, <1>4, <1>5

\* Reading an event keeps it.
LEMMA ReceiveKeepsWatch ==
  ASSUME TypeOK, WatchInv, Receive
  PROVE  WatchInv'
<1> USE DEF TypeOK, WatchInv
<1>1. /\ watch = "watching" /\ stream' = Tail(stream) /\ stream /= <<>>
      /\ UNCHANGED <<watch, overrun, last>>
      /\ resource' = ResourceOf(Head(stream))
  BY DEF Receive
<1>2. /\ Len(stream) \in Nat \ {0} /\ DOMAIN stream = 1 .. Len(stream)
      /\ DOMAIN stream' = 1 .. Len(stream) - 1
      /\ \A i \in DOMAIN stream' : stream'[i] = stream[i + 1]
      /\ Head(stream) = stream[1] /\ stream[1] \in Events
  BY <1>1
<1>3. CASE overrun
  BY <1>1, <1>3
<1>4. CASE ~overrun
  <2>1. ASSUME \A i \in DOMAIN stream' : stream'[i] = "apid"
        PROVE  resource' = Expected'
    <3>1. \A j \in DOMAIN stream : j > 1 => stream[j] = "apid"
      <4> TAKE j \in DOMAIN stream
      <4> HAVE j > 1
      <4>1. j - 1 \in DOMAIN stream' /\ stream'[j - 1] = stream[j]
        BY <1>2
      <4> QED
        BY <4>1, <2>1
    <3>2. CASE stream[1] = "apid"
      <4>1. \A j \in DOMAIN stream : stream[j] = "apid"
        BY <1>2, <3>1, <3>2
      <4> QED
        BY <1>1, <1>2, <1>4, <3>2, <4>1 DEF ResourceOf, Expected
    <3>3. CASE stream[1] /= "apid"
      <4>1. stream[1] = last
        BY <1>1, <1>2, <1>4, <3>1, <3>3 DEF LastUnread
      <4> QED
        BY <1>1, <1>2, <4>1, <3>3 DEF ResourceOf, Expected, Events
    <3> QED
      BY <3>2, <3>3
  <2>2. ASSUME NEW i \in DOMAIN stream', LastUnread(i)'
        PROVE  stream'[i] = last'
    <3>1. i + 1 \in DOMAIN stream /\ stream'[i] = stream[i + 1]
      BY <1>2
    <3>2. ASSUME NEW j \in DOMAIN stream, j > i + 1 PROVE stream[j] = "apid"
      <4>1. j - 1 \in DOMAIN stream' /\ j - 1 > i /\ stream'[j - 1] = stream[j]
        BY <1>2, <3>2
      <4> QED
        BY <4>1, <2>2 DEF LastUnread
    <3>3. LastUnread(i + 1)
      BY <2>2, <3>1, <3>2 DEF LastUnread
    <3> QED
      BY <1>1, <1>4, <3>1, <3>3
  <2> QED
    BY <1>1, <1>4, <2>1, <2>2
<1> QED
  BY <1>3, <1>4

\* WatchInv is an invariant, for every capacity of the stream.
THEOREM WatchCorrect == Spec => []WatchInv
<1> USE BootAssumption
<1>1. Init => WatchInv
  BY DEF Init, WatchInv
<1>2. TypeOK /\ OrderInv /\ WatchInv /\ [Next]_vars => WatchInv'
  <2> SUFFICES ASSUME TypeOK, OrderInv, WatchInv, [Next]_vars PROVE WatchInv'
    OBVIOUS
  <2> USE DEF managerVars, mainVars, fileVars, udevdVars, streamVars, serviceVars,
              deviceVars, ctlVars
  <2>0. ASSUME UNCHANGED <<stream, last, overrun, watch, resource>>,
               ready' /= ready => watch /= "off"
        PROVE  WatchInv'
    BY <2>0 DEF WatchInv, LastUnread, Expected, TypeOK
  <2>1. CASE Main
    BY <2>0, <2>1 DEF Main, Mount, Serve, ReadSignal, CallShutdown,
                      ShutdownDone, Unmount, Halt
  <2>2. ASSUME NEW x \in {"SIGCHLD", "SIGTERM"}, Signal(x) PROVE WatchInv'
    BY <2>0, <2>2 DEF Signal
  <2>3. CASE CtrlRun
    BY <2>0, <2>3 DEF CtrlRun
  <2>4. CASE Watch
    <3>1. /\ watch = "off" /\ watch' = "watching"
          /\ UNCHANGED <<stream, last, overrun, resource, ready>>
      BY <2>4 DEF Watch, WatchedHistory
    <3>2. CASE stream = <<>>
      BY <3>1, <3>2 DEF WatchInv, Expected, LastUnread
    <3>3. CASE stream /= <<>>
      <4>1. Len(stream) \in DOMAIN stream /\ stream[Len(stream)] = last /\ last /= "apid"
        BY <3>1, <3>3 DEF WatchInv, TypeOK
      <4>2. \A i \in DOMAIN stream : LastUnread(i) => i = Len(stream)
        BY <4>1 DEF LastUnread, TypeOK
      <4> QED
        BY <3>1, <4>1, <4>2 DEF WatchInv, LastUnread
    <3> QED
      BY <3>2, <3>3
  <2>5. CASE Receive
    BY <2>5, ReceiveKeepsWatch
  <2>6. CASE WatchEnds
    BY <2>6 DEF WatchEnds, WatchInv
  <2>7. CASE DeviceStatus
    BY <2>0, <2>7 DEF DeviceStatus, UdevdReady, WatchInv
  <2>8. CASE WaitForDevicesReady \/ LinksRestart
    BY <2>0, <2>8 DEF WaitForDevicesReady, LinksRestart
  <2>9. ASSUME NEW s \in Services, EnsureStarted(s) PROVE WatchInv'
    BY <2>0, <2>9 DEF EnsureStarted, Wake, LoadService, StartService, UpSeen,
                      UpTimeout, Moves
  <2>10. ASSUME NEW s \in Services, CreateRunner(s) \/ ServiceEnds(s)
         PROVE  WatchInv'
    BY <2>0, <2>10 DEF CreateRunner, ServiceEnds
  <2>11. CASE HealthFunc
    BY <2>0, <2>11 DEF HealthFunc, CheckBegins, CheckFails, TriggerDevices,
                       TriggerSubsystems, CheckSucceeds, Checking
  <2>12. CASE ApidEvent
    BY <2>12, PublishKeepsWatch DEF ApidEvent, Events
  <2>13. ASSUME NEW e \in {"up", "sick", "other"}, UdevdEvent(e) PROVE WatchInv'
    <3>1. e \in Events /\ e /= "apid" /\ Publish(e) /\ last' = e
      BY <2>13 DEF UdevdEvent, Events
    <3> QED
      BY <3>1, PublishKeepsWatch
  <2>14. CASE UNCHANGED vars
    BY <2>0, <2>14 DEF vars
  <2> QED
    BY <2>1, <2>2, <2>3, <2>4, <2>5, <2>6, <2>7, <2>8, <2>9, <2>10, <2>11,
       <2>12, <2>13, <2>14 DEF Next, ServiceController
<1> QED
  BY <1>1, <1>2, BootTypeCorrect, OrderCorrect, PTL DEF Spec

\* While ServiceController has its channel and nothing is unread, the resource
\* of udevd is what its last event says, for every capacity of the stream.
THEOREM ResourceIsCurrent == Spec => []ResourceFollowsEvents
<1>1. WatchInv => ResourceFollowsEvents
  BY DEF WatchInv, ResourceFollowsEvents, Expected
<1> QED
  BY <1>1, WatchCorrect, PTL

-----------------------------------------------------------------------------
(* Tokens: why a boot goes on.                                             *)

\* No controller waits without a token for something that is there already:
\* the writer's token is in its channel, or it has not looked since.
TokenInv ==
  /\ devices = "off" <=> links = "off"
  /\ \A s \in Services : devices = "off" <=> ctl[s] = "off"
  /\ devices = "done" <=> ready
  /\ watch /= "off" => devices /= "off"
  /\ devices = "waiting" /\ resource = "healthy" => "devices" \in eventCh
  /\ links = "waiting" /\ ready => "links" \in eventCh
  /\ \A s \in Services : ctl[s] = "idle" /\ Wanted(s) => s \in eventCh

\* A boot that has come to rest: udevd is up, ServiceController has read that
\* it is, and no controller has a token.
AtRest == watch = "watching" /\ ~overrun /\ stream = <<>> /\ last = "up" /\ eventCh = {}

\* It rests only when devices are ready, links are listed and apid is started
\* or its controller is at it.
RestsOnlyWhenBooted ==
  AtRest => /\ ready /\ links = "listing"
            /\ Apid \in started \/ ctl[Apid] \in {"load", "start", "wait"}

\* TokenInv is an invariant, for every capacity of the stream.
THEOREM TokensCorrect == Spec => []TokenInv
<1> USE BootAssumption
<1>1. Init => TokenInv
  BY DEF Init, TokenInv
<1>2. TypeOK /\ TokenInv /\ [Next]_vars => TokenInv'
  <2> SUFFICES ASSUME TypeOK, TokenInv, [Next]_vars PROVE TokenInv'
    OBVIOUS
  <2> USE DEF TokenInv, Wanted, managerVars, mainVars, fileVars, udevdVars, streamVars,
              serviceVars, deviceVars, ctlVars
  <2>1. CASE Main
    BY <2>1 DEF Main, Mount, Serve, ReadSignal, CallShutdown,
                ShutdownDone, Unmount, Halt
  <2>2. ASSUME NEW x \in {"SIGCHLD", "SIGTERM"}, Signal(x) PROVE TokenInv'
    BY <2>2 DEF Signal
  <2>3. CASE CtrlRun
    BY <2>3 DEF CtrlRun, WokenAtStart, Controllers
  <2>4. CASE ServiceController
    BY <2>4 DEF ServiceController, Watch, Receive, WatchEnds
  <2>5. CASE DeviceStatus
    BY <2>5 DEF DeviceStatus, UdevdReady, ReadyWakes, TypeOK
  <2>6. CASE WaitForDevicesReady
    BY <2>6 DEF WaitForDevicesReady, TypeOK
  <2>7. CASE LinksRestart
    BY <2>7 DEF LinksRestart
  <2>8. ASSUME NEW s \in Services, EnsureStarted(s) PROVE TokenInv'
    <3> USE DEF Moves, TypeOK
    <3>1. CASE Wake(s)
      BY <3>1 DEF Wake
    <3>2. CASE LoadService(s)
      BY <3>2 DEF LoadService, RestartWakes
    <3>3. CASE StartService(s)
      BY <3>3 DEF StartService
    <3>4. CASE UpSeen(s)
      BY <3>4 DEF UpSeen
    <3>5. CASE UpTimeout(s)
      BY <3>5 DEF UpTimeout, RestartWakes
    <3> QED
      BY <2>8, <3>1, <3>2, <3>3, <3>4, <3>5 DEF EnsureStarted
  <2>9. ASSUME NEW s \in Services, CreateRunner(s) PROVE TokenInv'
    BY <2>9 DEF CreateRunner
  <2>10. ASSUME NEW s \in Services, ServiceEnds(s) PROVE TokenInv'
    BY <2>10 DEF ServiceEnds
  <2>11. CASE HealthFunc
    BY <2>11 DEF HealthFunc, CheckBegins, CheckFails, TriggerDevices,
                 TriggerSubsystems, CheckSucceeds, Checking
  <2>12. ASSUME NEW e \in Events, Publish(e) PROVE TokenInv'
    BY <2>12 DEF Publish
  <2>13. CASE ApidEvent
    BY <2>13, <2>12 DEF ApidEvent, Events
  <2>14. ASSUME NEW e \in {"up", "sick", "other"}, UdevdEvent(e) PROVE TokenInv'
    BY <2>14, <2>12 DEF UdevdEvent, Events
  <2>15. CASE UNCHANGED vars
    BY <2>15 DEF vars
  <2> QED
    BY <2>1, <2>2, <2>3, <2>4, <2>5, <2>6, <2>7, <2>8, <2>9, <2>10, <2>11,
       <2>13, <2>14, <2>15 DEF Next
<1> QED
  BY <1>1, <1>2, BootTypeCorrect, PTL DEF Spec

\* A boot never stalls half-way, in whatever order events, tokens and restarts
\* of controllers came: with nothing left to read, it is complete.
THEOREM BootNeverStalls == Spec => []RestsOnlyWhenBooted
<1>1. TypeOK /\ TokenInv /\ ResourceFollowsEvents => RestsOnlyWhenBooted
  BY BootAssumption DEF TypeOK, TokenInv, ResourceFollowsEvents, RestsOnlyWhenBooted,
                        AtRest, Wanted
<1> QED
  BY <1>1, BootTypeCorrect, TokensCorrect, ResourceIsCurrent, PTL

-----------------------------------------------------------------------------
(* Signals and the way to the reboot: what SignalStops rests on.           *)

\* A request to stop at place i of the channel that main reads.
Queued(i) == main = "serve" /\ i \in DOMAIN sigCh /\ sigCh[i] = "SIGTERM"

\* No step takes a queued request out of the channel or puts another one
\* before it; each signal that main reads brings it nearer, and reading it
\* makes main stop.
SignalMovesOn ==
  \A i \in 1 .. SigCap : Queued(i) =>
    \/ ~ReadSignal /\ Queued(i)'
    \/ ReadSignal /\ i > 1 /\ (main' = "stop" \/ Queued(i - 1)')
    \/ ReadSignal /\ i = 1 /\ main' = "stop"

\* A queued request to stop is never lost, for every capacity of the channel.
THEOREM SignalNeverLost == Spec => [][SignalMovesOn]_vars
<1>1. TypeOK /\ Next => SignalMovesOn
  <2> SUFFICES ASSUME TypeOK, Next, NEW i \in 1 .. SigCap, Queued(i)
               PROVE  \/ ~ReadSignal /\ Queued(i)'
                      \/ ReadSignal /\ i > 1 /\ (main' = "stop" \/ Queued(i - 1)')
                      \/ ReadSignal /\ i = 1 /\ main' = "stop"
    BY DEF SignalMovesOn
  <2> USE BootAssumption DEF Queued, managerVars, mainVars, fileVars
  <2>1. CASE ReadSignal
    <3>1. /\ sigCh' = Tail(sigCh) /\ Head(sigCh) = sigCh[1]
          /\ DOMAIN sigCh = 1 .. Len(sigCh) /\ Len(sigCh) \in Nat
      BY <2>1 DEF ReadSignal, TypeOK
    <3>2. Head(sigCh) = "SIGTERM" => main' = "stop"
      BY <2>1 DEF ReadSignal
    <3>3. CASE i = 1
      BY <2>1, <3>1, <3>2, <3>3
    <3>4. CASE i > 1 /\ Head(sigCh) /= "SIGTERM"
      <4>1. i - 1 \in DOMAIN sigCh' /\ sigCh'[i - 1] = sigCh[i]
        BY <3>1, <3>4 DEF TypeOK
      <4>2. main' = main
        BY <2>1, <3>4 DEF ReadSignal
      <4> QED
        BY <2>1, <3>4, <4>1, <4>2
    <3> QED
      BY <2>1, <3>2, <3>3, <3>4
  <2> SUFFICES ASSUME ~ReadSignal PROVE Queued(i)'
    BY <2>1
  <2>2. ASSUME NEW x \in {"SIGCHLD", "SIGTERM"}, Signal(x)
        PROVE  Queued(i)'
    <3>1. sigCh' = Append(sigCh, x) /\ main' = main
      BY <2>2 DEF Signal
    <3>2. i \in DOMAIN sigCh' /\ sigCh'[i] = sigCh[i]
      BY <3>1 DEF TypeOK
    <3> QED
      BY <3>1, <3>2
  <2>3. ASSUME UNCHANGED <<main, sigCh>> PROVE Queued(i)'
    BY <2>3
  <2>4. CASE Main
    BY <2>3, <2>4 DEF Main, Mount, Serve, CallShutdown, ShutdownDone, Unmount, Halt
  <2>5. CASE CtrlRun \/ ServiceController \/ DeviceStatus
             \/ WaitForDevicesReady \/ LinksRestart
    BY <2>3, <2>5 DEF CtrlRun, ServiceController, Watch, Receive, WatchEnds,
                      DeviceStatus, WaitForDevicesReady, LinksRestart
  <2>6. ASSUME NEW s \in Services,
               EnsureStarted(s) \/ CreateRunner(s) \/ ServiceEnds(s)
        PROVE  Queued(i)'
    BY <2>3, <2>6 DEF EnsureStarted, Wake, LoadService, StartService, UpSeen,
                      UpTimeout, Moves, CreateRunner, ServiceEnds
  <2>7. CASE HealthFunc
    BY <2>3, <2>7 DEF HealthFunc, CheckBegins, CheckFails, TriggerDevices,
                      TriggerSubsystems, CheckSucceeds, Checking
  <2>8. ASSUME NEW e, Publish(e) PROVE Queued(i)'
    BY <2>3, <2>8 DEF Publish
  <2>9. CASE ApidEvent
    BY <2>8, <2>9 DEF ApidEvent
  <2>10. ASSUME NEW e \in {"up", "sick", "other"}, UdevdEvent(e) PROVE Queued(i)'
    BY <2>8, <2>10 DEF UdevdEvent
  <2> QED
    BY <2>2, <2>4, <2>5, <2>6, <2>7, <2>9, <2>10 DEF Next
<1> QED
  BY <1>1, BootTypeCorrect, PTL DEF Spec

\* Where main is once it has read a request to stop.
Stopping == main \in {"stop", "wait", "unmount", "halted"}

\* How many steps main has left: the call of Shutdown, its return, one for
\* each filesystem, and the reboot.
StopLeft ==
  IF ~Alive THEN 0
  ELSE CASE main = "stop" -> Cardinality(Filesystems) + 3
         [] main = "wait" -> Cardinality(Filesystems) + 2
         [] OTHER -> Cardinality(untried) + 1

\* Once main stops there is no way back: each of its steps is one fewer, and
\* nobody else adds one.  While it waits for Shutdown, services only end.
StopStep ==
  Stopping =>
    /\ Stopping' /\ StopLeft' <= StopLeft /\ (Main => StopLeft' < StopLeft)
    /\ main /= "stop" =>
         \A s \in Services : \/ life'[s] = life[s]
                             \/ life[s] = "active" /\ life'[s] = "ended"

\* main has its next step: the guards of CallShutdown, ShutdownDone, Unmount
\* and Halt.
NextOfMain ==
  \/ main = "stop" /\ ~terminating
  \/ /\ main = "wait" /\ terminating /\ ~returned
     /\ \A s \in Services : life[s] \in {"unloaded", "ended"}
  \/ main = "unmount" /\ \E x \in untried : UnmountNext(x)
  \/ main = "unmount" /\ untried = {}

\* On its way to the reboot main waits for services only: one that still runs,
\* or one that was loaded and never started.
WaitsForServicesOnly ==
  Alive /\ Stopping =>
    \/ NextOfMain
    \/ main = "wait" /\ \E s \in Services : life[s] \in {"loaded", "active"}

\* Shutdown is called once, by main, and its return is seen once.
CallInv ==
  /\ main \in {"mount", "serve", "stop"} => ~terminating
  /\ main = "wait" => terminating
  /\ main \in {"mount", "serve", "stop", "wait"} => ~returned

\* The steps of the others leave main where it is, and after Shutdown was
\* called no service is loaded or started.
LEMMA OthersLeaveMain ==
  ASSUME TypeOK, [Next]_vars, ~Main
  PROVE  /\ UNCHANGED <<main, untried, terminating, returned>>
         /\ terminating => \A s \in Services : \/ life'[s] = life[s]
                                               \/ life[s] = "active" /\ life'[s] = "ended"
<1> USE BootAssumption DEF managerVars, mainVars, fileVars
<1> DEFINE Goal == /\ UNCHANGED <<main, untried, terminating, returned>>
                   /\ terminating => \A s \in Services :
                        \/ life'[s] = life[s]
                        \/ life[s] = "active" /\ life'[s] = "ended"
<1>1. ASSUME UNCHANGED <<main, untried, managerVars>> PROVE Goal
  BY <1>1
<1>2. ASSUME NEW x \in {"SIGCHLD", "SIGTERM"}, Signal(x) PROVE Goal
  BY <1>1, <1>2 DEF Signal
<1>3. CASE CtrlRun \/ ServiceController \/ DeviceStatus
           \/ WaitForDevicesReady \/ LinksRestart
  BY <1>1, <1>3 DEF CtrlRun, ServiceController, Watch, Receive, WatchEnds,
                    DeviceStatus, WaitForDevicesReady, LinksRestart
<1>4. ASSUME NEW s \in Services, EnsureStarted(s) PROVE Goal
  <2>1. CASE LoadService(s)
    BY <2>1 DEF LoadService, Load, Becomes, Moves
  <2>2. CASE StartService(s)
    BY <2>2 DEF StartService, Start, Becomes, Moves
  <2>3. CASE Wake(s) \/ UpSeen(s) \/ UpTimeout(s)
    BY <1>1, <2>3 DEF Wake, UpSeen, UpTimeout, Moves
  <2> QED
    BY <1>4, <2>1, <2>2, <2>3 DEF EnsureStarted
<1>5. ASSUME NEW s \in Services, CreateRunner(s) PROVE Goal
  BY <1>1, <1>5 DEF CreateRunner
<1>6. ASSUME NEW s \in Services, ServiceEnds(s) PROVE Goal
  <2>1. /\ UNCHANGED <<main, untried, terminating, returned>>
        /\ life[s] = "active" /\ life' = [life EXCEPT ![s] = "ended"]
    BY <1>6 DEF ServiceEnds, End, Becomes
  <2> QED
    BY <2>1 DEF TypeOK, ManagerTypeOK
<1>7. CASE HealthFunc
  BY <1>1, <1>7 DEF HealthFunc, CheckBegins, CheckFails, TriggerDevices,
                    TriggerSubsystems, CheckSucceeds, Checking
<1>8. ASSUME NEW e, Publish(e) PROVE Goal
  BY <1>1, <1>8 DEF Publish
<1>9. CASE ApidEvent
  BY <1>8, <1>9 DEF ApidEvent
<1>10. ASSUME NEW e \in {"up", "sick", "other"}, UdevdEvent(e) PROVE Goal
  BY <1>8, <1>10 DEF UdevdEvent
<1>11. CASE UNCHANGED vars
  BY <1>1, <1>11 DEF vars
<1> QED
  BY <1>2, <1>3, <1>4, <1>5, <1>6, <1>7, <1>9, <1>10, <1>11 DEF Next

\* Nothing happens after the end of the process.
LEMMA OnlyAlive ==
  ASSUME Next
  PROVE  Alive
BY DEF Next, Main, Mount, Serve, ReadSignal, CallShutdown, ShutdownDone, Unmount,
       Halt, Signal, CtrlRun, ServiceController, Watch, Receive, WatchEnds,
       DeviceStatus, WaitForDevicesReady, LinksRestart, EnsureStarted, Wake,
       LoadService, StartService, UpSeen, UpTimeout, Moves, CreateRunner,
       ServiceEnds, HealthFunc, CheckBegins, CheckFails, TriggerDevices,
       TriggerSubsystems, CheckSucceeds, Checking, ApidEvent, UdevdEvent, Publish

\* CallInv is an invariant.
THEOREM CallCorrect == Spec => []CallInv
<1>1. Init => CallInv
  BY DEF Init, ManagerInit, CallInv
<1>2. TypeOK /\ CallInv /\ [Next]_vars => CallInv'
  <2> SUFFICES ASSUME TypeOK, CallInv, [Next]_vars PROVE CallInv'
    OBVIOUS
  <2> USE DEF CallInv, managerVars
  <2>1. CASE ~Main
    BY <2>1, OthersLeaveMain
  <2>2. CASE Mount \/ Serve \/ ReadSignal
    BY <2>2 DEF Mount, Serve, ReadSignal
  <2>3. CASE CallShutdown \/ ShutdownDone
    BY <2>3 DEF CallShutdown, Shutdown, ShutdownDone, ShutdownReturns
  <2>4. CASE Unmount \/ Halt
    BY <2>4 DEF Unmount, Halt
  <2> QED
    BY <2>1, <2>2, <2>3, <2>4 DEF Main
<1> QED
  BY <1>1, <1>2, BootTypeCorrect, PTL DEF Spec

\* Among the filesystems whose turn is to come, one is the next to unmount.
LEMMA OneToUnmount ==
  ASSUME TypeOK, untried /= {}
  PROVE  \E x \in untried : UnmountNext(x)
<1> USE MountList DEF TypeOK, UnmountNext
<1> DEFINE Last(i) == /\ essentialMounts[i] \in untried
                      /\ \A j \in i + 1 .. 7 : essentialMounts[j] \notin untried
<1>1. \E i \in 1 .. 7 : Last(i)
  <2>1. \A x \in untried : \E i \in 1 .. 7 : x = essentialMounts[i]
    BY DEF Filesystems
  <2>2. PICK k \in 1 .. 7 : essentialMounts[k] \in untried
    <3>1. PICK x : x \in untried
      OBVIOUS
    <3>2. PICK k \in 1 .. 7 : x = essentialMounts[k]
      BY <2>1, <3>1
    <3> QED
      BY <3>1, <3>2
  <2> DEFINE M(i) == essentialMounts[i] \in untried
  <2>3. \E i \in 1 .. 7 : M(i) /\ \A j \in i + 1 .. 7 : ~M(j)
    <3> HIDE DEF M
    <3>1. CASE M(7)
      BY <3>1
    <3>2. CASE ~M(7) /\ M(6)
      <4>1. \A j \in 6 + 1 .. 7 : ~M(j)
        BY <3>2
      <4> QED
        BY <3>2, <4>1
    <3>3. CASE ~M(7) /\ ~M(6) /\ M(5)
      <4>1. \A j \in 5 + 1 .. 7 : j \in {6, 7}
        OBVIOUS
      <4> QED
        BY <3>3, <4>1
    <3>4. CASE ~M(7) /\ ~M(6) /\ ~M(5) /\ M(4)
      <4>1. \A j \in 4 + 1 .. 7 : j \in {5, 6, 7}
        OBVIOUS
      <4> QED
        BY <3>4, <4>1
    <3>5. CASE ~M(7) /\ ~M(6) /\ ~M(5) /\ ~M(4) /\ M(3)
      <4>1. \A j \in 3 + 1 .. 7 : j \in {4, 5, 6, 7}
        OBVIOUS
      <4> QED
        BY <3>5, <4>1
    <3>6. CASE ~M(7) /\ ~M(6) /\ ~M(5) /\ ~M(4) /\ ~M(3) /\ M(2)
      <4>1. \A j \in 2 + 1 .. 7 : j \in {3, 4, 5, 6, 7}
        OBVIOUS
      <4> QED
        BY <3>6, <4>1
    <3>7. CASE ~M(7) /\ ~M(6) /\ ~M(5) /\ ~M(4) /\ ~M(3) /\ ~M(2)
      <4>1. \A j \in 1 .. 7 : j \in {1, 2, 3, 4, 5, 6, 7}
        OBVIOUS
      <4>2. M(k)
        BY <2>2 DEF M
      <4>3. k = 1
        BY <3>7, <4>1, <4>2
      <4>4. \A j \in 1 + 1 .. 7 : ~M(j)
        BY <3>7, <4>1
      <4> QED
        BY <4>2, <4>3, <4>4
    <3> QED
      BY <3>1, <3>2, <3>3, <3>4, <3>5, <3>6, <3>7
  <2> QED
    BY <2>3
<1>2. PICK i \in 1 .. 7 : Last(i)
  BY <1>1
<1> QED
  BY <1>2

\* On its way to the reboot main waits for services only, and never for its
\* own unmounting.
THEOREM MainWaitsForServicesOnly == Spec => []WaitsForServicesOnly
<1>1. TypeOK /\ CallInv => WaitsForServicesOnly
  <2> SUFFICES ASSUME TypeOK, CallInv, Alive, Stopping
               PROVE  \/ NextOfMain
                      \/ /\ main = "wait"
                         /\ \E s \in Services : life[s] \in {"loaded", "active"}
    BY DEF WaitsForServicesOnly
  <2>1. CASE main = "stop"
    BY <2>1 DEF CallInv, NextOfMain
  <2>2. CASE main = "wait"
    BY <2>2 DEF CallInv, NextOfMain, TypeOK, ManagerTypeOK, Lives
  <2>3. CASE main = "unmount"
    BY <2>3, OneToUnmount DEF NextOfMain
  <2> QED
    BY <2>1, <2>2, <2>3 DEF Stopping, Alive
<1> QED
  BY <1>1, BootTypeCorrect, CallCorrect, PTL

\* Once main stops, its steps are numbered and nobody adds one: with the two
\* theorems above, what SignalStops needs beside fairness.
THEOREM StopIsFinal == Spec => [][StopStep]_vars
<1>1. TypeOK /\ CallInv /\ FilesInv /\ Next => StopStep
  <2> SUFFICES ASSUME TypeOK, CallInv, FilesInv, Next, Stopping PROVE StopStep
    BY DEF StopStep
  <2>1. /\ IsFiniteSet(untried) /\ Cardinality(untried) \in Nat
        /\ Cardinality(Filesystems) \in Nat
    <3>1. IsFiniteSet(Filesystems)
      <4> DEFINE f == [i \in 1 .. 7 |-> essentialMounts[i]]
      <4>1. f \in Surjection(1 .. 7, Filesystems)
        BY MountList DEF Surjection, Filesystems
      <4>2. IsFiniteSet(1 .. 7)
        <5>1. 1 \in Int /\ 7 \in Int
          OBVIOUS
        <5> QED
          BY <5>1, FS_Interval, Zenon
      <4> QED
        BY <4>1, <4>2, FS_Surjection
    <3>2. IsFiniteSet(untried)
      BY <3>1, FS_Subset DEF TypeOK
    <3> QED
      BY <3>1, <3>2, FS_CardinalityType
  <2>2. StopLeft \in Nat /\ (Alive => StopLeft > 0)
    BY <2>1 DEF StopLeft
  <2>3. ~Alive' => StopLeft' = 0
    BY DEF StopLeft
  <2>4. CASE ~Main
    <3>1. UNCHANGED <<main, untried>>
      BY <2>4, OthersLeaveMain
    <3>2. Alive
      BY OnlyAlive
    <3>3. StopLeft' \in {0, StopLeft} /\ Stopping'
      BY <3>1, <3>2 DEF StopLeft, Stopping
    <3>4. main /= "stop" => terminating
      BY DEF FilesInv, Stopping
    <3> QED
      BY <2>2, <2>4, <3>3, <3>4, OthersLeaveMain DEF StopStep
  <2>5. CASE CallShutdown
    <3>1. main = "stop" /\ main' = "wait" /\ Alive /\ Alive'
      BY <2>5 DEF CallShutdown, Alive
    <3>2. /\ StopLeft = Cardinality(Filesystems) + 3
          /\ StopLeft' = Cardinality(Filesystems) + 2
      BY <3>1 DEF StopLeft
    <3> QED
      BY <2>1, <3>1, <3>2 DEF StopStep, Stopping
  <2>6. CASE ShutdownDone
    <3>1. /\ main = "wait" /\ main' = "unmount" /\ Alive /\ Alive'
          /\ untried' = Filesystems /\ life' = life
      BY <2>6 DEF ShutdownDone, ShutdownReturns, Alive
    <3>2. /\ StopLeft = Cardinality(Filesystems) + 2
          /\ StopLeft' = Cardinality(Filesystems) + 1
      BY <3>1 DEF StopLeft
    <3> QED
      BY <2>1, <3>1, <3>2 DEF StopStep, Stopping
  <2>7. CASE Unmount
    <3>1. main = "unmount" /\ main' = main /\ life' = life /\ Alive /\ Alive'
      BY <2>7 DEF Unmount, managerVars, Alive
    <3>2. PICK x \in untried : untried' = untried \ {x}
      BY <2>7 DEF Unmount
    <3>3. Cardinality(untried') = Cardinality(untried) - 1
      BY <2>1, <3>2, FS_RemoveElement
    <3>4. StopLeft = Cardinality(untried) + 1 /\ StopLeft' = Cardinality(untried') + 1
      BY <3>1 DEF StopLeft
    <3> QED
      BY <2>1, <3>1, <3>3, <3>4 DEF StopStep, Stopping
  <2>8. CASE Halt
    <3>1. main = "unmount" /\ Stopping' /\ life' = life /\ Alive /\ ~Alive'
      BY <2>8 DEF Halt, managerVars, Alive, Stopping
    <3> QED
      BY <2>2, <2>3, <3>1 DEF StopStep
  <2>9. CASE Mount \/ Serve \/ ReadSignal
    BY <2>9 DEF Mount, Serve, ReadSignal, Stopping
  <2> QED
    BY <2>4, <2>5, <2>6, <2>7, <2>8, <2>9 DEF Main
<1> QED
  BY <1>1, BootTypeCorrect, CallCorrect, FilesCorrect, PTL DEF Spec
=============================================================================
