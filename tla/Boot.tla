-------------------------------- MODULE Boot --------------------------------
(***************************************************************************)
(* From power-on to reboot: main.go and mount.go, the controllers that     *)
(* bring the machine up (pkg/controllers/runtime and the service           *)
(* controller of pkg/controllers/v1alpha1) and the health check of udevd,  *)
(* composed with the service manager (module Manager).                     *)
(*                                                                         *)
(* The chain of a boot: udevd is started; its check replays the devices    *)
(* and succeeds; its events make ServiceController write a resource;       *)
(* DeviceStatusController reads it and sets devices ready; apid is started *)
(* and the link controller lists links.  Each link of the chain is woken   *)
(* by a token in a channel of one slot, and main may shut down meanwhile.  *)
(***************************************************************************)
EXTENDS Integers, Sequences, Manager

CONSTANTS Udevd, Apid,  \* the services
          Capacity,     \* unread events that overrun ServiceController
          SigCap        \* capacity of sigCh

ASSUME BootAssumption ==
  /\ Services = {Udevd, Apid} /\ Udevd /= Apid
  /\ Services \cap {"devices", "links"} = {}  \* names of controllers
  /\ Capacity \in Nat \ {0} /\ SigCap \in Nat \ {0}

VARIABLES main, mounted,      \* where main is, what is mounted
          untried, failed,    \* not yet unmounted, would not be (history)
          sigCh,              \* signals main has not read
          instance,           \* the manager: "none", "runtime" or "nil"
          crashed,            \* a panic or a fatal error ended the process
          begun,              \* services whose runner was created
          check, triggered,   \* udevd's health check, and its flag
          replayed,           \* device events udevd was asked to replay
          checked, settled,   \* a check succeeded, after the whole replay
          stream, last,       \* events not read, the last one of udevd
          watch, resource,    \* ServiceController, the resource of udevd
          overrun,            \* its channel is about to be closed
          devices, ready,     \* DeviceStatusController, DevicesStatus
          links,              \* LinkStatusController
          eventCh,            \* controllers with a token in their EventCh
          ctl, started        \* UdevServiceController, ApidServiceController

fileVars   == <<mounted, untried, failed>>
mainVars   == <<main, fileVars, sigCh>>
udevdVars  == <<begun, check, triggered, replayed, checked, settled>>
streamVars == <<stream, last, overrun>>
serviceVars == <<watch, resource>>
deviceVars == <<devices, ready, links>>
ctlVars    == <<ctl, started>>
vars == <<managerVars, mainVars, instance, crashed, udevdVars, streamVars,
          serviceVars, deviceVars, eventCh, ctlVars>>

Controllers == Services \cup {"devices", "links"}

\* The sources of mounts, in their order, and what each is mounted under.
essentialMounts == <<"proc", "sys", "dev", "devpts", "shm", "run", "cgroup">>

Under == [devpts |-> "dev", shm |-> "dev", cgroup |-> "sys"]

Filesystems == {essentialMounts[i] : i \in DOMAIN essentialMounts}

Replay == {"devices", "subsystems"}
Events == {"up", "sick", "other", "apid"}

TypeOK ==
  /\ ManagerTypeOK
  /\ main \in {"mount", "serve", "stop", "wait", "unmount", "halted"}
  /\ mounted \subseteq Filesystems
  /\ untried \subseteq Filesystems /\ failed \subseteq Filesystems
  /\ sigCh \in Seq({"SIGCHLD", "SIGTERM"}) /\ Len(sigCh) <= SigCap
  /\ instance \in {"none", "runtime", "nil"}
  /\ crashed \in BOOLEAN
  /\ begun \subseteq Services
  /\ check \in {"idle", "devices", "subsystems", "settle"}
  /\ triggered \in BOOLEAN /\ replayed \subseteq Replay
  /\ checked \in BOOLEAN /\ settled \in BOOLEAN
  /\ stream \in Seq(Events) /\ Len(stream) <= Capacity
  /\ last \in {"none", "up", "sick", "other"}
  /\ overrun \in BOOLEAN
  /\ watch \in {"off", "watching", "ended"}
  /\ resource \in {"absent", "sick", "healthy"}
  /\ devices \in {"off", "waiting", "done"} /\ ready \in BOOLEAN
  /\ links \in {"off", "waiting", "listing"}
  /\ eventCh \subseteq Controllers
  /\ ctl \in [Services -> {"off", "idle", "load", "start", "wait"}]
  /\ started \subseteq Services

\* The kernel may have mounted /dev already.
Init ==
  /\ ManagerInit
  /\ main = "mount" /\ mounted \in {{}, {"dev"}} /\ sigCh = <<>>
  /\ untried = {} /\ failed = {}
  /\ instance = "none" /\ crashed = FALSE
  /\ begun = {} /\ check = "idle" /\ triggered = FALSE /\ replayed = {}
  /\ checked = FALSE /\ settled = FALSE
  /\ stream = <<>> /\ last = "none" /\ overrun = FALSE
  /\ watch = "off" /\ resource = "absent"
  /\ devices = "off" /\ ready = FALSE /\ links = "off"
  /\ eventCh = {}
  /\ ctl = [s \in Services |-> "off"] /\ started = {}

Alive == ~crashed /\ main /= "halted"

-----------------------------------------------------------------------------
(* main.                                                                   *)

\* mountAll: the next filesystem of the list is mounted, or was already
\* (EBUSY); any other error ends PID 1.
Mount ==
  /\ Alive /\ main = "mount"
  /\ \E i \in DOMAIN essentialMounts :
       /\ essentialMounts[i] \notin mounted
       /\ \A j \in 1 .. i - 1 : essentialMounts[j] \in mounted
       /\ \/ /\ mounted' = mounted \cup {essentialMounts[i]}
             /\ UNCHANGED crashed
          \/ crashed' = TRUE /\ UNCHANGED mounted
  /\ UNCHANGED <<managerVars, main, untried, failed, sigCh, instance,
                 udevdVars, streamVars, serviceVars, deviceVars, eventCh,
                 ctlVars>>

\* signal.Notify, the runtime, which may fail to be set up, and ctrl.Run in
\* a goroutine of its own.
Serve ==
  /\ Alive /\ main = "mount" /\ mounted = Filesystems
  /\ \/ main' = "serve" /\ UNCHANGED crashed
     \/ crashed' = TRUE /\ UNCHANGED main
  /\ UNCHANGED <<managerVars, fileVars, sigCh, instance, udevdVars,
                 streamVars, serviceVars, deviceVars, eventCh, ctlVars>>

\* A channel without a bound.
SignalUnbounded(x) ==
  /\ Alive /\ main = "serve" /\ sigCh' = Append(sigCh, x)
  /\ UNCHANGED <<managerVars, main, fileVars, instance, crashed, udevdVars,
                 streamVars, serviceVars, deviceVars, eventCh, ctlVars>>

\* A signal that finds the channel full is dropped, and nobody reads those
\* that come after the first to stop.  SIGTERM stands for SIGINT and SIGUSR2
\* as well, which differ in the last system call only.
Signal(x) ==
  /\ Alive /\ main = "serve" /\ Len(sigCh) < SigCap
  /\ sigCh' = Append(sigCh, x)
  /\ UNCHANGED <<managerVars, main, fileVars, instance, crashed, udevdVars,
                 streamVars, serviceVars, deviceVars, eventCh, ctlVars>>

\* The once of Services: whoever comes first decides.
OnceServices(x) == IF instance = "none" THEN x ELSE instance

ReadSignal ==
  /\ Alive /\ main = "serve" /\ sigCh /= <<>>
  /\ sigCh' = Tail(sigCh)
  /\ IF Head(sigCh) = "SIGTERM"
       THEN main' = "stop" /\ instance' = OnceServices("nil")
       ELSE UNCHANGED <<main, instance>>
  /\ UNCHANGED <<managerVars, fileVars, crashed, udevdVars, streamVars,
                 serviceVars, deviceVars, eventCh, ctlVars>>

CallShutdown ==
  /\ Alive /\ main = "stop" /\ Shutdown /\ main' = "wait"
  /\ UNCHANGED <<fileVars, sigCh, instance, crashed, udevdVars, streamVars,
                 serviceVars, deviceVars, eventCh, ctlVars>>

\* Waiting for services that were never loaded, too.
ShutdownDoneOfAll ==
  /\ Alive /\ main = "wait" /\ ShutdownReturns
  /\ \A s \in Services : life[s] = "ended"
  /\ main' = "unmount" /\ untried' = Filesystems
  /\ UNCHANGED <<mounted, failed, sigCh, instance, crashed, udevdVars,
                 streamVars, serviceVars, deviceVars, eventCh, ctlVars>>

ShutdownDone ==
  /\ Alive /\ main = "wait" /\ ShutdownReturns
  /\ main' = "unmount" /\ untried' = Filesystems
  /\ UNCHANGED <<mounted, failed, sigCh, instance, crashed, udevdVars,
                 streamVars, serviceVars, deviceVars, eventCh, ctlVars>>

\* Unmounting in the order of mounting.
UnmountForward(x) ==
  \E i \in DOMAIN essentialMounts :
    /\ x = essentialMounts[i]
    /\ \A j \in 1 .. i - 1 : essentialMounts[j] \notin untried

\* syncAndUnmountAll goes through the list backwards.
UnmountNext(x) ==
  \E i \in DOMAIN essentialMounts :
    /\ x = essentialMounts[i]
    /\ \A j \in i + 1 .. Len(essentialMounts) : essentialMounts[j] \notin untried

\* What MNT_DETACH takes out of the tree: x and all that is mounted under it.
Detached(x) == {x} \cup {y \in DOMAIN Under : Under[y] = x}

\* An error is logged, and the next filesystem has its turn all the same.
Unmount ==
  /\ Alive /\ main = "unmount"
  /\ \E x \in untried :
       /\ UnmountNext(x) /\ untried' = untried \ {x}
       /\ \/ /\ x \in mounted
             /\ mounted' = mounted \ Detached(x) /\ UNCHANGED failed
          \/ failed' = failed \cup {x} /\ UNCHANGED mounted
  /\ UNCHANGED <<managerVars, main, sigCh, instance, crashed, udevdVars,
                 streamVars, serviceVars, deviceVars, eventCh, ctlVars>>

\* The machine is rebooted or powered off, whatever is still mounted; where
\* the kernel refuses, PID 1 ends.
Halt ==
  /\ Alive /\ main = "unmount" /\ untried = {}
  /\ \/ main' = "halted" /\ UNCHANGED crashed
     \/ crashed' = TRUE /\ UNCHANGED main
  /\ UNCHANGED <<managerVars, fileVars, sigCh, instance, udevdVars,
                 streamVars, serviceVars, deviceVars, eventCh, ctlVars>>

-----------------------------------------------------------------------------
(* The run of a service, as far as the boot depends on it.                 *)

\* Runner(r) asks the runtime for its logging: without one it panics.
CreateRunner(s) ==
  /\ Alive /\ life[s] = "active" /\ s \notin begun
  /\ IF instance = "runtime"
       THEN begun' = begun \cup {s} /\ UNCHANGED crashed
       ELSE crashed' = TRUE /\ UNCHANGED begun
  /\ UNCHANGED <<managerVars, mainVars, instance, check, triggered, replayed,
                 checked, settled, streamVars, serviceVars, deviceVars,
                 eventCh, ctlVars>>

\* Run returns: PreFunc or Runner failed, or Shutdown has cancelled it, for
\* both services are restarted for ever.  With a runtime the final UpdateState
\* panics (module Services).
ServiceEnds(s) ==
  /\ Alive /\ End(s)
  /\ s \notin begun \/ terminating
  /\ crashed' = (instance = "runtime")
  /\ UNCHANGED <<mainVars, instance, udevdVars, streamVars, serviceVars,
                 deviceVars, eventCh, ctlVars>>

\* HealthFunc of udevd runs in the checker's goroutine, while udevd runs.
Checking(from, to) ==
  /\ Alive /\ Udevd \in begun /\ life[Udevd] = "active"
  /\ check = from /\ check' = to
  /\ UNCHANGED <<managerVars, mainVars, instance, crashed, begun, streamVars,
                 serviceVars, deviceVars, eventCh, ctlVars>>

\* Its control file is there and its rules are reloaded; a check that does
\* not get that far changes nothing.
CheckBegins ==
  /\ Checking("idle", IF triggered THEN "settle" ELSE "devices")
  /\ UNCHANGED <<triggered, replayed, checked, settled>>

\* Any of its commands fails, or the timeout of the check expires.
CheckFails ==
  /\ check /= "idle" /\ Checking(check, "idle")
  /\ UNCHANGED <<triggered, replayed, checked, settled>>

\* Setting the flag before the second command is known to have worked.
TriggerDevicesAndFlag ==
  /\ Checking("devices", "subsystems")
  /\ replayed' = replayed \cup {"devices"} /\ triggered' = TRUE
  /\ UNCHANGED <<checked, settled>>

TriggerDevices ==
  /\ Checking("devices", "subsystems")
  /\ replayed' = replayed \cup {"devices"}
  /\ UNCHANGED <<triggered, checked, settled>>

TriggerSubsystems ==
  /\ Checking("subsystems", "settle")
  /\ replayed' = replayed \cup {"subsystems"} /\ triggered' = TRUE
  /\ UNCHANGED <<checked, settled>>

CheckSucceeds ==
  /\ Checking("settle", "idle")
  /\ checked' = TRUE
  /\ settled' = (settled \/ replayed = Replay)
  /\ UNCHANGED <<triggered, replayed>>

HealthFunc ==
  \/ CheckBegins \/ CheckFails \/ TriggerDevices
  \/ TriggerSubsystems \/ CheckSucceeds

-----------------------------------------------------------------------------
(* Events and the resource that follows them.                              *)

\* Watching from now on only.
WatchedHistoryNone == <<>>

\* WithTailEvents(-1): all that the ring has.
WatchedHistory == stream

\* The ring keeps the newest events.  A consumer that is a whole ring behind
\* gets the one event it may have taken already, and its channel is closed.
Publish(e) ==
  /\ Alive /\ instance = "runtime"
  /\ CASE overrun \/ watch = "ended" -> UNCHANGED <<stream, overrun>>
       [] ~overrun /\ watch /= "ended" /\ Len(stream) < Capacity ->
            stream' = Append(stream, e) /\ UNCHANGED overrun
       [] ~overrun /\ watch = "off" /\ Len(stream) = Capacity ->
            stream' = Append(Tail(stream), e) /\ UNCHANGED overrun
       [] OTHER -> /\ overrun' = TRUE
                   /\ stream' \in {<<>>, <<Head(stream)>>}
  /\ UNCHANGED <<managerVars, mainVars, instance, crashed, udevdVars,
                 serviceVars, deviceVars, eventCh, ctlVars>>

\* What a run of udevd may publish (module Health): Running and healthy only
\* after a check has succeeded.  The order is left open, because UpdateState
\* and healthUpdate publish after they have released the mutex.
UdevdEvent(e) ==
  /\ life[Udevd] = "active"
  /\ e /= "other" => Udevd \in begun
  /\ e = "up" => checked
  /\ Publish(e) /\ last' = e

ApidEvent == life[Apid] = "active" /\ Publish("apid") /\ UNCHANGED last

\* ServiceController.Run, on a channel that has the history and what follows.
Watch ==
  /\ Alive /\ watch = "off" /\ devices /= "off"
  /\ watch' = "watching" /\ stream' = WatchedHistory
  /\ UNCHANGED <<managerVars, mainVars, instance, crashed, udevdVars, last,
                 overrun, resource, deviceVars, eventCh, ctlVars>>

ResourceOf(e) ==
  CASE e = "up" -> "healthy" [] e = "sick" -> "sick"
    [] e = "other" -> "absent" [] OTHER -> resource

Receive ==
  /\ Alive /\ watch = "watching" /\ stream /= <<>>
  /\ stream' = Tail(stream)
  /\ resource' = ResourceOf(Head(stream))
  /\ eventCh' = IF resource' /= resource THEN eventCh \cup {"devices"}
                                         ELSE eventCh
  /\ UNCHANGED <<managerVars, mainVars, instance, crashed, udevdVars, last,
                 overrun, watch, deviceVars, ctlVars>>

\* The channel is closed: Run returns nil and is not restarted.
WatchEnds ==
  /\ Alive /\ watch = "watching" /\ overrun /\ stream = <<>>
  /\ watch' = "ended"
  /\ UNCHANGED <<managerVars, mainVars, instance, crashed, udevdVars,
                 streamVars, resource, deviceVars, eventCh, ctlVars>>

-----------------------------------------------------------------------------
(* The controllers that wait for one another.                              *)

\* The runtime wakes every controller it starts or restarts.
WokenAtStart == Controllers

\* ctrl.Run: the manager gets the runtime unless main came first.
CtrlRun ==
  /\ Alive /\ main /= "mount" /\ devices = "off"
  /\ instance' = OnceServices("runtime")
  /\ devices' = "waiting" /\ links' = "waiting"
  /\ ctl' = [s \in Services |-> "idle"]
  /\ eventCh' = WokenAtStart
  /\ UNCHANGED <<managerVars, mainVars, crashed, udevdVars, streamVars,
                 serviceVars, ready, started>>

\* The link controller has not yet told the runtime that it waits for it.
ReadyWakesApid == {Apid}

\* DevicesStatus is an input of apid's controller, and of the link controller
\* while it waits.
ReadyWakes == {Apid} \cup (IF links = "waiting" THEN {"links"} ELSE {})

\* DeviceStatusController: ready is written once, and Run is over.
UdevdReady == resource = "healthy"

DeviceStatus ==
  /\ Alive /\ devices = "waiting" /\ "devices" \in eventCh
  /\ IF UdevdReady
       THEN /\ ready' = TRUE /\ devices' = "done"
            /\ eventCh' = (eventCh \ {"devices"}) \cup ReadyWakes
       ELSE eventCh' = eventCh \ {"devices"} /\ UNCHANGED <<ready, devices>>
  /\ UNCHANGED <<managerVars, mainVars, instance, crashed, udevdVars,
                 streamVars, serviceVars, links, ctlVars>>

\* LinkStatusController is in WaitForDevicesReady until then.
WaitForDevicesReady ==
  /\ Alive /\ links = "waiting" /\ "links" \in eventCh
  /\ eventCh' = eventCh \ {"links"}
  /\ links' = IF ready THEN "listing" ELSE links
  /\ UNCHANGED <<managerVars, mainVars, instance, crashed, udevdVars,
                 streamVars, serviceVars, devices, ready, ctlVars>>

\* A failed pass over the links (module DHCP4): Run starts all over.
LinksRestart ==
  /\ Alive /\ links = "listing"
  /\ links' = "waiting" /\ eventCh' = eventCh \cup {"links"}
  /\ UNCHANGED <<managerVars, mainVars, instance, crashed, udevdVars,
                 streamVars, serviceVars, devices, ready, ctlVars>>

-----------------------------------------------------------------------------
(* UdevServiceController and ApidServiceController.                        *)

Moves(s, from, to) ==
  /\ Alive /\ ctl[s] = from /\ ctl' = [ctl EXCEPT ![s] = to]
  /\ UNCHANGED <<mainVars, instance, crashed, udevdVars, streamVars,
                 serviceVars, deviceVars>>

\* A controller whose Run fails is idle again once the runtime has restarted
\* it, and is woken.
RestartWakes(s) == eventCh \cup {s}

Wanted(s) == s \notin started /\ (s = Apid => ready)

Wake(s) ==
  /\ s \in eventCh /\ eventCh' = eventCh \ {s}
  /\ Moves(s, "idle", IF Wanted(s) THEN "load" ELSE "idle")
  /\ UNCHANGED <<managerVars, started>>

\* Load is refused after Shutdown, and does nothing the second time.  Then
\* IsRunning tells a service that is not loaded (Run fails), one that is
\* running, and one to be started.
LoadService(s) ==
  /\ \/ Load(s)
     \/ (terminating \/ life[s] /= "unloaded") /\ UNCHANGED managerVars
  /\ Moves(s, "load", CASE life'[s] = "unloaded" -> "idle"
                        [] life'[s] = "active" -> "wait"
                        [] OTHER -> "start")
  /\ eventCh' = IF life'[s] = "unloaded" THEN RestartWakes(s) ELSE eventCh
  /\ UNCHANGED started

\* Start is refused after Shutdown.  Bound: one start of each service; with
\* a runtime the machine does not survive the end of the first.
StartService(s) ==
  /\ \/ Start(s)
     \/ (terminating \/ life[s] = "active") /\ UNCHANGED managerVars
  /\ Moves(s, "start", "wait") /\ UNCHANGED <<eventCh, started>>

\* The condition on Up, which needs a check that has succeeded.
UpSeen(s) ==
  /\ s \in begun /\ (s = Udevd => checked)
  /\ Moves(s, "wait", "idle") /\ started' = started \cup {s}
  /\ UNCHANGED <<managerVars, eventCh>>

\* Ten minutes are over.
UpTimeout(s) ==
  /\ Moves(s, "wait", "idle") /\ eventCh' = RestartWakes(s)
  /\ UNCHANGED <<managerVars, started>>

EnsureStarted(s) ==
  \/ Wake(s) \/ LoadService(s) \/ StartService(s) \/ UpSeen(s) \/ UpTimeout(s)

-----------------------------------------------------------------------------
ServiceController == Watch \/ Receive \/ WatchEnds

Main ==
  \/ Mount \/ Serve \/ ReadSignal \/ CallShutdown \/ ShutdownDone
  \/ Unmount \/ Halt

Next ==
  \/ Main \/ \E x \in {"SIGCHLD", "SIGTERM"} : Signal(x)
  \/ CtrlRun \/ ServiceController
  \/ DeviceStatus \/ WaitForDevicesReady \/ LinksRestart
  \/ \E s \in Services : EnsureStarted(s) \/ CreateRunner(s) \/ ServiceEnds(s)
  \/ HealthFunc \/ ApidEvent
  \/ \E e \in {"up", "sick", "other"} : UdevdEvent(e)

Spec == Init /\ [][Next]_vars

\* Every goroutine goes on, timers fire, and a service whose ctx is done
\* ends (module Runner).  Nobody has to send a signal, and nothing is assumed
\* of udevd, of its checks, or of what they publish.
FairSpec ==
  /\ Spec
  /\ WF_vars(Main) /\ WF_vars(CtrlRun) /\ WF_vars(ServiceController)
  /\ WF_vars(DeviceStatus) /\ WF_vars(WaitForDevicesReady)
  /\ \A s \in Services : /\ WF_vars(EnsureStarted(s))
                         /\ WF_vars(CreateRunner(s))
                         /\ WF_vars(terminating /\ ServiceEnds(s))

-----------------------------------------------------------------------------
(* Properties.                                                             *)

\* Nothing that needs devices begins before udevd has replayed all device
\* events and settled: not DevicesStatus, apid or the list of links, however
\* often checks fail half-way and controllers are restarted.  (The comment in
\* link_status.go: healthy "implies that all link renames are done".)
BootOrder ==
  ready \/ links = "listing" \/ life[Apid] /= "unloaded" \/ Udevd \in started
    => settled

\* While it has its channel, ServiceController misses nothing: with nothing
\* unread, the resource of udevd is what its last event says, also if that
\* was published before the controller began to watch.
ResourceFollowsEvents ==
  watch = "watching" /\ ~overrun /\ stream = <<>> =>
    resource = (CASE last = "up" -> "healthy" [] last = "sick" -> "sick"
                  [] OTHER -> "absent")

\* A service runs only while every filesystem is mounted, from before the
\* first one is started until Shutdown has waited for the last.  No filesystem
\* goes with the one it is under before its own turn to be unmounted, and an
\* error does not cut the list short: what is still mounted when the machine
\* goes down refused to be unmounted itself.
FilesystemsUnderServices ==
  /\ (\E s \in Services : life[s] = "active") => mounted = Filesystems
  /\ untried \subseteq mounted
  /\ main = "halted" => mounted \subseteq failed

\* A boot proceeds: if the last event of udevd stays that it is up, and
\* ServiceController was not overrun, apid is started and links are listed,
\* unless the machine stops.
BootProceeds ==
  <>[](last = "up" /\ ~overrun)
    => <>(\/ ready /\ links = "listing" /\ life[Apid] = "active"
          \/ terminating \/ ~Alive)

\* A signal that main can read stops the machine, unless it comes between
\* Load and Start of a service, which Shutdown then waits for for ever.
SignalStops ==
  (main = "serve" /\ \E i \in DOMAIN sigCh : sigCh[i] = "SIGTERM")
    ~> (~Alive \/ (terminating /\ \E s \in Services : life[s] = "loaded"))
=============================================================================
