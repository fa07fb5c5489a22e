------------------------------ MODULE Devices ------------------------------
(***************************************************************************)
(* The HardwareSubsystem (hardware_subsystem.go) with the services it      *)
(* starts and stops: the display (services/display/service.go), the GPIO   *)
(* service (services/gpio/service.go) and the stats collector.             *)
(*                                                                         *)
(* Both services hold their mutex while Stop waits for a loop that takes   *)
(* the same mutex on every tick, and the render loop looks at the display  *)
(* buffer without it.  A critical section without waiting is one step.     *)
(*                                                                         *)
(* Left out: the values of the pins, which are set and read by nobody; the *)
(* stats collector's loop, which shares nothing with the others (Stop      *)
(* waits for it here); UpdateAnalysisProgress and Clear, which nobody      *)
(* calls.  No pin has an interrupt when the GPIO service starts            *)
(* (Initialize has just replaced every PinStatus), so no monitorPin runs.  *)
(* A render may be asked for at any time.  A panic of the render loop ends *)
(* the process.                                                            *)
(***************************************************************************)
EXTENDS Naturals

VARIABLES
  hardware,   \* how far Start is, "running", or "failed"
  hwStop,     \* how far Stop is
  hwDone,     \* the subsystem's context is cancelled; those of the services are derived from it
  held,       \* the services whose mutex is held by their Stop
  loop,       \* where each loop is
  buffer,     \* displayBuffer: "none", "there" or "taken" (by Stop)
  active,     \* the display's IsActive
  mode,       \* CurrentMode
  contents    \* which of currentStatus and messageExpiry are set

displayVars == <<buffer, active, mode, contents>>
deviceVars == <<hardware, hwStop, hwDone, held, loop, displayVars>>

Services == {"display", "gpio"}
Loops == {"displayUpdate", "render", "gpioUpdate", "hardwareUpdate"}
Modes == {"idle", "status", "message"}
\* The mutex a loop takes on its tick.
MutexOf == [displayUpdate |-> "display", gpioUpdate |-> "gpio"]

DeviceTypeOK ==
  /\ hardware \in {"created", "display", "gpio", "stats", "running", "failed"}
  /\ hwStop \in {"new", "stats", "gpio", "gpioWait", "display", "displayWait", "wait", "returned"}
  /\ hwDone \in BOOLEAN /\ active \in BOOLEAN
  /\ held \subseteq Services
  /\ loop \in [Loops -> {"none", "select", "lock", "led", "checked", "drawing", "panicked", "ended"}]
  /\ buffer \in {"none", "there", "taken"}
  /\ mode \in Modes /\ contents \subseteq Modes \ {"idle"}

DevicesInit ==
  /\ hardware = "created" /\ hwStop = "new" /\ hwDone = FALSE
  /\ held = {} /\ loop = [l \in Loops |-> "none"]
  /\ buffer = "none" /\ active = FALSE /\ mode = "idle" /\ contents = {}

Alive == loop["render"] # "panicked"

-----------------------------------------------------------------------------
(* Start: the services one after the other; one that fails leaves those before *)
(* it running.                                                                 *)

Starts(from, to, ls) ==
  /\ Alive /\ hardware = from /\ hardware' = to
  /\ loop' = [l \in Loops |-> IF l \in ls THEN "select" ELSE loop[l]]
  /\ UNCHANGED <<hwStop, hwDone, held, mode, contents>>

\* Without a supported platform there is no buffer, and nothing is ever active.
StartDisplay ==
  /\ Starts("created", "display", {"displayUpdate", "render"})
  /\ \/ buffer' = "there" /\ active' = TRUE
     \/ UNCHANGED <<buffer, active>>
\* No framebuffer, or a pin out of range.
DeviceStartFails ==
  /\ Starts(hardware, "failed", {}) /\ hardware \in {"created", "display"}
  /\ UNCHANGED <<buffer, active>>
StartGpio   == Starts("display", "gpio", {"gpioUpdate"}) /\ UNCHANGED <<buffer, active>>
StartStats  == Starts("gpio", "stats", {}) /\ UNCHANGED <<buffer, active>>
StartUpdate == Starts("stats", "running", {"hardwareUpdate"}) /\ UNCHANGED <<buffer, active>>

\* The context that Start was given ends.
CancelHardware ==
  /\ Alive /\ ~hwDone /\ hwDone' = TRUE
  /\ UNCHANGED <<hardware, hwStop, held, loop, displayVars>>

-----------------------------------------------------------------------------
(* The display *)

\* UpdateStatus and ShowMessage.
Show(what) ==
  /\ "display" \notin held
  /\ mode' = what /\ contents' = contents \cup {what}
  /\ UNCHANGED <<buffer, active>>

\* From main, two seconds after the start.
ShowMessage ==
  /\ Alive /\ hardware = "running" /\ Show("message")
  /\ UNCHANGED <<hardware, hwStop, hwDone, held, loop>>

DeviceGoes(l, from, to) ==
  /\ Alive /\ loop[l] = from /\ loop' = [loop EXCEPT ![l] = to]
  /\ UNCHANGED <<hardware, hwStop, hwDone, held>>

\* The status comes back if there is one.
MessageExpires ==
  /\ "message" \in contents
  /\ contents' = contents \ {"message"}
  /\ mode' = IF "status" \in contents THEN "status" ELSE "idle"

\* updateLoop with the mutex; the message may have expired.
DisplayTick ==
  /\ DeviceGoes("displayUpdate", "lock", "select") /\ "display" \notin held
  /\ MessageExpires \/ UNCHANGED <<mode, contents>>
  /\ UNCHANGED <<buffer, active>>

Render ==
  /\ DeviceGoes("render", "select", IF active /\ buffer = "there" THEN "checked" ELSE "select")
  /\ UNCHANGED displayVars
ReadMode ==
  /\ DeviceGoes("render", "checked", "drawing") /\ "display" \notin held
  /\ UNCHANGED displayVars
Draw ==
  /\ DeviceGoes("render", "drawing", IF buffer = "there" THEN "select" ELSE "panicked")
  /\ UNCHANGED displayVars

-----------------------------------------------------------------------------
(* The other loops *)

DeviceTick(l) ==
  /\ DeviceGoes(l, "select", "lock")
  /\ UNCHANGED displayVars
DeviceTicks == \E l \in Loops \ {"render"} : DeviceTick(l)

GpioTick ==
  /\ DeviceGoes("gpioUpdate", "lock", "select") /\ "gpio" \notin held
  /\ UNCHANGED displayVars
\* UpdateSystemStatus, then SetStatusLED.
UpdateSystemStatus == DeviceGoes("hardwareUpdate", "lock", "led") /\ Show("status")
SetStatusLED ==
  /\ DeviceGoes("hardwareUpdate", "led", "select") /\ "gpio" \notin held
  /\ UNCHANGED displayVars

LoopEnds(l) ==
  /\ DeviceGoes(l, "select", "ended") /\ hwDone
  /\ UNCHANGED displayVars

-----------------------------------------------------------------------------
(* Stop: the stats collector, GPIO, the display, then the update loop *)

HardwareStopGoes(from, to) ==
  /\ Alive /\ hwStop = from /\ hwStop' = to
  /\ UNCHANGED <<hardware, loop, contents>>

StopHardware ==
  /\ HardwareStopGoes("new", "stats") /\ hardware = "running" /\ hwDone' = TRUE
  /\ UNCHANGED <<held, buffer, active, mode>>
\* The loops for which Stop does not wait longer than a timeout: all.
TimedWaits == {"gpioUpdate", "displayUpdate", "hardwareUpdate"}
WaitedFor(l) == loop[l] = "ended" \/ l \in TimedWaits

StatsStopped ==
  /\ HardwareStopGoes("stats", "gpio")
  /\ UNCHANGED <<hwDone, held, buffer, active, mode>>
StopLocks(s, from, to) ==
  /\ HardwareStopGoes(from, to) /\ held' = held \cup {s}
  /\ UNCHANGED <<hwDone, buffer, active, mode>>
GpioStopped ==
  /\ HardwareStopGoes("gpioWait", "display") /\ WaitedFor("gpioUpdate")
  /\ held' = held \ {"gpio"}
  /\ UNCHANGED <<hwDone, buffer, active, mode>>
DisplayStopped ==
  /\ HardwareStopGoes("displayWait", "wait") /\ WaitedFor("displayUpdate")
  /\ held' = held \ {"display"}
  /\ buffer' = IF buffer = "there" THEN "taken" ELSE buffer
  /\ active' = FALSE /\ mode' = "idle"
  /\ UNCHANGED hwDone
UpdateStopped ==
  /\ HardwareStopGoes("wait", "returned") /\ WaitedFor("hardwareUpdate")
  /\ UNCHANGED <<hwDone, held, buffer, active, mode>>

StopSteps ==
  \/ StatsStopped
  \/ StopLocks("gpio", "gpio", "gpioWait") \/ GpioStopped
  \/ StopLocks("display", "display", "displayWait") \/ DisplayStopped
  \/ UpdateStopped

-----------------------------------------------------------------------------

LoopSteps ==
  DisplayTick \/ ReadMode \/ Draw \/ GpioTick \/ UpdateSystemStatus \/ SetStatusLED

DevicesNext ==
  \/ StartDisplay \/ StartGpio \/ StartStats \/ StartUpdate \/ DeviceStartFails
  \/ CancelHardware \/ StopHardware \/ StopSteps
  \/ ShowMessage \/ Render \/ DeviceTicks \/ LoopSteps
  \/ \E l \in Loops : LoopEnds(l)

\* A select with several cases ready takes one at random: the end of the context
\* is not passed over for ever, though ticks go on.
DevicesFairness ==
  /\ WF_deviceVars(StopSteps)
  /\ WF_deviceVars(DisplayTick) /\ WF_deviceVars(GpioTick)
  /\ WF_deviceVars(UpdateSystemStatus) /\ WF_deviceVars(SetStatusLED)
  /\ WF_deviceVars(ReadMode) /\ WF_deviceVars(Draw)
  /\ \A l \in Loops : SF_deviceVars(LoopEnds(l))

DevicesSpec == DevicesInit /\ [][DevicesNext]_deviceVars /\ DevicesFairness

-----------------------------------------------------------------------------
(* Properties *)

\* The mode always names something that has been shown and has not expired, and
\* the render loop meets a missing buffer only after Stop has taken it away
\* between the loop's check and its drawing.
DisplayShowsWhatItHas ==
  /\ mode # "idle" => mode \in contents
  /\ active => buffer = "there"
  /\ loop["render"] = "panicked" => buffer = "taken"

\* Stop returns although the loops it waits for wait for the mutex it holds,
\* and once the context is done every loop ends, also those that a failed Start
\* has left behind.
DevicesEnd ==
  /\ hwStop = "stats" ~> hwStop = "returned" \/ ~Alive
  /\ hwDone ~> ~Alive \/ \A l \in Loops : loop[l] \in {"none", "ended"}
=============================================================================
