------------------------------ MODULE MCCapture ------------------------------
(* The two ways in which device_grabber gets at the keys, each on its own:  *)
(* keyboards that are seized and let go, and the event tap with its         *)
(* monitors, one in use or to be created, others stopping or not yet        *)
(* released by their run loops.                                             *)
EXTENDS DeviceGrabber

CONSTANTS Monitors, None, MaxEvents

VARIABLES component, grabber, monitors, tap_queue, crashed

tap_vars == <<grabber, monitors, tap_queue, crashed>>

tap == INSTANCE EventTapMonitor WITH queue <- tap_queue

ASSUME TapAssumption == tap!EventTapAssumption

CaptureInit == component \in {"devices", "tap"} /\ Init /\ tap!Init

InDevices(action) == component = "devices" /\ action /\ UNCHANGED <<component, tap_vars>>
InTap(action) == component = "tap" /\ action /\ UNCHANGED <<component, vars>>

CaptureNext ==
    \/ InDevices(Next)
    \/ InTap(tap!Next)

all == <<component, vars, tap_vars>>

\* What both specifications ask for.
CaptureFairness ==
    /\ WF_all(InDevices(RunTask)) /\ WF_all(InDevices(RunBlock))
    /\ \A d \in Devices :
          /\ WF_all(InDevices(TimerFires(d))) /\ WF_all(InDevices(DeviceTerminated(d)))
          /\ SF_all(InDevices(Opened /\ Head(run_loop).device = d))
    /\ WF_all(InTap(crashed = "no" /\ tap!RunTask))
    /\ \A m \in Monitors :
          /\ WF_all(InTap(crashed = "no" /\ tap!Cleanup(m)))
          /\ WF_all(InTap(crashed = "no" /\ tap!BlockReleased(m)))

CaptureSpec == CaptureInit /\ [][CaptureNext]_all /\ CaptureFairness

\* Never two event taps of one device_grabber at once (setup_event_tap_monitor).
AtMostOneTapListens == tap!AtMostOneTapListens

\* No event reaches a device_grabber that was destroyed, and no monitor is
\* destroyed before it is cleaned up (async_stop).
StoppedMonitorsAreSafe == tap!StoppedMonitorsAreSafe

\* The configuration set last ends up in a monitor (setup_event_tap_monitor).
ConfigurationIsApplied == tap!ConfigurationIsApplied

\* A monitor that was let go is destroyed (async_stop and its completion).
DroppedMonitorIsDestroyed == tap!DroppedMonitorIsDestroyed
=============================================================================
