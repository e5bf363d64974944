------------------------------ MODULE MCDaemon ------------------------------
(* Parts of the daemon that work each on its own: the three ways pointing   *)
(* motion gets into the event queues, and the receiver of the requests of   *)
(* its clients.  component says which one the behaviour is about.           *)
EXTENDS Integers, Sequences

CONSTANTS
    Full, LogicalMin, LogicalMax, RawValues, Unit, PadMotion, StickParameters,
    ReportDevices, HidReports, ReportMotion,
    ScrollOptions, Motions, MotionDevices, MaxMotions, MaxScrollTime,
    None, Running, ByAgent, ByServer, MaxEvents

\* A usage belongs to one page, and the scroll options are what the setters of
\* options.hpp let through.
ASSUME DaemonAssumption ==
    /\ \A p \in StickParameters :
            p.xy.continued_threshold \in Nat /\ p.wheels.continued_threshold \in Nat
    /\ ReportMotion \in Nat \ {0}
    /\ \A d \in ReportDevices : \A m \in {d.xy_multiplier, d.wheels_multiplier} :
            m.num \in Int /\ m.den \in Nat \ {0}
    /\ \A r \in HidReports :
            /\ r \in Seq([page : STRING, usage : STRING, value : Int])
            /\ \A i \in DOMAIN r : r[i].page \in {"keyboard", "button"} =>
                    r[i].usage \notin {"x", "y", "wheel", "ac_pan", "caps_lock_led", "hat_switch",
                                      "up", "down", "left", "right"}
    /\ \A o \in ScrollOptions :
            /\ o.threshold \in Nat \ {0} /\ o.recent \in Nat /\ o.momentum \in BOOLEAN
            /\ o.multiplier.num \in Nat /\ o.multiplier.den \in Nat \ {0}
    /\ Motions \subseteq Int \X Int

\* What TLC is given: sticks of two configurations,
MCStick(dz, dt, ct, i) ==
    [deadzone |-> dz, detection_threshold |-> dt, continued_threshold |-> ct, interval |-> i]
MCStickParameters ==
    {[xy |-> MCStick(1, 2, 4, 20), wheels |-> MCStick(1, 2, 4, 10), swap_sticks |-> FALSE],
     [xy |-> MCStick(0, 1, 3, 20), wheels |-> MCStick(1, 2, 4, 0), swap_sticks |-> TRUE]}
MCRawValues == [x |-> {0, 4, 5}, y |-> {4, 8}, z |-> {4, 6}, rz |-> {4}]

\* reports with up to three values of a game pad and two mice,
MCReportDevice(game_pad, filter) ==
    [game_pad |-> game_pad, filter_useless_events |-> filter, is_apple |-> FALSE,
     ignore_vendor_events |-> filter, xy_multiplier |-> [num |-> 1, den |-> 3],
     wheels_multiplier |-> [num |-> 3, den |-> 1]]
MCReportDevices == {MCReportDevice(TRUE, FALSE), MCReportDevice(FALSE, FALSE), MCReportDevice(FALSE, TRUE)}
V(page, usage, value) == [page |-> page, usage |-> usage, value |-> value]
MCValues == {V("generic_desktop", "x", 1), V("generic_desktop", "x", -2), V("generic_desktop", "y", 4),
    V("generic_desktop", "wheel", 2), V("button", "button1", 1), V("button", "button1", 0),
    V("generic_desktop", "hat_switch", 8), V("generic_desktop", "hat_switch", 0),
    V("generic_desktop", "hat_switch", 3), V("generic_desktop", "hat_switch", 5),
    V("vendor", "v", 1), V("leds", "caps_lock_led", 1)}
MCPairs == MCValues \ {V("generic_desktop", "hat_switch", 5), V("vendor", "v", 1), V("leds", "caps_lock_led", 1)}
MCReports == {<<v>> : v \in MCValues} \cup {<<v, w>> : v, w \in MCPairs}
                \cup {<<V("generic_desktop", "x", 1), v, V("generic_desktop", "x", -2)>> : v \in MCValues}

\* scrolling with and without momentum,
MCScrollOption(momentum) ==
    [momentum |-> momentum, threshold |-> 4, recent |-> 1, lock |-> 2, event_interval |-> 2,
     multiplier |-> [num |-> 3, den |-> 2],
     basic |-> [devices |-> {2}, swap |-> TRUE, flip |-> {1}, discard |-> {}]]
MCScrollOptions == {MCScrollOption(b) : b \in BOOLEAN}
MCMotions == {<<3, 1>>, <<-2, 0>>, <<0, 4>>}

\* and three sets of clients.
MCRunning == {{"console_user_server", "agent"}, {"console_user_server", "window"},
              {"console_user_server", "multitouch"}}

VARIABLES component,
    parameters, sticks, mode, timer, remainders, motion,
    device, direction, pressed, report, entries,
    options, clock, motions, tasks, scroll_timer, counter, moved,
    granted, system, session, link, requests, gone, daemon, events

pad == INSTANCE GamePadStick WITH MaxMotion <- PadMotion

reports == INSTANCE HidReport WITH Reports <- HidReports, MaxMotion <- ReportMotion

scroll == INSTANCE MouseMotionToScroll WITH timer <- scroll_timer

receiver == INSTANCE Receiver

pad_vars == <<parameters, sticks, mode, timer, remainders, motion>>
report_vars == <<device, direction, pressed, report, entries>>
scroll_vars == <<options, clock, motions, tasks, scroll_timer, counter, moved>>
receiver_vars == <<granted, system, session, link, requests, gone, daemon, events>>
vars == <<component, pad_vars, report_vars, scroll_vars, receiver_vars>>

Init == /\ component \in {"game_pad", "hid_report", "scroll", "receiver"}
        /\ pad!Init /\ reports!Init /\ scroll!Init /\ receiver!Init
        /\ component # "game_pad" => parameters = CHOOSE p \in StickParameters : TRUE
        /\ component # "hid_report" => device = CHOOSE d \in ReportDevices : TRUE
        /\ component # "scroll" => options = CHOOSE o \in ScrollOptions : TRUE
        /\ component # "receiver" => ~granted /\ "agent" \notin gone

Next ==
    \/ /\ component = "game_pad" /\ pad!Next
       /\ UNCHANGED <<component, report_vars, scroll_vars, receiver_vars>>
    \/ /\ component = "hid_report" /\ reports!Next
       /\ UNCHANGED <<component, pad_vars, scroll_vars, receiver_vars>>
    \/ /\ component = "scroll" /\ scroll!Next
       /\ UNCHANGED <<component, pad_vars, report_vars, receiver_vars>>
    \/ /\ component = "receiver" /\ receiver!Next
       /\ UNCHANGED <<component, pad_vars, report_vars, scroll_vars>>

\* The receiver does its work; nothing is asked of the others.
ReceiverWorks ==
    /\ component = "receiver" /\ receiver!Work
    /\ UNCHANGED <<component, pad_vars, report_vars, scroll_vars>>

Spec == Init /\ [][Next]_vars /\ WF_vars(ReceiverWorks)

\* The timer of the sticks stops when both are back in the middle
\* (game_pad_stick_converter::update_continued_movement_timer).
NeutralSticksAreQuiet == pad!NeutralSticksAreQuiet

\* Every motion value of a report arrives in some motion (make_entries).
EveryMotionValueCounts == reports!EveryMotionValueCounts

\* The dpad keys that are down are those of the hat switch (to_dpad_events).
DpadFollowsHatSwitch == reports!DpadFollowsHatSwitch

\* Scrolling keeps one direction until it is given up (counter::process_entries).
ScrollsInOneDirection == scroll!ScrollsInOneDirection

\* Motion that was swallowed has a timer that will scroll it (counter::update).
EntriesHaveTimer == scroll!EntriesHaveTimer

\* Observers end up with what the device_grabber shows (receiver::stop_device_grabber).
ObserversCatchUp == <>[](component = "receiver" => receiver!ViewsAreCurrent)

\* The device_grabber ends up with the environment of the session
\* (receiver::start_device_grabber).
EnvironmentCatchesUp == <>[](component = "receiver" => receiver!EnvironmentIsCurrent)

\* A client that has gone leaves nothing behind (receiver::handle_peer_closed).
ClosedClientsLeaveNothing == <>[](component = "receiver" => receiver!NothingIsLeft)
=============================================================================
