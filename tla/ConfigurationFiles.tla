-------------------------- MODULE ConfigurationFiles --------------------------
(***************************************************************************)
(* karabiner.json and everybody who reads or writes it.  Each process has  *)
(* a configuration_monitor: a file_monitor tells it that one of two files  *)
(* changed (the user's, and the system's that stands in for it), and it    *)
(* loads the file again.  The daemon only reads; the menu, the Settings    *)
(* window and the command line change the configuration they loaded last   *)
(* and save all of it.  An editor rewrites the same file, sometimes by     *)
(* removing and recreating it, sometimes with an error in it on the way.   *)
(* A configuration is named by the file it was loaded from, and the        *)
(* default one by the missing file.                                        *)
(***************************************************************************)
EXTENDS Naturals, Sequences, SequencesExt

CONSTANTS
    Residents,      \* sets of processes, of those below, that may run from the start
    Races,          \* a file may change between the report of a change and the load it
                    \* leads to, and both files within the latency of the events
    Starts,         \* processes that may start later, of "settings" and "cli"
    MaxVersion,     \* bound on the different contents of the files
    MaxChanges,     \* bound on changes made by editors and administrators
    MaxSaves        \* bound on edits, profile selections and starts of processes

VARIABLES
    user_file, system_file,
    last_valid,     \* what the editor restores
    replacing,      \* an editor has removed the file and is about to recreate it
    monitor,        \* configuration_monitor and its file_monitor of each process
    client,         \* the configuration the rest of the process uses
    settings,       \* Settings.swift and settings_components_manager
    version, changes, saves

configuration_vars == <<user_file, system_file, last_valid, replacing, monitor, client, settings,
    version, changes, saves>>

Processes == {"core_service", "console_user_server", "settings", "cli"}
Paths == {"user", "system"}

Valid(v) == [kind |-> "valid", version |-> v]
Bad(kind) == [kind |-> kind, version |-> 0]
Missing == Bad("missing")
Nothing == Bad("nothing")

Exists(file) == file.kind # "missing"
Body(file) == IF file.kind = "unreadable" THEN Missing ELSE file

\* What a file says; one that is missing stands for the default configuration,
\* which may also have been saved.
Content(file) == IF file = Missing THEN Valid(MaxVersion + 1) ELSE file

LoadState(file) == IF file.kind \in {"valid", "missing"} THEN "loaded" ELSE file.kind

File(path) == IF path = "user" THEN user_file ELSE system_file

NoMonitor == [running |-> FALSE, events |-> <<>>, bodies |-> [path \in Paths |-> Missing],
              tasks |-> <<>>, removal |-> "none", load_state |-> "none", current |-> Nothing]

\* What waits in the dispatcher of a process, in order.
FileChanged(path, body) == [name |-> "file_changed", path |-> path, file |-> body]
LoadStateChanged(state) == [name |-> "load_state_changed", path |-> state, file |-> Nothing]
Updated(configuration) == [name |-> "core_configuration_updated", path |-> "none", file |-> configuration]

\* async_start registers the stream and reports both files as they are.
Started == [NoMonitor EXCEPT !.running = TRUE,
                !.bodies = [path \in Paths |-> Body(File(path))],
                !.tasks = <<FileChanged("user", Body(user_file)), FileChanged("system", Body(system_file))>>]

NewSettings == [loaded |-> FALSE, messages |-> <<>>, pending |-> FALSE, requested |-> FALSE]

TypeOK ==
    /\ replacing \in BOOLEAN
    /\ \A p \in Processes : /\ monitor[p].removal \in Paths \cup {"none"}
                            /\ monitor[p].load_state \in {"none", "loaded", "broken", "unreadable"}
                            /\ client[p].kind \in {"nothing", "missing", "valid"}
    /\ version \in 0..MaxVersion /\ changes \in 0..MaxChanges /\ saves \in 0..MaxSaves

Init ==
    /\ user_file \in {Valid(1), Missing} /\ system_file \in {Valid(0), Missing}
    /\ last_valid = Valid(1) /\ replacing = FALSE
    /\ \E residents \in Residents :
          monitor = [p \in Processes |-> IF p \in residents THEN Started ELSE NoMonitor]
    /\ client = [p \in Processes |-> Nothing]
    /\ settings = NewSettings
    /\ version = 1 /\ changes = 0 /\ saves = 0

-----------------------------------------------------------------------------
(* File system events                                                       *)

\* FSEvents tells every stream, and marks the events a process caused itself.
\* Equal events in a row are one: the body is read when they are handled.
Notified(p, m, path, writer) ==
    LET event == [path |-> path, own |-> p = writer]
    IN  IF m.running /\ (m.events = <<>> \/ Last(m.events) # event)
        THEN [m EXCEPT !.events = Append(@, event)] ELSE m

Notify(monitors, path, writer) == [p \in Processes |-> Notified(p, monitors[p], path, writer)]

\* The body is compared with the one known before also when the process wrote
\* it itself, but then nobody is told.
StreamCallback(p) ==
    /\ monitor[p].events # <<>>
    /\ LET event == Head(monitor[p].events)
           body == Body(File(event.path))
           updated == body # monitor[p].bodies[event.path]
       IN  monitor' = [monitor EXCEPT ![p].events = Tail(@), ![p].bodies[event.path] = body,
                           ![p].tasks = IF updated /\ ~event.own
                                        THEN Append(@, FileChanged(event.path, body)) ELSE @]
    /\ UNCHANGED <<user_file, system_file, last_valid, replacing, client, settings, version, changes, saves>>

-----------------------------------------------------------------------------
(* configuration_monitor                                                    *)

FileToLoad == IF Exists(user_file) THEN user_file ELSE system_file

\* Mutant: the configuration is announced when it differs from the last one.
loaded_if_different(m, file) ==
    LET load_state == LoadState(file)
        updated == load_state = "loaded" /\ Content(m.current) # Content(file)
    IN  [m EXCEPT !.load_state = load_state,
             !.current = IF updated THEN file ELSE @,
             !.tasks = @ \o (IF m.load_state # load_state THEN <<LoadStateChanged(load_state)>> ELSE <<>>)
                         \o (IF updated THEN <<Updated(file)>> ELSE <<>>)]

\* An unusable file changes the load state only; the same configuration is
\* announced again when there was an error in between.
Loaded(m, file) ==
    LET load_state == LoadState(file)
        recovered_from_error == m.load_state \notin {"none", "loaded"}
        updated == load_state = "loaded"
                   /\ (recovered_from_error \/ Content(m.current) # Content(file))
    IN  [m EXCEPT !.load_state = load_state,
             !.current = IF updated THEN file ELSE @,
             !.tasks = @ \o (IF m.load_state # load_state THEN <<LoadStateChanged(load_state)>> ELSE <<>>)
                         \o (IF updated THEN <<Updated(file)>> ELSE <<>>)]

\* Mutant: the file that changed is loaded.
handle_changed_file(m, path) == Loaded(m, File(path))

\* The file is read again, so it need not be the one the event was about.
handle_file_changed(m, path) ==
    IF path = "system" /\ Exists(user_file) THEN m ELSE Loaded(m, FileToLoad)

\* Mutant: a removal is handled at once.
file_changed_at_once(m, path, body) == handle_file_changed(m, path)

file_changed(m, path, body) ==
    CASE body # Missing \/ m.load_state = "none" -> handle_file_changed([m EXCEPT !.removal = "none"], path)
      [] body = Missing /\ m.load_state # "none" /\ path = "system" /\ Exists(user_file) -> m
      [] OTHER -> [m EXCEPT !.removal = path]

Task(p, name) == monitor[p].tasks # <<>> /\ Head(monitor[p].tasks).name = name
Rest(p) == [monitor[p] EXCEPT !.tasks = Tail(@)]

ChangedFile(p) ==
    /\ Task(p, "file_changed")
    /\ LET task == Head(monitor[p].tasks)
       IN  monitor' = [monitor EXCEPT ![p] = file_changed(Rest(p), task.path, task.file)]
    /\ UNCHANGED <<user_file, system_file, last_valid, replacing, client, settings, version, changes, saves>>

\* An editor recreates the file in less than file_removal_delay.
FileRemovalTask(p) ==
    /\ monitor[p].removal # "none" /\ ~replacing
    /\ monitor' = [monitor EXCEPT ![p] = handle_file_changed([@ EXCEPT !.removal = "none"],
                                                             monitor[p].removal)]
    /\ UNCHANGED <<user_file, system_file, last_valid, replacing, client, settings, version, changes, saves>>

-----------------------------------------------------------------------------
(* Saving                                                                   *)

Fresh == Valid(version + 1)

\* The object clients change is the one of their monitor, unless that has
\* loaded another one they have not been told about.
IsCurrent(m) == \A i \in 1..Len(m.tasks) : m.tasks[i].name # "core_configuration_updated"
Edited(m, configuration) == IF IsCurrent(m) THEN [m EXCEPT !.current = configuration] ELSE m

\* file_monitor has read a body when it reports a change, and the monitor reads
\* the file again when it hears of it.
FilesMayChange(writer) ==
    Races \/ \A p \in Processes \ {writer} : \A i \in 1..Len(monitor[p].tasks) : monitor[p].tasks[i].name # "file_changed"

\* json_writer renames a complete file over the old one.
Save(monitors, writer, configuration) ==
    /\ FilesMayChange(writer)
    /\ user_file' = Content(configuration) /\ last_valid' = user_file'
    /\ monitor' = Notify(monitors, "user", writer)

UserChoice ==
    /\ saves < MaxSaves /\ version < MaxVersion
    /\ saves' = saves + 1 /\ version' = version + 1

-----------------------------------------------------------------------------
(* What the processes do with a configuration                               *)

Told(p, configuration) == [client EXCEPT ![p] = configuration]
SettingsHear(p, loaded) ==
    settings' = IF p = "settings" THEN [settings EXCEPT !.messages = Append(@, loaded)] ELSE settings

ConfigurationUpdated(p) ==
    /\ p # "cli" /\ Task(p, "core_configuration_updated")
    /\ monitor' = [monitor EXCEPT ![p] = Rest(p)]
    /\ client' = Told(p, Head(monitor[p].tasks).file)
    /\ SettingsHear(p, TRUE)
    /\ UNCHANGED <<user_file, system_file, last_valid, replacing, version, changes, saves>>

\* Only the console_user_server drops the configuration it has.
LoadStateIsNew(p) ==
    /\ Task(p, "load_state_changed")
    /\ monitor' = [monitor EXCEPT ![p] = Rest(p)]
    /\ IF Head(monitor[p].tasks).path = "loaded"
       THEN UNCHANGED <<client, settings>>
       ELSE /\ client' = IF p = "console_user_server" THEN Told(p, Nothing) ELSE client
            /\ SettingsHear(p, FALSE)
    /\ UNCHANGED <<user_file, system_file, last_valid, replacing, version, changes, saves>>

\* The main queue of the Settings window.
MainActor ==
    /\ settings.messages # <<>>
    /\ settings' = [settings EXCEPT !.messages = Tail(@), !.loaded = Head(settings.messages)]
    /\ UNCHANGED <<user_file, system_file, last_valid, replacing, monitor, client, version, changes, saves>>

\* The profile menu of the console_user_server.
SelectProfile ==
    /\ UserChoice
    /\ client["console_user_server"] # Nothing
    /\ client' = [client EXCEPT !["console_user_server"] = Fresh]
    /\ Save([monitor EXCEPT !["console_user_server"] = Edited(@, Fresh)], "console_user_server", Fresh)
    /\ UNCHANGED <<system_file, replacing, settings, changes>>

\* settings_configuration_monitor keeps a weak pointer to the object.
CurrentOfSettings == client["settings"] # Nothing /\ IsCurrent(monitor["settings"])

\* The edit is made in memory and saved 200 ms after the last one.  Without a
\* configuration it is made in one that nobody will save.
EditSettings ==
    /\ UserChoice
    /\ settings.loaded
    /\ settings' = [settings EXCEPT !.pending = TRUE, !.requested = TRUE]
    /\ IF CurrentOfSettings
       THEN /\ client' = [client EXCEPT !["settings"] = Fresh]
            /\ monitor' = [monitor EXCEPT !["settings"] = Edited(@, Fresh)]
       ELSE UNCHANGED <<client, monitor>>
    /\ UNCHANGED <<user_file, system_file, last_valid, replacing, changes>>

DebouncedSave ==
    /\ settings.requested
    /\ IF settings.loaded /\ CurrentOfSettings
       THEN /\ settings' = [settings EXCEPT !.requested = FALSE, !.pending = FALSE]
            /\ Save(monitor, "settings", client["settings"])
       ELSE /\ settings' = [settings EXCEPT !.requested = FALSE]
            /\ UNCHANGED <<user_file, last_valid, monitor>>
    /\ UNCHANGED <<system_file, replacing, client, version, changes, saves>>

\* Quit, or the system goes to sleep: an edit that was not saved is flushed,
\* whatever has become of the file.
StopSettings ==
    /\ monitor["settings"].running
    /\ IF settings.pending /\ CurrentOfSettings
       THEN Save([monitor EXCEPT !["settings"] = NoMonitor], "settings", client["settings"])
       ELSE /\ monitor' = [monitor EXCEPT !["settings"] = NoMonitor]
            /\ UNCHANGED <<user_file, last_valid>>
    /\ client' = [client EXCEPT !["settings"] = Nothing]
    /\ settings' = NewSettings
    /\ UNCHANGED <<system_file, replacing, version, changes, saves>>

\* The command line waits for a configuration, however long that takes.
StartProcess(p) ==
    /\ ~monitor[p].running /\ p \in Starts
    /\ saves < MaxSaves /\ saves' = saves + 1
    /\ monitor' = [monitor EXCEPT ![p] = Started]
    /\ UNCHANGED <<user_file, system_file, last_valid, replacing, client, settings, version, changes>>

\* apply_core_configuration_function: select the profile, save and exit.
CommandLine ==
    /\ Task("cli", "core_configuration_updated")
    /\ version < MaxVersion /\ version' = version + 1
    /\ Save([monitor EXCEPT !["cli"] = NoMonitor], "cli", Fresh)
    /\ UNCHANGED <<system_file, replacing, client, settings, changes, saves>>

-----------------------------------------------------------------------------
(* Editors and administrators                                               *)

Change == changes < MaxChanges /\ changes' = changes + 1

SystemEvent(m) == \E i \in 1..Len(m.events) : m.events[i].path = "system"

Write(file) ==
    /\ FilesMayChange("editor")
    /\ Races \/ Exists(file) \/ \A p \in Processes : ~SystemEvent(monitor[p])
    /\ user_file' = file
    /\ IF file = Fresh THEN version < MaxVersion /\ version' = version + 1 ELSE UNCHANGED version
    /\ last_valid' = IF file.kind = "valid" THEN file ELSE last_valid
    /\ monitor' = Notify(monitor, "user", "editor")

EditorWrites(file) ==
    /\ Change /\ ~replacing /\ user_file # file
    /\ Write(file)
    /\ UNCHANGED <<system_file, replacing, client, settings, saves>>

\* No monitor is still waiting because of an earlier removal.
EditorReplaces ==
    /\ Change /\ ~replacing /\ Exists(user_file)
    /\ \A p \in Processes : monitor[p].removal = "none"
    /\ Write(Missing)
    /\ replacing' = TRUE
    /\ UNCHANGED <<system_file, client, settings, saves>>

EditorRecreates(file) ==
    /\ replacing
    /\ Write(file)
    /\ replacing' = FALSE
    /\ UNCHANGED <<system_file, client, settings, changes, saves>>

Recreates == \E file \in {Fresh, last_valid} : EditorRecreates(file)

SystemFileChanges ==
    /\ Change /\ FilesMayChange("editor")
    /\ Races \/ Exists(user_file) \/ \A p \in Processes : monitor[p].bodies["user"] = Missing
    /\ system_file' \in {Missing, Valid(0)} \ {system_file}
    /\ monitor' = Notify(monitor, "system", "editor")
    /\ UNCHANGED <<user_file, last_valid, replacing, client, settings, version, saves>>

-----------------------------------------------------------------------------
Work(p) ==
    StreamCallback(p) \/ ChangedFile(p) \/ FileRemovalTask(p) \/ ConfigurationUpdated(p) \/ LoadStateIsNew(p)

Next ==
    \/ \E p \in Processes : Work(p) \/ StartProcess(p)
    \/ MainActor \/ SelectProfile \/ EditSettings \/ DebouncedSave \/ StopSettings \/ CommandLine
    \/ \E file \in {Fresh, last_valid, Missing, Bad("broken"), Bad("unreadable")} : EditorWrites(file)
    \/ Recreates
    \/ EditorReplaces \/ SystemFileChanges

\* The events arrive, the dispatchers run, and a replaced file comes back.
Fairness ==
    /\ \A p \in Processes : WF_configuration_vars(Work(p))
    /\ WF_configuration_vars(MainActor) /\ WF_configuration_vars(DebouncedSave)
    /\ WF_configuration_vars(CommandLine)
    /\ WF_configuration_vars(Recreates)

Spec == Init /\ [][Next]_configuration_vars /\ Fairness

-----------------------------------------------------------------------------
\* Those who never write, the daemon and a command line that still waits, end
\* up with the file of the user (configuration_monitor, file_monitor).
ReadersAreCurrent ==
    user_file.kind = "valid" =>
        /\ monitor["core_service"].running => Content(client["core_service"]) = user_file
        /\ monitor["cli"].running => version = MaxVersion

ReadersCatchUp == <>[]ReadersAreCurrent

\* The console_user_server forgets its configuration when the file has an error,
\* and has one again after every recovery, also to the same configuration
\* (handle_file_changed: recovered_from_error).
RecoveredMenuHasConfiguration ==
    LET m == monitor["console_user_server"]
    IN  m.tasks = <<>> /\ m.load_state = "loaded" => client["console_user_server"] # Nothing

\* While an editor replaces the file, nobody who has loaded a configuration
\* falls back to the default one (configuration_monitor: file_removal_delay).
BecomesDefault(p) ==
    /\ client[p].kind = "valid" /\ monitor[p].current # Missing
    /\ monitor'[p].current = Missing

NoTransientDefault == [][replacing => \A p \in Processes : ~BecomesDefault(p)]_configuration_vars
=============================================================================
