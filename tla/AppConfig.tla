----------------------------- MODULE AppConfig ------------------------------
(***************************************************************************)
(* The configuration file, its two formats, and the parts of the window    *)
(* made from it: the form and the dropdown, the controller, the address    *)
(* the video comes from.  The window's functions call one another:         *)
(* saving applies, applying makes a controller, and making one from a file *)
(* in the old format saves.                                                *)
(*                                                                         *)
(* The settings of a camera, which a form, a file or an URI hold, are its  *)
(* address; port and path go with it, and a form that lacks one of them    *)
(* has no settings.  A file has the keys that its writers write.  The key  *)
(* videoSource in a file of the old format is left out, as only            *)
(* getCurrentVideoSource() heeds it, and so is the port of a servo.        *)
(***************************************************************************)
EXTENDS Naturals

CONSTANTS
  Hosts    \* the addresses a user or a former version has set

Cameras == {"siyi", "ai", "servo"}
Sources == {"siyi", "ai"}
None == "none"

\* Each part of the program has a default of its own.
ControlDefault == "10.14.11.3"
VideoDefault == "192.168.144.25"
FormDefault ==
  [c \in Cameras |-> CASE c = "siyi"  -> "192.168.1.64"
                       [] c = "ai"    -> "192.168.1.100"
                       [] c = "servo" -> "10.14.11.1"]
AllHosts ==
  Hosts \cup {ControlDefault, VideoDefault} \cup {FormDefault[c] : c \in Cameras}

ASSUME HostsAssumption == None \notin Hosts

NoSettings == [c \in Cameras |-> None]
Settings == [Cameras -> AllHosts \cup {None}]

\* The contents of the file.  A file that cannot be parsed, one that was cut
\* off for instance, is Unreadable.
NewFile(source, settings) == [format |-> "new", source |-> source, settings |-> settings]
OldFile(type, host, servo) == [format |-> "old", type |-> type, host |-> host, servo |-> servo]
Missing == [format |-> "missing"]
Unreadable == [format |-> "unreadable"]

NewFiles == {NewFile(s, t) : s \in Sources, t \in Settings}
OldFiles ==
  {OldFile(t, h, s) : t \in Cameras, h \in AllHosts, s \in AllHosts \cup {None}}
Files == NewFiles \cup OldFiles \cup {Missing, Unreadable}

IsNew(f) == f.format = "new"
IsOld(f) == f.format = "old"

\* What a write may come to: it is carried out, the file cannot be opened, or
\* the file is opened, hence emptied, and the write fails.
Disks == {"works", "denied", "full"}

VARIABLES
  app,      \* the file, and what the running program made from it: form,
            \* dropdown, controller, uri; stale: TRUE iff the file was migrated
            \* after the controller's address had been read
  phase,    \* off, starting (the constructor is through), running
  faulty    \* history: TRUE iff a write failed since the start

vars == <<app, phase, faulty>>

----------------------------------------------------------------------------
(* The readers.                                                            *)

\* Mutant of UriOf: no default where the settings of the source are missing.
MutantUriWithoutDefault(f) ==
  CASE IsNew(f) -> f.settings[f.source]
    [] IsOld(f) -> f.host
    [] OTHER    -> VideoDefault

UriOf(f) ==
  CASE IsNew(f) /\ f.settings[f.source] # None -> f.settings[f.source]
    [] IsOld(f) -> f.host
    [] OTHER    -> VideoDefault

Controller(kind, host) == [kind |-> kind, host |-> host]

IsServo(f) == IsOld(f) /\ f.type = "servo" /\ f.servo # None

\* Of an old file of an AI camera the address is not read.
ControllerOf(f) ==
  CASE IsNew(f) /\ f.settings[f.source] # None ->
         Controller("siyi", f.settings[f.source])
    [] IsServo(f) -> Controller("servo", f.servo)
    [] IsOld(f) /\ f.type # "ai" /\ ~IsServo(f) -> Controller("siyi", f.host)
    [] OTHER -> Controller("siyi", ControlDefault)

----------------------------------------------------------------------------
(* The functions of the window, on the record app.                         *)

Write(a, content, disk) ==
  CASE disk = "works"  -> [a EXCEPT !.file = content]
    [] disk = "full"   -> [a EXCEPT !.file = Unreadable]
    [] disk = "denied" -> a

Savable(a) == a.form["siyi"] # None \/ a.form["ai"] # None

\* Mutant of Content: only the settings of the chosen source are written.
MutantWritesSelected(a) ==
  NewFile(a.dropdown, [NoSettings EXCEPT ![a.dropdown] = a.form[a.dropdown]])

Content(a) == NewFile(a.dropdown, a.form)

\* getRtspUriFromConfig(), and the receiver opened on what it returns.  A file
\* that is not there is created, in neither format: a new one without settings.
OpenVideo(a, disk) ==
  LET created == IF a.file = Missing
                 THEN Write(a, NewFile("siyi", NoSettings), disk) ELSE a
  IN [created EXCEPT !.uri = UriOf(a.file)]

\* Mutant of SaveInApply: the flag that guards applyConfig() guards saving too.
MutantSavesNothing(a, disk) == a

\* saveConfig() within applyConfig(), whose flag applying stops it short.
SaveInApply(a, disk) == IF Savable(a) THEN Write(a, Content(a), disk) ELSE a

\* createCameraControllerFromConfig(), given what saving an old file led to.
MakeController(a, saved) ==
  [saved EXCEPT !.controller = ControllerOf(a.file), !.stale = saved.file # a.file]

ApplyConfig(a, disk) ==
  OpenVideo(MakeController(a, IF IsOld(a.file) THEN SaveInApply(a, disk) ELSE a), disk)

SaveConfig(a, disk) ==
  IF Savable(a) /\ disk # "denied"
  THEN ApplyConfig(Write(a, Content(a), disk), disk) ELSE a

CreateCameraControllerFromConfig(a, disk) ==
  MakeController(a, IF IsOld(a.file) THEN SaveConfig(a, disk) ELSE a)

\* Mutant of LoadForm: the dropdown is left at its first entry.
MutantForgetsDropdown(a) ==
  CASE a.file = Missing -> [a EXCEPT !.form = FormDefault]
    [] IsNew(a.file)    -> [a EXCEPT !.form = a.file.settings]
    [] IsOld(a.file)    -> [a EXCEPT !.form[a.file.type] = a.file.host]
    [] OTHER            -> a

\* populateConfigFields() up to the migration, on a form that is empty.
LoadForm(a) ==
  CASE a.file = Missing -> [a EXCEPT !.form = FormDefault]
    [] IsNew(a.file) ->
         [a EXCEPT !.form = a.file.settings, !.dropdown = a.file.source]
    [] IsOld(a.file) /\ a.file.type = "servo" ->
         [a EXCEPT !.form["servo"] = a.file.servo]
    [] IsOld(a.file) /\ a.file.type # "servo" ->
         [a EXCEPT !.form[a.file.type] = a.file.host, !.dropdown = a.file.type]
    [] OTHER -> a

PopulateConfigFields(a, disk) ==
  IF IsOld(a.file) THEN SaveConfig(LoadForm(a), disk) ELSE LoadForm(a)

UpdateVideoSourceInConfig(a, disk) ==
  CASE a.file = Missing    -> a
    [] a.file = Unreadable -> Write(a, NewFile(a.dropdown, NoSettings), disk)
    [] IsOld(a.file)       -> Write(a, a.file, disk)
    [] IsNew(a.file)       -> Write(a, [a.file EXCEPT !.source = a.dropdown], disk)

\* saveDefaultConfig(), which writes a file of the old format.
SaveDefaultConfig(a, disk) ==
  ApplyConfig(Write(a, OldFile("siyi", a.form["siyi"], None), disk), disk)

----------------------------------------------------------------------------
(* The program.                                                            *)

\* What a program that is not running has: nothing but the file.
Off(f) ==
  [file |-> f, form |-> NoSettings, dropdown |-> "siyi",
   controller |-> Controller("siyi", ControlDefault), uri |-> VideoDefault,
   stale |-> FALSE]

FormerFiles ==
  {Missing, Unreadable}
    \cup {NewFile(s, t) : s \in Sources, t \in [Cameras -> Hosts \cup {None}]}
    \cup {OldFile(t, h, s) : t \in Cameras, h \in Hosts, s \in Hosts}

Init ==
  /\ app \in {Off(f) : f \in FormerFiles}
  /\ phase = "off"
  /\ faulty = FALSE

Running == phase # "off"

\* A handler of the GUI thread that ends with this.
Handler(after, disk) ==
  /\ Running
  /\ app' = after
  /\ faulty' = (faulty \/ disk # "works")
  /\ UNCHANGED phase

\* The constructor.
Start(disk) ==
  /\ phase = "off"
  /\ app' = CreateCameraControllerFromConfig(
              OpenVideo(PopulateConfigFields(app, disk), disk), disk)
  /\ phase' = "starting"
  /\ faulty' = (disk # "works")

\* A constructor that migrates applies the configuration before commandTimer is
\* set: what the uninitialized pointer holds may end the program there.
StartCrashes(disk) ==
  /\ phase = "off"
  /\ IsOld(app.file)
  /\ Savable(LoadForm(app)) /\ disk # "denied"
  /\ app' = Off(SaveInApply(LoadForm(app), disk).file)
  /\ UNCHANGED <<phase, faulty>>

\* The timer of 100 ms.
InitializeCameraController(disk) ==
  /\ phase = "starting"
  /\ app' = CreateCameraControllerFromConfig(app, disk)
  /\ phase' = "running"
  /\ faulty' = (faulty \/ disk # "works")

\* Typing, and the buttons that fill in defaults without saving.
EditForm(c, host) ==
  /\ Running
  /\ app' = [app EXCEPT !.form[c] = host]
  /\ UNCHANGED <<phase, faulty>>

OnSave(disk) == Handler(SaveConfig(app, disk), disk)

OnSiyiDefaultClicked(disk) ==
  Handler(SaveDefaultConfig([app EXCEPT !.form["siyi"] = VideoDefault], disk), disk)

OnVideoSourceChanged(source, disk) ==
  /\ source # app.dropdown
  /\ Handler(ApplyConfig(UpdateVideoSourceInConfig(
               [app EXCEPT !.dropdown = source], disk), disk), disk)

\* The program ends, or is killed in the middle of a write.
Quit ==
  /\ Running
  /\ \E f \in {app.file, Unreadable} : app' = Off(f)
  /\ phase' = "off"
  /\ faulty' = FALSE

Next ==
  \/ \E disk \in Disks :
       \/ Start(disk) \/ StartCrashes(disk) \/ InitializeCameraController(disk)
       \/ OnSave(disk) \/ OnSiyiDefaultClicked(disk)
       \/ \E source \in Sources : OnVideoSourceChanged(source, disk)
  \/ \E c \in Cameras :
       \E host \in Hosts \cup {FormDefault[c], None} : EditForm(c, host)
  \/ Quit

Spec == Init /\ [][Next]_vars

----------------------------------------------------------------------------
(* Properties.                                                             *)

Controllers == {Controller(k, h) : k \in {"siyi", "servo"}, h \in AllHosts}

Apps ==
  [file : Files, form : Settings, dropdown : Sources,
   controller : Controllers, uri : AllHosts, stale : BOOLEAN]

\* File and window keep their types: whatever is missing from the file or from
\* the form, the controller and the video get an address.
TypeOK ==
  /\ app \in Apps
  /\ phase \in {"off", "starting", "running"}
  /\ faulty \in BOOLEAN

VideoMatchesFile == Running => app.uri = UriOf(app.file)

DropdownMatchesFile ==
  Running /\ ~faulty /\ IsNew(app.file) => app.dropdown = app.file.source

ControllerMatchesVideo ==
  /\ Running /\ ~app.stale /\ IsNew(app.file)
  /\ app.file.settings[app.file.source] # None
  => app.controller = Controller("siyi", app.uri)

\* Between handlers the window shows what the next start would: the video of
\* the file, even after writes that failed; the dropdown of the file, unless a
\* write failed; and the controller commands the camera that is seen, unless the
\* file was migrated while a controller was being made from it.
WindowMatchesFile ==
  /\ VideoMatchesFile
  /\ DropdownMatchesFile
  /\ ControllerMatchesVideo

KeepsShown ==
  Running /\ Running' /\ ~faulty' /\ IsNew(app.file) =>
    /\ IsNew(app.file')
    /\ \A c \in Cameras :
         LET kept == app.file.settings[c]
         IN kept # None /\ app'.form[c] = kept => app'.file.settings[c] = kept

RestartsFromFile ==
  ~Running /\ Running' /\ IsNew(app.file) =>
    /\ app'.file = app.file
    /\ app'.form = app.file.settings
    /\ app'.dropdown = app.file.source

\* No sequence of saves, defaults, changes of source and migrations loses the
\* settings of a camera that the form still shows, if the disk works; the
\* default button does go through a file without them.  And a start brings back
\* all that was saved: it fills form and dropdown from a file of the new format
\* and, for all the functions it calls that save, writes nothing, so that not
\* even a disk that fails can take the file away.
SettingsSurvive == [][KeepsShown /\ RestartsFromFile]_vars

\* A start leaves no file in the old format behind, nor does anything later, if
\* the disk works; except a servo's, which cannot be saved without the settings
\* of a camera.
OldFilesAreMigrated ==
  Running /\ ~faulty /\ IsOld(app.file) => app.file.type = "servo"
=============================================================================
