-------------------------- MODULE AppConfigProofs ---------------------------
(***************************************************************************)
(* Theorems of AppConfig.  Each function of the window gets a lemma that   *)
(* says what becomes of the fields of app; the steps follow from these.    *)
(* The invariant adds to the properties that a program that is off shows   *)
(* nothing, and that a start with a disk that works finds or makes a file. *)
(***************************************************************************)
EXTENDS AppConfig, TLAPS

\* What the functions that make a controller and open the video establish.
Shown(a) == a.uri = UriOf(a.file)

Commanding(a) ==
  /\ ~a.stale /\ IsNew(a.file)
  /\ a.file.settings[a.file.source] # None
  => a.controller = Controller("siyi", a.uri)

\* What also holds while the disk works.
Agrees(a) ==
  /\ IsNew(a.file) => a.dropdown = a.file.source
  /\ IsOld(a.file) => a.file.type = "servo"
  /\ a.file # Missing

SameInput(r, a) == r.form = a.form /\ r.dropdown = a.dropdown

(***************************************************************************)
(* Files.                                                                  *)
(***************************************************************************)

LEMMA NoneIsNoHost == None \notin AllHosts
<1>1. None \notin {ControlDefault, VideoDefault}
  BY DEF None, ControlDefault, VideoDefault
<1>2. \A c \in Cameras : FormDefault[c] # None
  BY DEF Cameras, FormDefault, None
<1> QED
  BY <1>1, <1>2, HostsAssumption DEF AllHosts

LEMMA DefaultTypes ==
  /\ ControlDefault \in AllHosts
  /\ VideoDefault \in AllHosts
  /\ FormDefault \in Settings
  /\ NoSettings \in Settings
<1>1. ControlDefault \in AllHosts /\ VideoDefault \in AllHosts
  BY DEF AllHosts
<1>2. FormDefault \in [Cameras -> AllHosts \cup {None}]
  <2>1. \A c \in Cameras : FormDefault[c] \in AllHosts
    BY DEF AllHosts
  <2> QED
    BY <2>1 DEF FormDefault
<1> QED
  BY <1>1, <1>2 DEF Settings, NoSettings

LEMMA SourceIsCamera == Sources \subseteq Cameras
BY DEF Sources, Cameras

LEMMA NewFileType ==
  ASSUME NEW s \in Sources, NEW t \in Settings
  PROVE  /\ NewFile(s, t) \in Files
         /\ IsNew(NewFile(s, t)) /\ ~IsOld(NewFile(s, t))
         /\ NewFile(s, t).source = s /\ NewFile(s, t).settings = t
         /\ NewFile(s, t) # Missing /\ NewFile(s, t) # Unreadable
<1>1. NewFile(s, t) \in NewFiles
  BY DEF NewFiles
<1>2. NewFile(s, t).format = "new"
  BY DEF NewFile
<1>3. Missing.format = "missing" /\ Unreadable.format = "unreadable"
  BY DEF Missing, Unreadable
<1> QED
  BY <1>1, <1>2, <1>3 DEF Files, IsNew, IsOld, NewFile

LEMMA OldFileType ==
  ASSUME NEW t \in Cameras, NEW h \in AllHosts, NEW s \in AllHosts \cup {None}
  PROVE  /\ OldFile(t, h, s) \in Files
         /\ IsOld(OldFile(t, h, s)) /\ ~IsNew(OldFile(t, h, s))
<1>1. OldFile(t, h, s) \in OldFiles
  BY DEF OldFiles
<1> QED
  BY <1>1 DEF Files, IsNew, IsOld, OldFile

LEMMA OtherFiles ==
  /\ Missing \in Files /\ ~IsNew(Missing) /\ ~IsOld(Missing)
  /\ Unreadable \in Files /\ ~IsNew(Unreadable) /\ ~IsOld(Unreadable)
  /\ Missing # Unreadable
<1>1. Missing.format = "missing" /\ Unreadable.format = "unreadable"
  BY DEF Missing, Unreadable
<1> QED
  BY <1>1 DEF Files, IsNew, IsOld

LEMMA FileCases ==
  ASSUME NEW f \in Files
  PROVE  /\ IsNew(f) => /\ f.source \in Sources /\ f.settings \in Settings
                        /\ f = NewFile(f.source, f.settings)
         /\ IsOld(f) => /\ f.type \in Cameras /\ f.host \in AllHosts
                        /\ f.servo \in AllHosts \cup {None}
         /\ IsNew(f) \/ IsOld(f) \/ f = Missing \/ f = Unreadable
<1>1. CASE f \in NewFiles
  <2>1. PICK s \in Sources, t \in Settings : f = NewFile(s, t)
    BY <1>1 DEF NewFiles
  <2>2. IsNew(f) /\ ~IsOld(f) /\ f.source = s /\ f.settings = t
    BY <2>1, NewFileType
  <2> QED
    BY <2>1, <2>2
<1>2. CASE f \in OldFiles
  <2>1. PICK t \in Cameras, h \in AllHosts, s \in AllHosts \cup {None} :
          f = OldFile(t, h, s)
    BY <1>2 DEF OldFiles
  <2>2. IsOld(f) /\ ~IsNew(f)
    BY <2>1, OldFileType
  <2>3. f.type = t /\ f.host = h /\ f.servo = s
    BY <2>1 DEF OldFile
  <2> QED
    BY <2>1, <2>2, <2>3
<1>3. CASE f \in {Missing, Unreadable}
  BY <1>3, OtherFiles
<1> QED
  BY <1>1, <1>2, <1>3 DEF Files

LEMMA NewIsNotOld ==
  ASSUME NEW f
  PROVE  ~(IsNew(f) /\ IsOld(f))
BY DEF IsNew, IsOld

LEMMA SourceChange ==
  ASSUME NEW f \in Files, IsNew(f), NEW s \in Sources
  PROVE  [f EXCEPT !.source = s] = NewFile(s, f.settings)
<1>1. f = NewFile(f.source, f.settings)
  BY FileCases
<1>2. f = [format |-> "new", source |-> f.source, settings |-> f.settings]
  BY <1>1 DEF NewFile
<1> QED
  BY <1>2 DEF NewFile

LEMMA UriType ==
  ASSUME NEW f \in Files
  PROVE  UriOf(f) \in AllHosts
<1>1. CASE IsNew(f) /\ f.settings[f.source] # None
  <2>1. f.settings[f.source] \in AllHosts
    BY <1>1, FileCases, SourceIsCamera DEF Settings
  <2> QED
    BY <1>1, <2>1, NewIsNotOld DEF UriOf
<1>2. CASE IsOld(f)
  BY <1>2, FileCases, NewIsNotOld DEF UriOf
<1>3. CASE ~(IsNew(f) /\ f.settings[f.source] # None) /\ ~IsOld(f)
  BY <1>3, DefaultTypes DEF UriOf
<1> QED
  BY <1>1, <1>2, <1>3

LEMMA ControllersType ==
  ASSUME NEW k \in {"siyi", "servo"}, NEW h \in AllHosts
  PROVE  Controller(k, h) \in Controllers
BY DEF Controllers

LEMMA ControllerType ==
  ASSUME NEW f \in Files
  PROVE  ControllerOf(f) \in Controllers
<1> USE ControllersType
<1>1. CASE IsNew(f) /\ f.settings[f.source] # None
  <2>1. f.settings[f.source] \in AllHosts
    BY <1>1, FileCases, SourceIsCamera DEF Settings
  <2>2. ~IsOld(f) /\ ~IsServo(f)
    BY <1>1, NewIsNotOld DEF IsServo
  <2>3. ControllerOf(f) = Controller("siyi", f.settings[f.source])
    BY <1>1, <2>2 DEF ControllerOf
  <2> QED
    BY <2>1, <2>3
<1>2. CASE IsServo(f)
  <2>1. IsOld(f) /\ f.servo \in AllHosts /\ ~IsNew(f)
    BY <1>2, FileCases, NewIsNotOld DEF IsServo
  <2>2. ControllerOf(f) = Controller("servo", f.servo)
    BY <1>2, <2>1 DEF ControllerOf
  <2> QED
    BY <2>1, <2>2
<1>3. CASE IsOld(f) /\ f.type # "ai" /\ ~IsServo(f)
  <2>1. f.host \in AllHosts /\ ~IsNew(f)
    BY <1>3, FileCases, NewIsNotOld
  <2>2. ControllerOf(f) = Controller("siyi", f.host)
    BY <1>3, <2>1 DEF ControllerOf
  <2> QED
    BY <2>1, <2>2
<1>4. CASE /\ ~(IsNew(f) /\ f.settings[f.source] # None)
           /\ ~IsServo(f) /\ ~(IsOld(f) /\ f.type # "ai" /\ ~IsServo(f))
  <2>1. ControllerOf(f) = Controller("siyi", ControlDefault)
    BY <1>4 DEF ControllerOf
  <2> QED
    BY <2>1, DefaultTypes
<1> QED
  BY <1>1, <1>2, <1>3, <1>4

\* The controller made from a file of the new format goes where the video
\* comes from.
LEMMA SameCamera ==
  ASSUME NEW f \in Files, IsNew(f), f.settings[f.source] # None
  PROVE  ControllerOf(f) = Controller("siyi", UriOf(f))
<1>1. ~IsOld(f) /\ ~IsServo(f)
  BY NewIsNotOld DEF IsServo
<1> QED
  BY <1>1 DEF ControllerOf, UriOf

(***************************************************************************)
(* The functions of the window.                                            *)
(***************************************************************************)

\* A write changes nothing but the file.
LEMMA WriteFacts ==
  ASSUME NEW a \in Apps, NEW f \in Files, NEW disk \in Disks,
         NEW r, r = Write(a, f, disk)
  PROVE  /\ r \in Apps /\ SameInput(r, a) /\ r.uri = a.uri
         /\ disk = "works" => r.file = f
         /\ disk = "denied" => r = a
<1> USE DEF SameInput, Apps
<1>1. CASE disk = "works"
  <2>1. r = [a EXCEPT !.file = f]
    BY <1>1 DEF Write
  <2> QED
    BY <1>1, <2>1
<1>2. CASE disk = "full"
  <2>1. r = [a EXCEPT !.file = Unreadable]
    BY <1>2 DEF Write
  <2> QED
    BY <1>2, <2>1, OtherFiles
<1>3. CASE disk = "denied"
  <2>1. r = a
    BY <1>3 DEF Write
  <2> QED
    BY <1>3, <2>1
<1> QED
  BY <1>1, <1>2, <1>3 DEF Disks

LEMMA ContentFacts ==
  ASSUME NEW a \in Apps
  PROVE  /\ Content(a) \in Files /\ IsNew(Content(a)) /\ ~IsOld(Content(a))
         /\ Content(a).source = a.dropdown /\ Content(a).settings = a.form
         /\ Content(a) # Missing
<1>1. a.dropdown \in Sources /\ a.form \in Settings
  BY DEF Apps
<1> QED
  BY <1>1, NewFileType DEF Content

LEMMA OpenVideoFacts ==
  ASSUME NEW a \in Apps, NEW disk \in Disks, NEW r, r = OpenVideo(a, disk)
  PROVE  /\ r \in Apps /\ SameInput(r, a) /\ Shown(r)
         /\ r.controller = a.controller /\ r.stale = a.stale
         /\ a.file # Missing => r.file = a.file
         /\ a.file = Missing => \/ ~IsNew(r.file)
                                \/ r.file = NewFile("siyi", NoSettings)
         /\ a.file = Missing /\ disk = "works" => r.file = NewFile("siyi", NoSettings)
<1> DEFINE bare == NewFile("siyi", NoSettings)
<1> DEFINE b == IF a.file = Missing THEN Write(a, bare, disk) ELSE a
<1>0. bare \in Files /\ IsNew(bare) /\ ~IsOld(bare) /\ UriOf(bare) = VideoDefault
  <2>1. /\ bare \in Files /\ IsNew(bare) /\ ~IsOld(bare)
        /\ bare.source = "siyi" /\ bare.settings = NoSettings
    BY NewFileType, DefaultTypes DEF Sources
  <2>2. NoSettings["siyi"] = None
    BY DEF NoSettings, Cameras
  <2> QED
    BY <2>1, <2>2 DEF UriOf
<1>1. r = [b EXCEPT !.uri = UriOf(a.file)]
  BY DEF OpenVideo
<1>2. a.file \in Files /\ UriOf(a.file) \in AllHosts
  BY UriType DEF Apps
<1>3. CASE a.file # Missing
  <2>1. r = [a EXCEPT !.uri = UriOf(a.file)]
    BY <1>1, <1>3
  <2> QED
    BY <1>2, <1>3, <2>1 DEF Apps, SameInput, Shown
<1>4. CASE a.file = Missing
  <2>1. b = Write(a, bare, disk)
    BY <1>4
  <2>2. b \in Apps /\ SameInput(b, a) /\ (disk = "works" => b.file = bare)
    BY <1>0, <2>1, WriteFacts
  <2>3. /\ b.controller = a.controller /\ b.stale = a.stale
        /\ b.file \in {bare, Unreadable, Missing}
    BY <1>4, <2>1 DEF Write, Disks, Apps
  <2>4. UriOf(Missing) = VideoDefault /\ UriOf(Unreadable) = VideoDefault
    BY OtherFiles DEF UriOf
  <2>5. UriOf(b.file) = UriOf(a.file)
    BY <1>0, <1>4, <2>3, <2>4
  <2> HIDE DEF b
  <2>6. /\ r \in Apps /\ SameInput(r, b) /\ r.uri = UriOf(a.file)
        /\ r.controller = b.controller /\ r.stale = b.stale /\ r.file = b.file
    BY <1>1, <1>2, <2>2 DEF Apps, SameInput
  <2>7. Shown(r)
    BY <2>5, <2>6 DEF Shown
  <2>8. ~IsNew(r.file) \/ r.file = bare
    BY <2>3, <2>6, OtherFiles
  <2> QED
    BY <1>4, <2>2, <2>3, <2>6, <2>7, <2>8 DEF SameInput
<1> QED
  BY <1>3, <1>4

\* Whatever saving came to, the controller is stale or made from the file.
LEMMA MakeControllerFacts ==
  ASSUME NEW a \in Apps, NEW b \in Apps, NEW r, r = MakeController(a, b)
  PROVE  /\ r \in Apps /\ SameInput(r, b) /\ r.uri = b.uri /\ r.file = b.file
         /\ ~r.stale => r.file = a.file
         /\ r.controller = ControllerOf(a.file)
<1>1. a.file \in Files /\ ControllerOf(a.file) \in Controllers
  BY ControllerType DEF Apps
<1>2. r = [b EXCEPT !.controller = ControllerOf(a.file), !.stale = b.file # a.file]
  BY DEF MakeController
<1>3. (b.file # a.file) \in BOOLEAN
  OBVIOUS
<1>4. r \in Apps /\ SameInput(r, b) /\ r.uri = b.uri /\ r.file = b.file
  BY <1>1, <1>2, <1>3 DEF Apps, SameInput
<1>5. r.controller = ControllerOf(a.file) /\ r.stale = (b.file # a.file)
  BY <1>2 DEF Apps
<1> QED
  BY <1>4, <1>5

LEMMA SaveInApplyFacts ==
  ASSUME NEW a \in Apps, NEW disk \in Disks, NEW r, r = SaveInApply(a, disk)
  PROVE  /\ r \in Apps /\ SameInput(r, a) /\ r.uri = a.uri
         /\ disk = "works" => r.file = IF Savable(a) THEN Content(a) ELSE a.file
<1>1. CASE Savable(a)
  <2> DEFINE f == Content(a)
  <2>1. r = Write(a, f, disk)
    BY <1>1 DEF SaveInApply
  <2>2. f \in Files
    BY ContentFacts
  <2> HIDE DEF f
  <2>3. /\ r \in Apps /\ SameInput(r, a) /\ r.uri = a.uri
        /\ disk = "works" => r.file = f
    BY <2>1, <2>2, WriteFacts
  <2> QED
    BY <1>1, <2>3 DEF f
<1>2. CASE ~Savable(a)
  BY <1>2 DEF SaveInApply, SameInput
<1> QED
  BY <1>1, <1>2

\* What applyConfig() leaves is settled: video and controller fit the file.
LEMMA ApplyConfigFacts ==
  ASSUME NEW a \in Apps, NEW disk \in Disks, NEW r, r = ApplyConfig(a, disk)
  PROVE  /\ r \in Apps /\ SameInput(r, a) /\ Shown(r) /\ Commanding(r)
         /\ disk = "works" =>
              /\ IsNew(a.file) \/ a.file = Unreadable => r.file = a.file
              /\ IsOld(a.file) =>
                   r.file = IF Savable(a) THEN Content(a) ELSE a.file
              /\ r.file # Missing
<1> DEFINE b == IF IsOld(a.file) THEN SaveInApply(a, disk) ELSE a
<1> DEFINE m == MakeController(a, b)
<1>1. r = OpenVideo(m, disk)
  BY DEF ApplyConfig
<1>2. /\ b \in Apps /\ SameInput(b, a)
      /\ ~IsOld(a.file) => b.file = a.file
      /\ disk = "works" /\ IsOld(a.file) =>
           b.file = IF Savable(a) THEN Content(a) ELSE a.file
  <2>1. CASE IsOld(a.file)
    <3>1. b = SaveInApply(a, disk)
      BY <2>1
    <3> HIDE DEF b
    <3> QED
      BY <2>1, <3>1, SaveInApplyFacts
  <2>2. CASE ~IsOld(a.file)
    BY <2>2 DEF SameInput
  <2> QED
    BY <2>1, <2>2
<1> HIDE DEF b
<1>3. /\ m \in Apps /\ SameInput(m, b) /\ m.file = b.file
      /\ ~m.stale => m.file = a.file
      /\ m.controller = ControllerOf(a.file)
  BY <1>2, MakeControllerFacts
<1> HIDE DEF m
<1>4. /\ r \in Apps /\ SameInput(r, m) /\ Shown(r)
      /\ r.controller = m.controller /\ r.stale = m.stale
      /\ m.file # Missing => r.file = m.file
      /\ m.file = Missing => \/ ~IsNew(r.file)
                             \/ r.file = NewFile("siyi", NoSettings)
      /\ m.file = Missing /\ disk = "works" => r.file = NewFile("siyi", NoSettings)
  BY <1>1, <1>3, OpenVideoFacts
<1>5. Commanding(r)
  <2> SUFFICES ASSUME ~r.stale, IsNew(r.file), r.file.settings[r.file.source] # None
               PROVE  r.controller = Controller("siyi", r.uri)
    BY DEF Commanding
  <2>1. m.file = a.file
    BY <1>3, <1>4
  <2>2. CASE m.file # Missing
    <3>1. r.file = a.file /\ a.file \in Files
      BY <1>4, <2>1, <2>2 DEF Apps
    <3> QED
      BY <1>3, <1>4, <3>1, SameCamera DEF Shown
  <2>3. CASE m.file = Missing
    <3>1. r.file = NewFile("siyi", NoSettings)
      BY <1>4, <2>3
    <3>2. r.file.source = "siyi" /\ r.file.settings = NoSettings
      BY <3>1, NewFileType, DefaultTypes DEF Sources
    <3> QED
      BY <3>2 DEF NoSettings, Cameras
  <2> QED
    BY <2>2, <2>3
<1>6. SameInput(r, a)
  BY <1>2, <1>3, <1>4 DEF SameInput
<1>7. ASSUME disk = "works"
      PROVE  /\ IsNew(a.file) \/ a.file = Unreadable => r.file = a.file
             /\ IsOld(a.file) => r.file = IF Savable(a) THEN Content(a) ELSE a.file
             /\ r.file # Missing
  <2>1. NewFile("siyi", NoSettings) # Missing
    BY NewFileType, DefaultTypes DEF Sources
  <2>2. r.file # Missing
    BY <1>4, <1>7, <2>1
  <2>3. ASSUME IsNew(a.file) \/ a.file = Unreadable
        PROVE  r.file = a.file
    <3>1. ~IsOld(a.file) /\ a.file # Missing
      BY <2>3, NewIsNotOld, OtherFiles
    <3> QED
      BY <1>2, <1>3, <1>4, <3>1
  <2>4. ASSUME IsOld(a.file)
        PROVE  r.file = IF Savable(a) THEN Content(a) ELSE a.file
    <3>1. b.file # Missing
      BY <1>2, <1>7, <2>4, ContentFacts, OtherFiles
    <3> QED
      BY <1>2, <1>3, <1>4, <1>7, <2>4, <3>1
  <2> QED
    BY <2>2, <2>3, <2>4
<1> QED
  BY <1>4, <1>5, <1>6, <1>7

\* saveConfig() does nothing at all, or it settles the window on what it wrote.
LEMMA SaveConfigFacts ==
  ASSUME NEW a \in Apps, NEW disk \in Disks, NEW r, r = SaveConfig(a, disk)
  PROVE  /\ r \in Apps /\ SameInput(r, a)
         /\ ~Savable(a) \/ disk = "denied" => r = a
         /\ Savable(a) /\ disk # "denied" =>
              /\ Shown(r) /\ Commanding(r)
              /\ disk = "works" => r.file = Content(a)
<1>1. CASE Savable(a) /\ disk # "denied"
  <2> DEFINE f == Content(a)
  <2> DEFINE b == Write(a, f, disk)
  <2>1. r = ApplyConfig(b, disk)
    BY <1>1 DEF SaveConfig
  <2>2. f \in Files /\ IsNew(f)
    BY ContentFacts
  <2> HIDE DEF f
  <2>3. b \in Apps /\ SameInput(b, a) /\ (disk = "works" => b.file = f)
    BY <2>2, WriteFacts
  <2> HIDE DEF b
  <2>4. /\ r \in Apps /\ SameInput(r, b) /\ Shown(r) /\ Commanding(r)
        /\ disk = "works" /\ IsNew(b.file) => r.file = b.file
    BY <2>1, <2>3, ApplyConfigFacts
  <2>5. disk = "works" => r.file = Content(a)
    BY <2>2, <2>3, <2>4 DEF f
  <2> QED
    BY <1>1, <2>3, <2>4, <2>5 DEF SameInput
<1>2. CASE ~(Savable(a) /\ disk # "denied")
  BY <1>2 DEF SaveConfig, SameInput
<1> QED
  BY <1>1, <1>2

\* A controller made in a window that shows the file's video leaves it settled,
\* and migrates an old file if that can be saved.
LEMMA CreateControllerFacts ==
  ASSUME NEW a \in Apps, Shown(a), NEW disk \in Disks,
         NEW r, r = CreateCameraControllerFromConfig(a, disk)
  PROVE  /\ r \in Apps /\ SameInput(r, a) /\ Shown(r) /\ Commanding(r)
         /\ ~IsOld(a.file) => r.file = a.file
         /\ disk = "works" /\ IsOld(a.file) =>
              r.file = IF Savable(a) THEN Content(a) ELSE a.file
<1> DEFINE b == IF IsOld(a.file) THEN SaveConfig(a, disk) ELSE a
<1>1. r = MakeController(a, b)
  BY DEF CreateCameraControllerFromConfig
<1>2. /\ b \in Apps /\ SameInput(b, a) /\ Shown(b)
      /\ ~IsOld(a.file) => b.file = a.file
      /\ disk = "works" /\ IsOld(a.file) =>
           b.file = IF Savable(a) THEN Content(a) ELSE a.file
  <2>1. CASE IsOld(a.file)
    <3>1. b = SaveConfig(a, disk)
      BY <2>1
    <3> HIDE DEF b
    <3>2. b \in Apps /\ SameInput(b, a) /\ Shown(b)
      BY <3>1, SaveConfigFacts
    <3>3. disk = "works" => b.file = IF Savable(a) THEN Content(a) ELSE a.file
      BY <3>1, SaveConfigFacts
    <3> QED
      BY <2>1, <3>2, <3>3
  <2>2. CASE ~IsOld(a.file)
    BY <2>2 DEF SameInput
  <2> QED
    BY <2>1, <2>2
<1> HIDE DEF b
<1>3. /\ r \in Apps /\ SameInput(r, b) /\ r.uri = b.uri /\ r.file = b.file
      /\ ~r.stale => r.file = a.file
      /\ r.controller = ControllerOf(a.file)
  BY <1>1, <1>2, MakeControllerFacts
<1>4. Shown(r) /\ SameInput(r, a)
  BY <1>2, <1>3 DEF Shown, SameInput
<1>5. Commanding(r)
  <2> SUFFICES ASSUME ~r.stale, IsNew(r.file), r.file.settings[r.file.source] # None
               PROVE  r.controller = Controller("siyi", r.uri)
    BY DEF Commanding
  <2>1. r.file = a.file /\ a.file \in Files
    BY <1>3 DEF Apps
  <2> QED
    BY <1>3, <1>4, <2>1, SameCamera DEF Shown
<1> QED
  BY <1>2, <1>3, <1>4, <1>5

\* The form of an old file can be saved unless the file is a servo's.
LEMMA LoadFormFacts ==
  ASSUME NEW a \in Apps, a.form = NoSettings, a.dropdown = "siyi",
         NEW r, r = LoadForm(a)
  PROVE  /\ r \in Apps /\ r.file = a.file
         /\ IsNew(a.file) => r.dropdown = a.file.source /\ r.form = a.file.settings
         /\ a.file = Missing => r.dropdown = "siyi"
         /\ IsOld(a.file) /\ ~Savable(r) => a.file.type = "servo"
<1> USE DEF Apps
<1>0. a.file \in Files
  OBVIOUS
<1>1. CASE a.file = Missing
  <2>1. ~IsNew(a.file) /\ ~IsOld(a.file)
    BY <1>1, OtherFiles
  <2>2. r = [a EXCEPT !.form = FormDefault]
    BY <1>1, <2>1 DEF LoadForm
  <2> QED
    BY <1>1, <2>1, <2>2, DefaultTypes
<1>2. CASE IsNew(a.file)
  <2>1. a.file # Missing
    BY <1>2, OtherFiles
  <2>2. r = [a EXCEPT !.form = a.file.settings, !.dropdown = a.file.source]
    BY <1>2, <2>1, NewIsNotOld DEF LoadForm
  <2>3. a.file.settings \in Settings /\ a.file.source \in Sources
    BY <1>0, <1>2, FileCases
  <2> QED
    BY <1>2, <2>1, <2>2, <2>3, NewIsNotOld
<1>3. CASE IsOld(a.file) /\ a.file.type = "servo"
  <2>1. a.file # Missing /\ ~IsNew(a.file)
    BY <1>3, OtherFiles, NewIsNotOld
  <2>2. r = [a EXCEPT !.form["servo"] = a.file.servo]
    BY <1>3, <2>1 DEF LoadForm
  <2>3. a.file.servo \in AllHosts \cup {None}
    BY <1>0, <1>3, FileCases
  <2>4. [a.form EXCEPT !["servo"] = a.file.servo] \in Settings
    BY <2>3 DEF Settings
  <2> QED
    BY <1>3, <2>1, <2>2, <2>4
<1>4. CASE IsOld(a.file) /\ a.file.type # "servo"
  <2>1. a.file # Missing /\ ~IsNew(a.file)
    BY <1>4, OtherFiles, NewIsNotOld
  <2>2. r = [a EXCEPT !.form[a.file.type] = a.file.host, !.dropdown = a.file.type]
    BY <1>4, <2>1 DEF LoadForm
  <2>3. a.file.type \in Sources /\ a.file.host \in AllHosts
    BY <1>0, <1>4, FileCases DEF Cameras, Sources
  <2>4. [a.form EXCEPT ![a.file.type] = a.file.host] \in Settings
    BY <2>3 DEF Settings
  <2>5. r.form = [a.form EXCEPT ![a.file.type] = a.file.host]
    BY <2>2
  <2>6. a.form \in [Cameras -> AllHosts \cup {None}]
    BY DEF Settings
  <2>7. r.form[a.file.type] = a.file.host
    BY <2>3, <2>5, <2>6, SourceIsCamera
  <2>8. Savable(r)
    BY <2>3, <2>7, NoneIsNoHost DEF Savable, Sources
  <2> QED
    BY <2>1, <2>2, <2>3, <2>4, <2>8
<1>5. CASE a.file # Missing /\ ~IsNew(a.file) /\ ~IsOld(a.file)
  <2>1. r = a
    BY <1>5 DEF LoadForm
  <2> QED
    BY <1>5, <2>1
<1> QED
  BY <1>1, <1>2, <1>3, <1>4, <1>5

\* A window filled from the file agrees with it, or there is no file yet.
LEMMA PopulateFacts ==
  ASSUME NEW a \in Apps, a.form = NoSettings, a.dropdown = "siyi",
         NEW disk \in Disks, NEW r, r = PopulateConfigFields(a, disk)
  PROVE  /\ r \in Apps
         /\ IsNew(a.file) => /\ r.file = a.file /\ r.dropdown = a.file.source
                             /\ r.form = a.file.settings
         /\ disk = "works" =>
              /\ IsNew(r.file) => r.dropdown = r.file.source
              /\ IsOld(r.file) => r.file.type = "servo"
              /\ r.file = Missing => r.dropdown = "siyi"
<1> DEFINE b == LoadForm(a)
<1>1. /\ b \in Apps /\ b.file = a.file
      /\ IsNew(a.file) => b.dropdown = a.file.source /\ b.form = a.file.settings
      /\ a.file = Missing => b.dropdown = "siyi"
      /\ IsOld(a.file) /\ ~Savable(b) => a.file.type = "servo"
  BY LoadFormFacts
<1> HIDE DEF b
<1>2. CASE IsOld(a.file)
  <2>1. r = SaveConfig(b, disk)
    BY <1>2 DEF PopulateConfigFields, b
  <2>2. /\ r \in Apps /\ SameInput(r, b)
        /\ ~Savable(b) => r = b
        /\ Savable(b) /\ disk = "works" => r.file = Content(b)
    BY <1>1, <2>1, SaveConfigFacts
  <2>3. /\ IsNew(Content(b)) /\ ~IsOld(Content(b)) /\ Content(b) # Missing
        /\ Content(b).source = b.dropdown
    BY <1>1, ContentFacts
  <2>4. a.file # Missing /\ ~IsNew(a.file)
    BY <1>2, OtherFiles, NewIsNotOld
  <2> QED
    BY <1>1, <1>2, <2>2, <2>3, <2>4 DEF SameInput
<1>3. CASE ~IsOld(a.file)
  <2>1. r = b
    BY <1>3 DEF PopulateConfigFields, b
  <2> QED
    BY <1>1, <1>3, <2>1
<1> QED
  BY <1>2, <1>3

(***************************************************************************)
(* The invariant.                                                          *)
(***************************************************************************)

\* A program that is off shows nothing.
OffIsEmpty == ~Running => app.form = NoSettings /\ app.dropdown = "siyi"

Settled == Running => Shown(app) /\ Commanding(app)

AgreesWithFile == Running /\ ~faulty => Agrees(app)

IInv == TypeOK /\ OffIsEmpty /\ Settled /\ AgreesWithFile

LEMMA OffType ==
  ASSUME NEW f \in Files
  PROVE  Off(f) \in Apps
<1>1. Controller("siyi", ControlDefault) \in Controllers
  BY ControllersType, DefaultTypes
<1> QED
  BY <1>1, DefaultTypes DEF Off, Apps, Sources

LEMMA InitInv == Init => IInv
<1> SUFFICES ASSUME Init PROVE IInv
  OBVIOUS
<1>1. PICK f \in FormerFiles : app = Off(f)
  BY DEF Init
<1>2. f \in Files
  <2>1. Hosts \subseteq AllHosts
    BY DEF AllHosts
  <2>2. CASE f \in {Missing, Unreadable}
    BY <2>2, OtherFiles
  <2>3. ASSUME NEW s \in Sources, NEW t \in [Cameras -> Hosts \cup {None}],
               f = NewFile(s, t)
        PROVE  f \in Files
    <3>1. t \in Settings
      BY <2>1 DEF Settings
    <3> QED
      BY <2>3, <3>1, NewFileType
  <2>4. ASSUME NEW t \in Cameras, NEW h \in Hosts, NEW s \in Hosts, f = OldFile(t, h, s)
        PROVE  f \in Files
    BY <2>1, <2>4, OldFileType
  <2> QED
    BY <2>2, <2>3, <2>4 DEF FormerFiles
<1>3. app \in Apps /\ app.form = NoSettings /\ app.dropdown = "siyi"
  BY <1>1, <1>2, OffType DEF Off
<1> QED
  BY <1>3 DEF Init, IInv, TypeOK, OffIsEmpty, Settled, AgreesWithFile, Running

\* A handler that settles the window, and leaves it in agreement with the file
\* if the disk works and always did, preserves the invariant.
LEMMA HandlerInv ==
  ASSUME IInv, NEW disk \in Disks, NEW r \in Apps, Handler(r, disk),
         Shown(r), Commanding(r), disk = "works" /\ Agrees(app) => Agrees(r)
  PROVE  IInv'
<1>1. app' = r /\ faulty' = (faulty \/ disk # "works") /\ phase' = phase /\ Running
  BY DEF Handler
<1>2. Running'
  BY <1>1 DEF Running
<1>3. faulty \in BOOLEAN /\ phase \in {"off", "starting", "running"}
  BY DEF IInv, TypeOK
<1>4. faulty' \in BOOLEAN
  BY <1>1, <1>3
<1>5. TypeOK'
  BY <1>1, <1>3, <1>4 DEF TypeOK
<1>6. OffIsEmpty' /\ Settled'
  BY <1>1, <1>2 DEF OffIsEmpty, Settled
<1>7. AgreesWithFile'
  BY <1>1 DEF AgreesWithFile, IInv
<1> QED
  BY <1>5, <1>6, <1>7 DEF IInv

LEMMA StartInv ==
  ASSUME IInv, NEW disk \in Disks, Start(disk)
  PROVE  IInv'
<1> DEFINE p == PopulateConfigFields(app, disk)
<1> DEFINE v == OpenVideo(p, disk)
<1> DEFINE r == CreateCameraControllerFromConfig(v, disk)
<1>1. /\ app' = r /\ phase' = "starting" /\ faulty' = (disk # "works")
      /\ app \in Apps /\ app.form = NoSettings /\ app.dropdown = "siyi"
  BY DEF Start, IInv, TypeOK, OffIsEmpty, Running
<1>2. /\ p \in Apps
      /\ disk = "works" =>
           /\ IsNew(p.file) => p.dropdown = p.file.source
           /\ IsOld(p.file) => p.file.type = "servo"
           /\ p.file = Missing => p.dropdown = "siyi"
  BY <1>1, PopulateFacts
<1> HIDE DEF p
<1>3. /\ v \in Apps /\ SameInput(v, p) /\ Shown(v)
      /\ p.file # Missing => v.file = p.file
      /\ p.file = Missing /\ disk = "works" => v.file = NewFile("siyi", NoSettings)
  BY <1>2, OpenVideoFacts
<1>4. disk = "works" => Agrees(v)
  <2> SUFFICES ASSUME disk = "works" PROVE Agrees(v)
    OBVIOUS
  <2>1. CASE p.file # Missing
    BY <1>2, <1>3, <2>1 DEF Agrees, SameInput
  <2>2. CASE p.file = Missing
    <3>1. v.file = NewFile("siyi", NoSettings) /\ v.dropdown = "siyi"
      BY <1>2, <1>3, <2>2 DEF SameInput
    <3>2. /\ ~IsOld(v.file) /\ v.file # Missing /\ v.file.source = "siyi"
      BY <3>1, NewFileType, DefaultTypes DEF Sources
    <3> QED
      BY <3>1, <3>2 DEF Agrees
  <2> QED
    BY <2>1, <2>2
<1> HIDE DEF v
<1>5. /\ r \in Apps /\ SameInput(r, v) /\ Shown(r) /\ Commanding(r)
      /\ ~IsOld(v.file) => r.file = v.file
      /\ disk = "works" /\ IsOld(v.file) =>
           r.file = IF Savable(v) THEN Content(v) ELSE v.file
  BY <1>3, CreateControllerFacts
<1>6. disk = "works" => Agrees(r)
  <2>1. /\ ~IsOld(Content(v)) /\ Content(v).source = v.dropdown
        /\ Content(v) # Missing
    BY <1>3, ContentFacts
  <2> QED
    BY <1>4, <1>5, <2>1 DEF Agrees, SameInput
<1> HIDE DEF r
<1>7. faulty' \in BOOLEAN
  BY <1>1
<1>8. TypeOK' /\ OffIsEmpty' /\ Settled' /\ AgreesWithFile'
  BY <1>1, <1>5, <1>6, <1>7
  DEF TypeOK, OffIsEmpty, Settled, AgreesWithFile, Running
<1> QED
  BY <1>8 DEF IInv

LEMMA StartCrashesInv ==
  ASSUME IInv, NEW disk \in Disks, StartCrashes(disk)
  PROVE  IInv'
<1> DEFINE a == LoadForm(app)
<1> DEFINE f == SaveInApply(a, disk).file
<1>1. app' = Off(f) /\ phase' = phase /\ phase = "off" /\ faulty' = faulty
  BY DEF StartCrashes
<1>2. app \in Apps /\ app.form = NoSettings /\ app.dropdown = "siyi"
  BY <1>1 DEF IInv, TypeOK, OffIsEmpty, Running
<1>3. a \in Apps
  BY <1>2, LoadFormFacts
<1> HIDE DEF a
<1>4. f \in Files
  BY <1>3, SaveInApplyFacts DEF Apps
<1> HIDE DEF f
<1>5. app' \in Apps /\ app'.form = NoSettings /\ app'.dropdown = "siyi"
  BY <1>1, <1>4, OffType DEF Off
<1> QED
  BY <1>1, <1>5 DEF IInv, TypeOK, OffIsEmpty, Settled, AgreesWithFile, Running

LEMMA InitializeInv ==
  ASSUME IInv, NEW disk \in Disks, InitializeCameraController(disk)
  PROVE  IInv'
<1> DEFINE r == CreateCameraControllerFromConfig(app, disk)
<1>1. /\ app' = r /\ phase' = "running" /\ faulty' = (faulty \/ disk # "works")
      /\ app \in Apps /\ Shown(app) /\ faulty \in BOOLEAN
      /\ ~faulty => Agrees(app)
  BY DEF InitializeCameraController, IInv, TypeOK, Settled, AgreesWithFile, Running
<1>2. /\ r \in Apps /\ SameInput(r, app) /\ Shown(r) /\ Commanding(r)
      /\ ~IsOld(app.file) => r.file = app.file
      /\ disk = "works" /\ IsOld(app.file) =>
           r.file = IF Savable(app) THEN Content(app) ELSE app.file
  BY <1>1, CreateControllerFacts
<1> HIDE DEF r
<1>3. disk = "works" /\ Agrees(app) => Agrees(r)
  <2>1. /\ ~IsOld(Content(app)) /\ Content(app).source = app.dropdown
        /\ Content(app) # Missing
    BY <1>1, ContentFacts
  <2> QED
    BY <1>2, <2>1 DEF Agrees, SameInput
<1>4. faulty' \in BOOLEAN
  BY <1>1
<1>5. TypeOK' /\ OffIsEmpty' /\ Settled' /\ AgreesWithFile'
  BY <1>1, <1>2, <1>3, <1>4
  DEF TypeOK, OffIsEmpty, Settled, AgreesWithFile, Running
<1> QED
  BY <1>5 DEF IInv

LEMMA EditFormInv ==
  ASSUME IInv, NEW c \in Cameras, NEW host \in Hosts \cup {FormDefault[c], None},
         EditForm(c, host)
  PROVE  IInv'
<1>1. /\ app' = [app EXCEPT !.form[c] = host] /\ phase' = phase
      /\ faulty' = faulty /\ Running /\ app \in Apps
  BY DEF EditForm, IInv, TypeOK
<1>2. host \in AllHosts \cup {None}
  BY DEF AllHosts
<1>3. [app.form EXCEPT ![c] = host] \in Settings
  BY <1>1, <1>2 DEF Apps, Settings
<1>4. /\ app' \in Apps /\ app'.file = app.file /\ app'.uri = app.uri
      /\ app'.controller = app.controller /\ app'.stale = app.stale
      /\ app'.dropdown = app.dropdown
  BY <1>1, <1>3 DEF Apps
<1>5. TypeOK'
  BY <1>1, <1>4 DEF IInv, TypeOK
<1>6. OffIsEmpty' /\ Settled'
  BY <1>1, <1>4 DEF OffIsEmpty, Settled, IInv, Running, Shown, Commanding
<1>7. AgreesWithFile'
  BY <1>1, <1>4 DEF AgreesWithFile, IInv, Running, Agrees
<1> QED
  BY <1>5, <1>6, <1>7 DEF IInv

\* The three handlers that save, on the window they start from.
LEMMA OnSaveFacts ==
  ASSUME IInv, Running, NEW disk \in Disks, NEW r, r = SaveConfig(app, disk)
  PROVE  /\ r \in Apps /\ Shown(r) /\ Commanding(r)
         /\ disk = "works" /\ Agrees(app) => Agrees(r)
         /\ disk = "works" /\ IsNew(app.file) =>
              \/ r = app
              \/ IsNew(r.file) /\ r.file.settings = r.form
<1>1. app \in Apps /\ Shown(app) /\ Commanding(app)
  BY DEF IInv, TypeOK, Settled
<1>2. /\ IsNew(Content(app)) /\ ~IsOld(Content(app)) /\ Content(app) # Missing
      /\ Content(app).source = app.dropdown /\ Content(app).settings = app.form
  BY <1>1, ContentFacts
<1>3. /\ r \in Apps /\ SameInput(r, app)
      /\ ~Savable(app) \/ disk = "denied" => r = app
      /\ Savable(app) /\ disk # "denied" =>
           /\ Shown(r) /\ Commanding(r)
           /\ disk = "works" => r.file = Content(app)
  BY <1>1, SaveConfigFacts
<1>4. CASE ~Savable(app) \/ disk = "denied"
  BY <1>1, <1>3, <1>4
<1>5. CASE Savable(app) /\ disk # "denied"
  BY <1>2, <1>3, <1>5 DEF Agrees, SameInput
<1> QED
  BY <1>4, <1>5

LEMMA OnDefaultFacts ==
  ASSUME IInv, NEW disk \in Disks,
         NEW r, r = SaveDefaultConfig([app EXCEPT !.form["siyi"] = VideoDefault], disk)
  PROVE  /\ r \in Apps /\ Shown(r) /\ Commanding(r)
         /\ disk = "works" =>
              /\ Agrees(r)
              /\ IsNew(r.file) /\ r.file.settings = r.form
<1> DEFINE a == [app EXCEPT !.form["siyi"] = VideoDefault]
<1> DEFINE old == OldFile("siyi", a.form["siyi"], None)
<1> DEFINE b == Write(a, old, disk)
<1>1. r = ApplyConfig(b, disk)
  BY DEF SaveDefaultConfig
<1>2. a \in Apps /\ a.form["siyi"] = VideoDefault
  <2>1. app \in Apps /\ app.form \in [Cameras -> AllHosts \cup {None}]
    BY DEF IInv, TypeOK, Apps, Settings
  <2>2. "siyi" \in Cameras
    BY DEF Cameras
  <2>3. [app.form EXCEPT !["siyi"] = VideoDefault] \in Settings
    BY <2>1, DefaultTypes DEF Settings
  <2>4. a.form = [app.form EXCEPT !["siyi"] = VideoDefault]
    BY <2>1 DEF Apps
  <2> QED
    BY <2>1, <2>2, <2>3, <2>4 DEF Apps
<1> HIDE DEF a
<1>3. old \in Files /\ IsOld(old)
  BY <1>2, OldFileType, DefaultTypes DEF Cameras
<1> HIDE DEF old
<1>4. b \in Apps /\ SameInput(b, a) /\ (disk = "works" => b.file = old)
  BY <1>2, <1>3, WriteFacts
<1> HIDE DEF b
<1>5. /\ r \in Apps /\ SameInput(r, b) /\ Shown(r) /\ Commanding(r)
      /\ disk = "works" /\ IsOld(b.file) =>
           r.file = IF Savable(b) THEN Content(b) ELSE b.file
  BY <1>1, <1>4, ApplyConfigFacts
<1>6. Savable(b)
  BY <1>2, <1>4, DefaultTypes, NoneIsNoHost DEF Savable, SameInput
<1>7. /\ IsNew(Content(b)) /\ ~IsOld(Content(b)) /\ Content(b) # Missing
      /\ Content(b).source = b.dropdown /\ Content(b).settings = b.form
  BY <1>4, ContentFacts
<1>8. disk = "works" => r.file = Content(b)
  BY <1>3, <1>4, <1>5, <1>6
<1> QED
  BY <1>5, <1>7, <1>8 DEF Agrees, SameInput

LEMMA OnSourceFacts ==
  ASSUME IInv, NEW source \in Sources, NEW disk \in Disks,
         NEW r, r = ApplyConfig(UpdateVideoSourceInConfig(
                      [app EXCEPT !.dropdown = source], disk), disk)
  PROVE  /\ r \in Apps /\ Shown(r) /\ Commanding(r)
         /\ disk = "works" /\ Agrees(app) => Agrees(r)
         /\ disk = "works" /\ IsNew(app.file) =>
              /\ IsNew(r.file)
              /\ r.file.settings = app.file.settings
<1> DEFINE a == [app EXCEPT !.dropdown = source]
<1> DEFINE b == UpdateVideoSourceInConfig(a, disk)
<1> DEFINE changed == [a.file EXCEPT !.source = a.dropdown]
<1> DEFINE bare == NewFile(a.dropdown, NoSettings)
<1>1. a \in Apps /\ a.dropdown = source /\ a.file = app.file /\ a.file \in Files
  BY DEF IInv, TypeOK, Apps
<1> HIDE DEF a
<1>2. /\ bare \in Files /\ IsNew(bare) /\ ~IsOld(bare) /\ bare.source = source
      /\ bare # Missing
  BY <1>1, NewFileType, DefaultTypes
<1>3. ASSUME IsNew(a.file)
      PROVE  /\ changed \in Files /\ IsNew(changed) /\ ~IsOld(changed)
             /\ changed.source = source /\ changed.settings = a.file.settings
             /\ changed # Missing
  <2>1. changed = NewFile(source, a.file.settings) /\ a.file.settings \in Settings
    BY <1>1, <1>3, SourceChange, FileCases
  <2> HIDE DEF changed
  <2> QED
    BY <2>1, NewFileType
<1> HIDE DEF changed, bare
<1>4. /\ b \in Apps /\ SameInput(b, a)
      /\ a.file = Missing => b.file = Missing
      /\ disk = "works" /\ a.file = Unreadable => b.file = bare
      /\ disk = "works" /\ IsOld(a.file) => b.file = a.file
      /\ disk = "works" /\ IsNew(a.file) => b.file = changed
  <2>1. CASE a.file = Missing
    <3>1. ~IsNew(a.file) /\ ~IsOld(a.file) /\ a.file # Unreadable
      BY <2>1, OtherFiles
    <3>2. b = a
      BY <2>1, <3>1 DEF UpdateVideoSourceInConfig
    <3> QED
      BY <1>1, <2>1, <3>1, <3>2 DEF SameInput
  <2>2. CASE a.file = Unreadable
    <3>1. ~IsNew(a.file) /\ ~IsOld(a.file) /\ a.file # Missing
      BY <2>2, OtherFiles
    <3>2. b = Write(a, bare, disk)
      BY <2>2, <3>1 DEF UpdateVideoSourceInConfig, bare
    <3> HIDE DEF b
    <3> QED
      BY <1>1, <1>2, <3>1, <3>2, WriteFacts
  <2>3. CASE IsOld(a.file)
    <3>1. ~IsNew(a.file) /\ a.file # Missing /\ a.file # Unreadable
      BY <2>3, OtherFiles, NewIsNotOld
    <3>2. b = Write(a, a.file, disk)
      BY <2>3, <3>1 DEF UpdateVideoSourceInConfig
    <3> HIDE DEF b
    <3> QED
      BY <1>1, <3>1, <3>2, WriteFacts
  <2>4. CASE IsNew(a.file)
    <3>1. ~IsOld(a.file) /\ a.file # Missing /\ a.file # Unreadable
      BY <2>4, OtherFiles, NewIsNotOld
    <3>2. b = Write(a, changed, disk)
      BY <2>4, <3>1 DEF UpdateVideoSourceInConfig, changed
    <3> HIDE DEF b
    <3> QED
      BY <1>1, <1>3, <2>4, <3>1, <3>2, WriteFacts
  <2> QED
    BY <1>1, <2>1, <2>2, <2>3, <2>4, FileCases
<1>5. r = ApplyConfig(b, disk)
  BY DEF a, b
<1> HIDE DEF b
<1>6. /\ r \in Apps /\ SameInput(r, b) /\ Shown(r) /\ Commanding(r)
      /\ disk = "works" =>
           /\ IsNew(b.file) \/ b.file = Unreadable => r.file = b.file
           /\ IsOld(b.file) => r.file = IF Savable(b) THEN Content(b) ELSE b.file
           /\ r.file # Missing
  BY <1>4, <1>5, ApplyConfigFacts
<1>7. r.dropdown = source
  BY <1>1, <1>4, <1>6 DEF SameInput
<1>8. disk = "works" /\ IsNew(app.file) =>
        IsNew(r.file) /\ r.file.settings = app.file.settings
  BY <1>1, <1>3, <1>4, <1>6
<1>9. ASSUME disk = "works", Agrees(app)
      PROVE  Agrees(r)
  <2>1. a.file # Missing
    BY <1>1, <1>9 DEF Agrees
  <2>2. CASE a.file = Unreadable
    <3>1. r.file = bare
      BY <1>2, <1>4, <1>6, <1>9, <2>2
    <3> QED
      BY <1>2, <1>7, <3>1 DEF Agrees
  <2>3. CASE IsNew(a.file)
    <3>1. r.file = changed
      BY <1>3, <1>4, <1>6, <1>9, <2>3
    <3> QED
      BY <1>3, <1>7, <2>3, <3>1 DEF Agrees
  <2>4. CASE IsOld(a.file)
    <3>1. b.file = a.file /\ a.file.type = "servo" /\ ~IsNew(a.file)
      BY <1>1, <1>4, <1>9, <2>4, NewIsNotOld DEF Agrees
    <3>2. r.file = IF Savable(b) THEN Content(b) ELSE a.file
      BY <1>6, <1>9, <2>4, <3>1
    <3>3. ~IsOld(Content(b)) /\ Content(b).source = b.dropdown /\ Content(b) # Missing
      BY <1>4, ContentFacts
    <3>4. b.dropdown = source
      BY <1>1, <1>4 DEF SameInput
    <3> QED
      BY <1>7, <2>1, <3>1, <3>2, <3>3, <3>4 DEF Agrees
  <2> QED
    BY <1>1, <2>1, <2>2, <2>3, <2>4, FileCases
<1> QED
  BY <1>6, <1>8, <1>9

LEMMA QuitInv ==
  ASSUME IInv, Quit
  PROVE  IInv'
<1>1. PICK f \in {app.file, Unreadable} : app' = Off(f)
  BY DEF Quit
<1>2. f \in Files
  BY <1>1, OtherFiles DEF IInv, TypeOK, Apps
<1>3. app' \in Apps /\ app'.form = NoSettings /\ app'.dropdown = "siyi"
  BY <1>1, <1>2, OffType DEF Off
<1> QED
  BY <1>3 DEF Quit, IInv, TypeOK, OffIsEmpty, Settled, AgreesWithFile, Running

LEMMA NextInv == IInv /\ [Next]_vars => IInv'
<1> SUFFICES ASSUME IInv, [Next]_vars PROVE IInv'
  OBVIOUS
<1>1. ASSUME NEW disk \in Disks, OnSave(disk) PROVE IInv'
  <2>1. Running /\ Handler(SaveConfig(app, disk), disk)
    BY <1>1 DEF OnSave, Handler
  <2> QED
    BY <2>1, OnSaveFacts, HandlerInv
<1>2. ASSUME NEW disk \in Disks, OnSiyiDefaultClicked(disk) PROVE IInv'
  <2> DEFINE r == SaveDefaultConfig([app EXCEPT !.form["siyi"] = VideoDefault], disk)
  <2>1. Handler(r, disk)
    BY <1>2 DEF OnSiyiDefaultClicked
  <2>2. r \in Apps /\ Shown(r) /\ Commanding(r) /\ (disk = "works" => Agrees(r))
    BY OnDefaultFacts
  <2> HIDE DEF r
  <2> QED
    BY <2>1, <2>2, HandlerInv
<1>3. ASSUME NEW disk \in Disks, NEW source \in Sources,
             OnVideoSourceChanged(source, disk)
      PROVE  IInv'
  <2> DEFINE r == ApplyConfig(UpdateVideoSourceInConfig(
                    [app EXCEPT !.dropdown = source], disk), disk)
  <2>1. Handler(r, disk)
    BY <1>3 DEF OnVideoSourceChanged
  <2>2. /\ r \in Apps /\ Shown(r) /\ Commanding(r)
        /\ disk = "works" /\ Agrees(app) => Agrees(r)
    BY OnSourceFacts
  <2> HIDE DEF r
  <2> QED
    BY <2>1, <2>2, HandlerInv
<1>4. CASE UNCHANGED vars
  BY <1>4 DEF vars, IInv, TypeOK, OffIsEmpty, Settled, AgreesWithFile, Running
<1> QED
  BY <1>1, <1>2, <1>3, <1>4, StartInv, StartCrashesInv, InitializeInv, EditFormInv,
     QuitInv DEF Next

LEMMA Invariance == Spec => []IInv
BY InitInv, NextInv, PTL DEF Spec

(***************************************************************************)
(* The theorems.                                                           *)
(***************************************************************************)

\* Whatever is missing from the file or from the form, populateConfigFields(),
\* applyConfig() and createCameraControllerFromConfig() find an address.
THEOREM TypeCorrect == Spec => []TypeOK
<1>1. IInv => TypeOK
  BY DEF IInv
<1> QED
  BY <1>1, Invariance, PTL

\* Between handlers, video, dropdown and controller are what the file says,
\* whatever saves, migrations and failing writes led to it.
THEOREM WindowAlwaysMatchesFile == Spec => []WindowMatchesFile
<1>1. IInv => WindowMatchesFile
  <2> SUFFICES ASSUME IInv PROVE WindowMatchesFile
    OBVIOUS
  <2>1. VideoMatchesFile
    BY DEF IInv, Settled, Shown, VideoMatchesFile
  <2>2. DropdownMatchesFile
    BY DEF IInv, AgreesWithFile, Agrees, DropdownMatchesFile
  <2>3. ControllerMatchesVideo
    BY DEF IInv, Settled, Commanding, ControllerMatchesVideo
  <2> QED
    BY <2>1, <2>2, <2>3 DEF WindowMatchesFile
<1> QED
  BY <1>1, Invariance, PTL

\* No start and no handler leaves a file in the old format, but for a servo's,
\* if the disk works.
THEOREM OldFilesAlwaysMigrated == Spec => []OldFilesAreMigrated
<1>1. IInv => OldFilesAreMigrated
  BY DEF IInv, AgreesWithFile, Agrees, OldFilesAreMigrated
<1> QED
  BY <1>1, Invariance, PTL

\* What saveConfig(), saveDefaultConfig() and updateVideoSourceInConfig() write
\* keeps the settings that the form still shows.
LEMMA StepKeepsShown == IInv /\ Next => KeepsShown
<1> SUFFICES ASSUME IInv, Next, Running, Running', ~faulty', IsNew(app.file)
             PROVE  /\ IsNew(app.file')
                    /\ \A c \in Cameras :
                         LET kept == app.file.settings[c]
                         IN kept # None /\ app'.form[c] = kept =>
                              app'.file.settings[c] = kept
  BY DEF KeepsShown
<1>1. ASSUME \/ app'.file = app.file
             \/ IsNew(app'.file) /\ app'.file.settings = app'.form
             \/ IsNew(app'.file) /\ app'.file.settings = app.file.settings
      PROVE  /\ IsNew(app.file')
             /\ \A c \in Cameras :
                  LET kept == app.file.settings[c]
                  IN kept # None /\ app'.form[c] = kept =>
                       app'.file.settings[c] = kept
  BY <1>1
<1>2. ASSUME NEW disk \in Disks, InitializeCameraController(disk)
      PROVE  app'.file = app.file
  <2>1. app \in Apps /\ Shown(app) /\ ~IsOld(app.file)
    BY NewIsNotOld DEF IInv, TypeOK, Settled
  <2> QED
    BY <1>2, <2>1, CreateControllerFacts DEF InitializeCameraController
<1>3. ASSUME NEW disk \in Disks, OnSave(disk)
      PROVE  \/ app'.file = app.file
             \/ IsNew(app'.file) /\ app'.file.settings = app'.form
  <2>1. app' = SaveConfig(app, disk) /\ disk = "works"
    BY <1>3 DEF OnSave, Handler
  <2> QED
    BY <2>1, OnSaveFacts
<1>4. ASSUME NEW disk \in Disks, OnSiyiDefaultClicked(disk)
      PROVE  IsNew(app'.file) /\ app'.file.settings = app'.form
  <2>1. /\ app' = SaveDefaultConfig([app EXCEPT !.form["siyi"] = VideoDefault], disk)
        /\ disk = "works"
    BY <1>4 DEF OnSiyiDefaultClicked, Handler
  <2> QED
    BY <2>1, OnDefaultFacts
<1>5. ASSUME NEW disk \in Disks, NEW source \in Sources,
             OnVideoSourceChanged(source, disk)
      PROVE  IsNew(app'.file) /\ app'.file.settings = app.file.settings
  <2>1. /\ app' = ApplyConfig(UpdateVideoSourceInConfig(
                    [app EXCEPT !.dropdown = source], disk), disk)
        /\ disk = "works"
    BY <1>5 DEF OnVideoSourceChanged, Handler
  <2> QED
    BY <2>1, OnSourceFacts
<1>6. ASSUME NEW c \in Cameras, NEW host, EditForm(c, host)
      PROVE  app'.file = app.file
  BY <1>6 DEF EditForm, IInv, TypeOK, Apps
<1>7. ~\E disk \in Disks : Start(disk) \/ StartCrashes(disk)
  BY DEF Start, StartCrashes, Running
<1>8. ~Quit
  BY DEF Quit, Running
<1> QED
  BY <1>1, <1>2, <1>3, <1>4, <1>5, <1>6, <1>7, <1>8 DEF Next

\* A start with a file of the new format: populateConfigFields() fills the form
\* and saves nothing, opening the video and making the controller only read.
LEMMA StepRestarts == IInv /\ Next => RestartsFromFile
<1> SUFFICES ASSUME IInv, Next, ~Running, Running', IsNew(app.file)
             PROVE  /\ app'.file = app.file
                    /\ app'.form = app.file.settings
                    /\ app'.dropdown = app.file.source
  BY DEF RestartsFromFile
<1>1. PICK disk \in Disks : Start(disk)
  BY DEF Next, StartCrashes, InitializeCameraController, OnSave, OnSiyiDefaultClicked,
         OnVideoSourceChanged, Handler, EditForm, Quit, Running
<1> DEFINE p == PopulateConfigFields(app, disk)
<1> DEFINE v == OpenVideo(p, disk)
<1>2. /\ app' = CreateCameraControllerFromConfig(v, disk)
      /\ app \in Apps /\ app.form = NoSettings /\ app.dropdown = "siyi"
  BY <1>1 DEF Start, IInv, TypeOK, OffIsEmpty
<1>3. /\ p \in Apps /\ p.file = app.file /\ p.dropdown = app.file.source
      /\ p.form = app.file.settings
  BY <1>2, PopulateFacts
<1> HIDE DEF p
<1>4. p.file # Missing /\ ~IsOld(p.file)
  BY <1>3, OtherFiles, NewIsNotOld
<1>5. v \in Apps /\ SameInput(v, p) /\ Shown(v) /\ v.file = p.file
  BY <1>3, <1>4, OpenVideoFacts
<1> HIDE DEF v
<1>6. SameInput(app', v) /\ app'.file = v.file
  BY <1>2, <1>4, <1>5, CreateControllerFacts
<1> QED
  BY <1>3, <1>5, <1>6 DEF SameInput

\* The settings of a camera survive whatever is pressed, and the program that
\* is started anew shows all that was saved.
THEOREM SettingsAlwaysSurvive == Spec => SettingsSurvive
<1>1. IInv /\ [Next]_vars => [KeepsShown /\ RestartsFromFile]_vars
  BY StepKeepsShown, StepRestarts
<1> QED
  BY <1>1, Invariance, PTL DEF Spec, SettingsSurvive
=============================================================================
