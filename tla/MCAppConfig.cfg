SPECIFICATION Spec
CONSTANTS
  Hosts = {"192.168.1.7"}
INVARIANTS
  TypeOK
  WindowMatchesFile
  OldFilesAreMigrated
PROPERTIES
  SettingsSurvive
