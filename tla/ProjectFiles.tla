---------------------------- MODULE ProjectFiles ----------------------------
(***************************************************************************)
(* The files of a project's .agents-safe directory, the `agents-safe init` *)
(* processes that create them (internal/launcher/projectenv/init.go), the  *)
(* user who edits them, and a launch that reads them                       *)
(* (internal/launcher/project_config.go, projectenv/config.go). Several    *)
(* processes may run at once, and any of them may be cut off.              *)
(*                                                                         *)
(* A configuration is a function from keys to values. `image` stands for   *)
(* the portable keys, `mounts` and `caches` for the lists of host paths.   *)
(***************************************************************************)
EXTENDS Naturals, Sequences, FiniteSets, TLC

CONSTANTS
  Initializer,   \* `agents-safe init` processes
  Available,     \* the caches the host offers, in the order of their kinds
  Clashing,      \* the sets of caches that the mount plan refuses together
  Checkouts,     \* what the directory may hold at first: file states by name
  CommonEdits,   \* what a user may write to common.toml
  ConfigEdits,   \* and to config.toml
  MaxEdits       \* bound on the edits

ASSUME MaxEditsAssumption == MaxEdits \in Nat

\* A cache is offered once: there is one of each kind.
ASSUME AvailableAssumption ==
  /\ Available \in Seq({Available[i] : i \in DOMAIN Available})
  /\ \A i, j \in DOMAIN Available : Available[i] = Available[j] => i = j

Resources == <<"Dockerfile.sample", "common.toml", "config.toml", ".gitignore">>
File == {Resources[i] : i \in DOMAIN Resources}

VARIABLES
  directory,  \* .agents-safe: absent, a directory, or other
  files,      \* the state of each file
  at,         \* where each init process is
  index,      \* the resource it is creating
  content,    \* what it has encoded for the two configuration files
  launch,     \* where the launch is
  resolved,     \* what it has resolved so far: at most one configuration
  disturbed,  \* history: it met an unwritten or vanished file, or an edit
  expected,   \* history: what the user's own files and the defaults mean
  edits,      \* how many edits there were
  faulty      \* history: an init was cut off or failed, or a file deleted

fileVars == <<directory, files>>
initVars == <<at, index, content>>
launchVars == <<launch, resolved, disturbed>>
historyVars == <<expected, edits, faulty>>
projectVars == <<fileVars, initVars, launchVars, historyVars>>

Absent == [kind |-> "absent", keys |-> <<>>]
Other == [kind |-> "other", keys |-> <<>>]
Regular(keys) == [kind |-> "file", keys |-> keys]

\* What the user has is no regular file, or has some setting.
Settings(file) == file = Regular(file.keys) /\ file.keys # <<>>
ASSUME UsersFilesAssumption ==
  /\ \A checkout \in Checkouts : \A f \in DOMAIN checkout :
       checkout[f] = Other \/ Settings(checkout[f])
  /\ \A file \in CommonEdits \cup ConfigEdits :
       file = Absent \/ Settings(file)

\* Created and not written: to the decoder a file without any setting.
Hollow(name) == files[name] = Regular(<<>>)

-----------------------------------------------------------------------------
(* Configurations.                                                         *)

Portable == {"image"}
hostCommonKeys == {"mounts", "caches"}
Keys == Portable \cup hostCommonKeys

PlainDefaults == [image |-> "default", mounts |-> "default", caches |-> <<>>]

\* validateMount and the rest of Validate, as far as the values here go.
Validate(c) ==
  /\ c.image # ""
  /\ \A i, j \in DOMAIN c.caches : c.caches[i] = c.caches[j] => i = j

\* launchplan.ResolveWithHostHome as the validator of a proposed cache list.
Plannable(caches) ==
  \A clash \in Clashing : ~(clash \subseteq {caches[i] : i \in DOMAIN caches})

\* Automatic selection drops a cache that is refused beside the ones before.
Kept[n \in 0..Len(Available)] ==
  IF n = 0 THEN <<>>
  ELSE LET proposed == Append(Kept[n - 1], Available[n])
       IN  IF Plannable(proposed) THEN proposed ELSE Kept[n - 1]
HostCaches == Kept[Len(Available)]

GenerateDefaultConfig == [PlainDefaults EXCEPT !.caches = HostCaches]

Restricted(c, keys) == [k \in keys |-> c[k]]
EncodeCommon(c) == Restricted(c, Portable)

\* Mutant: config.toml gets every setting.
EncodeAll(c) == c

\* The lists of host paths only, so that config.toml shadows nothing. The
\* encoder leaves out a list that is nil.
EncodeLocal(c) ==
  Restricted(c, IF c.caches = <<>> THEN {"mounts"} ELSE hostCommonKeys)

\* A key that is present replaces the whole value.
ApplyOverlay(keys, c) ==
  [k \in Keys |-> IF k \in DOMAIN keys THEN keys[k] ELSE c[k]]

\* decodeLayer: an unknown key, a host list in the portable file and an
\* invalid result are refused.
DecodeLayer(file, portable, c) ==
  LET overlaid == ApplyOverlay(file.keys, c)
  IN  CASE file.kind = "absent" -> {c}
        [] file.kind = "other"  -> {}
        [] OTHER ->
             IF /\ DOMAIN file.keys \subseteq Keys
                /\ portable => DOMAIN file.keys \cap hostCommonKeys = {}
                /\ Validate(overlaid)
             THEN {overlaid} ELSE {}

\* The whole of ResolveProjectConfig on files nobody touches.
Contract(common, local) ==
  LET base == IF local.kind = "absent" THEN GenerateDefaultConfig
              ELSE PlainDefaults
  IN  IF local.kind = "other" THEN {}
      ELSE UNION {DecodeLayer(local, FALSE, c) :
                    c \in DecodeLayer(common, TRUE, base)}

-----------------------------------------------------------------------------

\* A symlink in place of the directory, or a file, makes locateConfigFile
\* refuse every file, as an irregular entry of that name would.
ProjectInit ==
  /\ \/ \E checkout \in Checkouts :
          /\ files = [f \in File |-> IF f \in DOMAIN checkout THEN checkout[f]
                                     ELSE Absent]
          /\ directory = IF checkout = <<>> THEN "absent" ELSE "directory"
     \/ directory = "other" /\ files = [f \in File |-> Other]
  /\ at = [p \in Initializer |-> "inspect"]
  /\ index = [p \in Initializer |-> 1]
  /\ content = [p \in Initializer |-> [f \in File |-> <<>>]]
  /\ launch = "idle" /\ resolved = {} /\ disturbed = FALSE
  /\ expected = Contract(files["common.toml"], files["config.toml"])
  /\ edits = 0 /\ faulty = FALSE

-----------------------------------------------------------------------------
(* agents-safe init: InitializeLazy.                                       *)

Step(p, state) == at' = [at EXCEPT ![p] = state]
InitFails(p) == Step(p, "failed") /\ faulty' = TRUE

InspectContextDirectory(p) ==
  /\ at[p] = "inspect"
  /\ CASE directory = "absent"    -> Step(p, "mkdir") /\ UNCHANGED faulty
       [] directory = "directory" -> Step(p, "common.toml") /\ UNCHANGED faulty
       [] OTHER                   -> InitFails(p)
  /\ UNCHANGED <<fileVars, index, content, launchVars, expected, edits>>

\* os.Mkdir fails when another process was faster.
Mkdir(p) ==
  /\ at[p] = "mkdir"
  /\ IF directory = "absent"
       THEN /\ directory' = "directory"
            /\ Step(p, "common.toml") /\ UNCHANGED faulty
       ELSE InitFails(p) /\ UNCHANGED directory
  /\ UNCHANGED <<files, index, content, launchVars, expected, edits>>

Encoded(name) ==
  IF name = "common.toml" THEN EncodeCommon(PlainDefaults)
  ELSE EncodeLocal(GenerateDefaultConfig)
AfterEncoding(name) ==
  IF name = "common.toml" THEN "config.toml" ELSE "check"

\* Mutant: only a directory without any file is filled.
EncodeIfEmpty(p) ==
  \E name \in {"common.toml", "config.toml"} :
    /\ at[p] = name
    /\ content' = [content EXCEPT ![p][name] =
                     IF \A f \in File : files[f] = Absent
                     THEN Encoded(name) ELSE <<>>]
    /\ Step(p, AfterEncoding(name))
    /\ UNCHANGED <<fileVars, index, launchVars, historyVars>>

\* A file that exists has nothing encoded for it, and is not looked at again
\* before it would be created.
EncodeIfMissing(p) ==
  \E name \in {"common.toml", "config.toml"} :
    /\ at[p] = name
    /\ IF files[name].kind = "other"
         THEN InitFails(p) /\ UNCHANGED content
         ELSE /\ content' = [content EXCEPT ![p][name] =
                               IF files[name].kind = "absent"
                               THEN Encoded(name) ELSE <<>>]
              /\ Step(p, AfterEncoding(name)) /\ UNCHANGED faulty
    /\ UNCHANGED <<fileVars, index, launchVars, expected, edits>>

\* The content of the two files that hold no settings of a launch.
Text(p, name) ==
  IF name \in {"common.toml", "config.toml"} THEN content[p][name]
  ELSE [text |-> name]

NextResource(p) ==
  /\ index' = [index EXCEPT ![p] = @ + 1]
  /\ Step(p, IF index[p] = Len(Resources) THEN "done" ELSE "check")

CheckExisting(p) ==
  LET file == files[Resources[index[p]]]
  IN  /\ at[p] = "check"
      /\ CASE file.kind = "absent" -> /\ Step(p, "create")
                                     /\ UNCHANGED <<index, faulty>>
           [] file.kind = "file" -> NextResource(p) /\ UNCHANGED faulty
           [] OTHER -> InitFails(p) /\ UNCHANGED index
      /\ UNCHANGED <<fileVars, content, launchVars, expected, edits>>

\* O_CREATE|O_EXCL.
CreateExclusively(p) ==
  LET name == Resources[index[p]]
  IN  /\ at[p] = "create"
      /\ IF files[name].kind = "absent"
           THEN /\ files' = [files EXCEPT ![name] = Regular(<<>>)]
                /\ Step(p, "write") /\ UNCHANGED faulty
           ELSE InitFails(p) /\ UNCHANGED files
      /\ UNCHANGED <<directory, index, content, launchVars, expected, edits>>

WriteAndClose(p) ==
  LET name == Resources[index[p]]
  IN  /\ at[p] = "write"
      /\ files' = [files EXCEPT ![name] = Regular(Text(p, name))]
      /\ NextResource(p)
      /\ UNCHANGED <<directory, content, launchVars, historyVars>>

\* A write that fails takes the file away again.
WriteFails(p) ==
  /\ at[p] = "write"
  /\ files' = [files EXCEPT ![Resources[index[p]]] = Absent]
  /\ InitFails(p)
  /\ UNCHANGED <<directory, index, content, launchVars, expected, edits>>

CutOff(p) ==
  /\ at[p] \notin {"done", "failed"}
  /\ InitFails(p)
  /\ UNCHANGED <<fileVars, index, content, launchVars, expected, edits>>

-----------------------------------------------------------------------------
(* The user, who edits while no file is without content, and a launch.     *)

Edit ==
  \E name \in {"common.toml", "config.toml"} :
    \E file \in IF name = "common.toml" THEN CommonEdits ELSE ConfigEdits :
      /\ edits < MaxEdits /\ edits' = edits + 1
      /\ \A f \in File : ~Hollow(f)
      /\ directory # "other" /\ directory' = "directory"
      /\ files' = [files EXCEPT ![name] = file]
      /\ expected' = Contract(files'["common.toml"], files'["config.toml"])
      /\ disturbed' = TRUE
      /\ faulty' = (faulty \/ file = Absent)
      /\ UNCHANGED <<initVars, launch, resolved>>

\* ConfigFileExists chooses the base.
ChooseBase ==
  /\ launch = "idle"
  /\ launch' = "locate common.toml"
  /\ LET local == files["config.toml"]
     IN  resolved' = CASE local.kind = "absent" -> {GenerateDefaultConfig}
                       [] local.kind = "other"  -> {}
                       [] OTHER                 -> {PlainDefaults}
  /\ disturbed' = Hollow("config.toml")
  /\ UNCHANGED <<fileVars, initVars, historyVars>>

\* decodeLayer: locateConfigFile says whether there is a file to read. An
\* absent one leaves the configuration as it is, an irregular one is refused.
LocateLayer(name, reading, next) ==
  /\ IF files[name].kind = "file"
       THEN launch' = reading /\ UNCHANGED resolved
       ELSE launch' = next /\ resolved' = IF files[name].kind = "absent"
                                          THEN resolved ELSE {}
  /\ UNCHANGED <<fileVars, initVars, disturbed, historyVars>>

\* os.ReadFile, and the rest of decodeLayer. The file it located may have
\* been changed, or be gone.
ReadLayer(name, portable) ==
  /\ resolved' = IF files[name].kind = "absent" THEN {}
                 ELSE UNION {DecodeLayer(files[name], portable, c) :
                               c \in resolved}
  /\ disturbed' = (disturbed \/ Hollow(name) \/ files[name].kind = "absent")
  /\ UNCHANGED <<fileVars, initVars, historyVars>>

\* LoadLayers goes through one layer after the other.
LocateCommon ==
  /\ launch = "locate common.toml"
  /\ LocateLayer("common.toml", "read common.toml", "locate config.toml")
ReadCommon ==
  /\ launch = "read common.toml" /\ launch' = "locate config.toml"
  /\ ReadLayer("common.toml", TRUE)
LocateLocal ==
  /\ launch = "locate config.toml"
  /\ LocateLayer("config.toml", "read config.toml", "resolved")
ReadLocal ==
  /\ launch = "read config.toml" /\ launch' = "resolved"
  /\ ReadLayer("config.toml", FALSE)

LaunchAgain ==
  /\ launch = "resolved" /\ launch' = "idle"
  /\ resolved' = {} /\ disturbed' = FALSE
  /\ UNCHANGED <<fileVars, initVars, historyVars>>

-----------------------------------------------------------------------------

ProjectNext ==
  \/ \E p \in Initializer :
       \/ InspectContextDirectory(p) \/ Mkdir(p) \/ EncodeIfMissing(p)
       \/ CheckExisting(p) \/ CreateExclusively(p) \/ WriteAndClose(p)
       \/ WriteFails(p) \/ CutOff(p)
  \/ Edit \/ ChooseBase \/ LocateCommon \/ ReadCommon
  \/ LocateLocal \/ ReadLocal \/ LaunchAgain

ProjectSpec == ProjectInit /\ [][ProjectNext]_projectVars

-----------------------------------------------------------------------------
(* Properties.                                                             *)

\* A launch resolves the same contract before, during and after an
\* initialisation: what init writes adds nothing to what the user's own files
\* and the defaults mean. The exception is a launch that reads a file which was
\* created and not yet written, or was taken away again because the write
\* failed (launchcli.go:60-63, config.go:353-354).
LaunchIsUnaffected ==
  launch = "resolved" /\ ~disturbed =>
    resolved = expected

\* An init that reports success leaves every file with its content, or being
\* written by another init, as long as none was cut off or failed and no file
\* was deleted meanwhile (init.go:33-35, 93-113).
InitLeavesNoGap ==
  ~faulty => \A p \in Initializer : at[p] = "done" =>
    \A f \in File :
      /\ files[f].kind = "file"
      /\ Hollow(f) => \E q \in Initializer :
                        at[q] = "write" /\ Resources[index[q]] = f
=============================================================================
