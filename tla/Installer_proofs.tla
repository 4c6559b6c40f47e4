--------------------------- MODULE Installer_proofs ---------------------------
(***************************************************************************)
(* Theorems about Installer, for every list of files, every set of events, *)
(* hooks, servers and places, and every number of edits.  InstallerInv is  *)
(* inductive as it is: the contents that the running command has read and  *)
(* not written yet are part of the state that OneMeshGroup speaks of, and  *)
(* `overtaken' says when they are no longer those of the file.  Progress   *)
(* says, on top of it, what the stages of a command have done so far.      *)
(***************************************************************************)
EXTENDS Installer, TLAPS

InstallerInv == InstallerTypeOK /\ OneMeshGroup /\ UnrelatedKept

\* What a hook event of the user's keeps through an edit.
KeepsOwn(old, new) ==
  \A e \in Events : old.hooks[e].own \ Naming \subseteq new.hooks[e].own

-----------------------------------------------------------------------------
(* The four edits of settings.json and the two of .mcp.json.               *)

\* An entry to which the hook is added is still an entry, with one group if it
\* had at most one, and the user's hooks as they were (hooks.go:141-149).
LEMMA WithHookFacts ==
  ASSUME NEW entry \in EventEntry
  PROVE  /\ WithHook(entry) \in EventEntry
         /\ entry.mesh <= 1 => WithHook(entry).mesh <= 1
         /\ WithHook(entry).own = entry.own
<1>1. entry.mesh \in Nat
  BY DEF EventEntry
<1>2. CASE MentionsMesh(entry)
  BY <1>2 DEF WithHook
<1>3. CASE ~MentionsMesh(entry)
  <2>1. WithHook(entry) = [entry EXCEPT !.mesh = @ + 1]
    BY <1>3 DEF WithHook
  <2>2. ~(entry.mesh > 0)
    BY <1>3 DEF MentionsMesh
  <2>3. entry.mesh = 0
    BY <1>1, <2>2
  <2>4. WithHook(entry) = [entry EXCEPT !.mesh = 1]
    BY <2>1, <2>3
  <2> QED  BY <2>4 DEF EventEntry
<1> QED  BY <1>2, <1>3

\* An entry from which the hook is removed is still an entry, with no group of
\* claude-mesh and the hooks that do not name it (hooks.go, removeClaudeMeshEntries).
LEMMA WithoutHookFacts ==
  ASSUME NEW entry \in EventEntry
  PROVE  /\ WithoutHook(entry) \in EventEntry
         /\ WithoutHook(entry).mesh = 0
         /\ WithoutHook(entry).own = entry.own \ Naming
BY DEF WithoutHook, EventEntry

\* Adding the hooks keeps the type, at most one group of each event, and the
\* user's own hooks.
LEMMA PatchSettingsFacts ==
  ASSUME NEW c \in SettingsFile
  PROVE  /\ PatchSettings(c) \in SettingsFile
         /\ (\A e \in Events : c.hooks[e].mesh <= 1)
              => \A e \in Events : PatchSettings(c).hooks[e].mesh <= 1
         /\ KeepsOwn(c, PatchSettings(c))
<1>1. \A e \in Events : c.hooks[e] \in EventEntry
  BY DEF SettingsFile
<1>2. \A e \in Events : WithHook(c.hooks[e]) \in EventEntry
  BY <1>1, WithHookFacts
<1>3. PatchSettings(c) = [c EXCEPT !.hooks = [e \in Events |-> WithHook(c.hooks[e])]]
  BY DEF PatchSettings
<1>4. PatchSettings(c).hooks = [e \in Events |-> WithHook(c.hooks[e])]
  BY <1>3 DEF SettingsFile
<1>5. PatchSettings(c) \in SettingsFile
  BY <1>2, <1>3 DEF SettingsFile
<1>6. \A e \in Events : PatchSettings(c).hooks[e] = WithHook(c.hooks[e])
  BY <1>4
<1>7. (\A e \in Events : c.hooks[e].mesh <= 1)
         => \A e \in Events : PatchSettings(c).hooks[e].mesh <= 1
  BY <1>1, <1>6, WithHookFacts
<1>8. KeepsOwn(c, PatchSettings(c))
  BY <1>1, <1>6, WithHookFacts DEF KeepsOwn
<1> QED  BY <1>5, <1>7, <1>8

\* Removing the hooks does so too.
LEMMA RemoveHooksFacts ==
  ASSUME NEW c \in SettingsFile
  PROVE  /\ RemoveHooks(c) \in SettingsFile
         /\ \A e \in Events : RemoveHooks(c).hooks[e].mesh <= 1
         /\ KeepsOwn(c, RemoveHooks(c))
<1>1. \A e \in Events : c.hooks[e] \in EventEntry
  BY DEF SettingsFile
<1>2. \A e \in Events : WithoutHook(c.hooks[e]) \in EventEntry
  BY <1>1, WithoutHookFacts
<1>3. RemoveHooks(c) = [c EXCEPT !.hooks = [e \in Events |-> WithoutHook(c.hooks[e])]]
  BY DEF RemoveHooks
<1>4. RemoveHooks(c).hooks = [e \in Events |-> WithoutHook(c.hooks[e])]
  BY <1>3 DEF SettingsFile
<1>5. RemoveHooks(c) \in SettingsFile
  BY <1>2, <1>3 DEF SettingsFile
<1>6. \A e \in Events : RemoveHooks(c).hooks[e] = WithoutHook(c.hooks[e])
  BY <1>4
<1>7. \A e \in Events : RemoveHooks(c).hooks[e].mesh <= 1
  BY <1>1, <1>6, WithoutHookFacts
<1>8. KeepsOwn(c, RemoveHooks(c))
  BY <1>1, <1>6, WithoutHookFacts DEF KeepsOwn
<1> QED  BY <1>5, <1>7, <1>8

\* The two edits of the status line leave the hooks alone.
LEMMA LineFacts ==
  ASSUME NEW c \in SettingsFile
  PROVE  /\ PatchStatusLine(c) \in SettingsFile /\ PatchStatusLine(c).hooks = c.hooks
         /\ RemoveStatusLine(c) \in SettingsFile /\ RemoveStatusLine(c).hooks = c.hooks
<1>1. PatchStatusLine(c) \in SettingsFile /\ PatchStatusLine(c).hooks = c.hooks
  BY DEF SettingsFile, PatchStatusLine
<1>2. RemoveStatusLine(c) \in SettingsFile /\ RemoveStatusLine(c).hooks = c.hooks
  BY DEF SettingsFile, RemoveStatusLine
<1> QED  BY <1>1, <1>2

\* Every server that is a command is read and written back (mcp.go:12-20).
LEMMA DecodedFacts ==
  ASSUME NEW c \in McpFile
  PROVE  /\ Decoded(c) \in McpFile
         /\ \A s \in Servers : c.others[s] = "stdio" => Decoded(c).others[s] = "stdio"
<1>1. \A s \in Servers : c.others[s] \in Server
  BY DEF McpFile
<1>2. \A s \in Servers : (IF c.others[s] = "url" THEN "blank" ELSE c.others[s]) \in Server
  BY <1>1 DEF Server
<1>3. Decoded(c) =
        [c EXCEPT !.others =
           [s \in Servers |-> IF c.others[s] = "url" THEN "blank" ELSE c.others[s]]]
  BY DEF Decoded
<1>4. Decoded(c) \in McpFile
  BY <1>2, <1>3 DEF McpFile
<1>5. Decoded(c).others =
        [s \in Servers |-> IF c.others[s] = "url" THEN "blank" ELSE c.others[s]]
  BY <1>3 DEF McpFile
<1> QED  BY <1>4, <1>5

\* So it is by the two edits of the file.
LEMMA McpFacts ==
  ASSUME NEW c \in McpFile
  PROVE  /\ PatchMCP(c) \in McpFile /\ RemoveMCP(c) \in McpFile
         /\ \A s \in Servers : c.others[s] = "stdio" =>
              PatchMCP(c).others[s] = "stdio" /\ RemoveMCP(c).others[s] = "stdio"
<1>1. [Decoded(c) EXCEPT !.mesh = "stdio"] \in McpFile
      /\ [Decoded(c) EXCEPT !.mesh = "stdio"].others = Decoded(c).others
  BY DecodedFacts DEF McpFile
<1>2. RemoveMCP(c) \in McpFile /\ RemoveMCP(c).others = Decoded(c).others
  BY DecodedFacts DEF McpFile, RemoveMCP
<1>3. CASE c.mesh # "none"
  BY <1>2, <1>3, DecodedFacts DEF PatchMCP
<1>4. CASE c.mesh = "none"
  BY <1>1, <1>2, <1>4, DecodedFacts DEF PatchMCP
<1> QED  BY <1>3, <1>4

\* A file that does not exist is taken for an empty one.
LEMMA NewFiles ==
  NewSettings \in SettingsFile /\ NewMcp \in McpFile
  /\ \A e \in Events : NewSettings.hooks[e] = NoEntry
BY DEF NewSettings, NewMcp, NoEntry, EventEntry, SettingsFile, McpFile, Server

-----------------------------------------------------------------------------
(* The command.                                                            *)

\* The part of the type that speaks of the command.
CmdOK ==
  /\ DOMAIN cmd = {"op", "from", "stage", "file", "raw"} /\ cmd.from \in {"build", "stable"}
  /\ cmd.op \in {"none", "install", "uninstall"} /\ cmd.file \in 1 .. Len(Files)
  /\ cmd.stage \in {"hooks", "line"} => cmd.raw \in SettingsFiles \cup {NotRead}
  /\ cmd.stage = "mcp" => cmd.raw \in McpFiles \cup {NotRead}

\* There is a first file.
LEMMA FirstFile == 1 \in 1 .. Len(Files)
BY InstallerAssumption

\* Off is a command that has read nothing.
LEMMA OffFacts ==
  /\ DOMAIN Off = {"op", "from", "stage", "file", "raw"} /\ Off.raw = NotRead
  /\ Off.op = "none" /\ Off.from = "build" /\ Off.file \in 1 .. Len(Files)
BY FirstFile DEF Off

\* Whatever step it is done with, the command has read nothing of the next.
LEMMA FollowingFacts ==
  ASSUME CmdOK
  PROVE  /\ DOMAIN Following = {"op", "from", "stage", "file", "raw"} /\ Following.raw = NotRead
         /\ Following.op \in {"none", "install", "uninstall"}
         /\ Following.from \in {"build", "stable"}
         /\ Following.file \in 1 .. Len(Files)
<1>1. CASE cmd.stage \in {"copy", "remove"} /\ cmd.file < Len(Files)
  <2>1. Following = [cmd EXCEPT !.file = cmd.file + 1, !.raw = NotRead]
    BY <1>1 DEF Following
  <2>2. Len(Files) \in Nat
    BY InstallerAssumption
  <2>3. cmd.file + 1 \in 1 .. Len(Files)
    BY <1>1, <2>2 DEF CmdOK
  <2> QED  BY <2>1, <2>3 DEF CmdOK
<1>2. CASE ~(cmd.stage \in {"copy", "remove"} /\ cmd.file < Len(Files))
           /\ StageAfter(cmd.stage) = "done"
  BY <1>2, OffFacts DEF Following
<1>3. CASE ~(cmd.stage \in {"copy", "remove"} /\ cmd.file < Len(Files))
           /\ StageAfter(cmd.stage) # "done"
  <2>1. Following = [cmd EXCEPT !.stage = StageAfter(cmd.stage), !.raw = NotRead]
    BY <1>3 DEF Following
  <2> QED  BY <2>1 DEF CmdOK
<1> QED  BY <1>1, <1>2, <1>3

\* A command that has read nothing has read nothing of the wrong type, and no
\* contents with two groups.
LEMMA NothingRead ==
  ASSUME cmd'.raw = NotRead, DOMAIN cmd' = {"op", "from", "stage", "file", "raw"},
         cmd'.op \in {"none", "install", "uninstall"}, cmd'.from \in {"build", "stable"},
         cmd'.file \in 1 .. Len(Files)
  PROVE  /\ CmdOK'
         /\ (cmd.stage \in {"hooks", "line"} /\ cmd.raw # NotRead => OneGroup(cmd.raw))'
BY DEF CmdOK

\* StepDone keeps the two.
LEMMA StepDoneFacts ==
  ASSUME CmdOK, StepDone, outcome \in {"none", "clean", "installed", "uninstalled"}
  PROVE  /\ CmdOK'
         /\ (cmd.stage \in {"hooks", "line"} /\ cmd.raw # NotRead => OneGroup(cmd.raw))'
         /\ outcome' \in {"none", "clean", "installed", "uninstalled"}
<1>1. outcome' \in {"none", "clean", "installed", "uninstalled"}
  BY DEF StepDone
<1>2. cmd' = Following
  BY DEF StepDone
<1> QED  BY <1>1, <1>2, FollowingFacts, NothingRead

-----------------------------------------------------------------------------
(* InstallerInv, step by step.                                             *)

\* What the invariants say of the two files.
FilesOK ==
  /\ settings \in SettingsFiles /\ mcp \in [Places -> McpFiles] /\ at \in Places
  /\ OneGroup(settings) /\ UnrelatedKept

\* What the history variables and the disk have besides.
RestOK ==
  /\ files \in [FileNames -> {"absent", "partial", "whole"}]
  /\ edits \in 0 .. MaxEdits
  /\ plist \in BOOLEAN /\ loaded \in BOOLEAN /\ unheard \in BOOLEAN /\ overtaken \in BOOLEAN
  /\ wanted \in [own : [Events -> SUBSET Hooks], joined : [Events -> SUBSET Hooks],
                  line : BOOLEAN, others : [Places -> [Servers -> Server]]]

ReadOK ==
  /\ CmdOK
  /\ cmd.stage \in {"hooks", "line"} /\ cmd.raw # NotRead => OneGroup(cmd.raw)

OutcomeOK == outcome \in {"none", "clean", "installed", "uninstalled"}

\* The same conjuncts, grouped by what a step changes.
LEMMA Grouped == InstallerInv <=> FilesOK /\ RestOK /\ ReadOK /\ OutcomeOK
BY DEF InstallerInv, InstallerTypeOK, OneMeshGroup, FilesOK, RestOK, ReadOK, OutcomeOK, CmdOK

\* The contents at the place of the command, and a step that replaces them.
LEMMA AtHere ==
  ASSUME FilesOK
  PROVE  /\ Here \in McpFiles
         /\ \A new : mcp' = [mcp EXCEPT ![at] = new] /\ at' = at =>
              /\ Here' = new
              /\ \A d \in Places : mcp'[d] = IF d = at THEN new ELSE mcp[d]
              /\ new \in McpFiles => mcp' \in [Places -> McpFiles]
BY DEF FilesOK, Here

\* A step that leaves the files and the history of them alone, be it the start of
\* a command somewhere else.
LEMMA SameFiles ==
  ASSUME FilesOK, UNCHANGED <<settings, mcp, wanted, overtaken>>, at' \in Places
  PROVE  FilesOK'
BY DEF FilesOK, OneGroup, UnrelatedKept

\* StepDone, in terms of the groups.
LEMMA StepDoneGroups ==
  ASSUME ReadOK, OutcomeOK, StepDone
  PROVE  ReadOK' /\ OutcomeOK'
BY StepDoneFacts DEF ReadOK, OutcomeOK

\* A command that has not read its file, in terms of the groups.
LEMMA NothingReadGroup ==
  ASSUME cmd'.raw = NotRead, DOMAIN cmd' = {"op", "from", "stage", "file", "raw"},
         cmd'.op \in {"none", "install", "uninstall"}, cmd'.from \in {"build", "stable"},
         cmd'.file \in 1 .. Len(Files)
  PROVE  ReadOK'
BY NothingRead DEF ReadOK

\* The rename of an edit of settings.json: no conjunct is broken by contents that
\* are of the type, have at most one group if those that were read had, and keep
\* the user's own hooks; overtaken says whether what was read was still there.
LEMMA WriteSettingsKeeps ==
  ASSUME FilesOK, RestOK, ReadOK, OutcomeOK, NEW stage \in {"hooks", "line"}, NEW contents,
         WriteSettings(stage, contents), contents \in SettingsFile, OneGroup(contents),
         KeepsOwn(OrNew(cmd.raw, NewSettings), contents)
  PROVE  FilesOK' /\ RestOK' /\ ReadOK' /\ OutcomeOK'
<1>1. ReadOK' /\ OutcomeOK'
  BY StepDoneGroups DEF WriteSettings
<1>2. /\ settings' = contents /\ mcp' = mcp /\ at' = at
      /\ overtaken' = (overtaken \/ settings # cmd.raw)
  BY DEF WriteSettings
<1>3. wanted'.own = wanted.own /\ wanted'.others = wanted.others
      /\ wanted' \in [own : [Events -> SUBSET Hooks], joined : [Events -> SUBSET Hooks],
                      line : BOOLEAN, others : [Places -> [Servers -> Server]]]
  BY DEF WriteSettings, RestOK
<1>4. RestOK'
  BY <1>2, <1>3 DEF WriteSettings, RestOK, agentVars
<1>5. settings' # NoFile
  BY <1>2, InstallerAssumption
<1>6. ASSUME ~overtaken', NEW e \in Events, wanted'.own[e] \ Naming # {}
      PROVE  wanted'.own[e] \ Naming \subseteq settings'.hooks[e].own
  <2>1. ~overtaken /\ settings = cmd.raw
    BY <1>2, <1>6
  <2>2. settings # NoFile /\ wanted.own[e] \ Naming \subseteq settings.hooks[e].own
    BY <1>3, <1>6, <2>1 DEF FilesOK, UnrelatedKept
  <2>3. OrNew(cmd.raw, NewSettings) = settings
    BY <2>1, <2>2 DEF OrNew
  <2> QED  BY <1>2, <1>3, <2>2, <2>3 DEF KeepsOwn
<1>7. ASSUME ~overtaken', NEW d \in Places, NEW s \in Servers, wanted'.others[d][s] = "stdio"
      PROVE  mcp'[d] # NoFile /\ mcp'[d].others[s] = "stdio"
  <2>1. ~overtaken /\ wanted.others[d][s] = "stdio"
    BY <1>2, <1>3, <1>7
  <2> QED  BY <1>2, <2>1 DEF FilesOK, UnrelatedKept
<1>8. UnrelatedKept'
  BY <1>5, <1>6, <1>7 DEF UnrelatedKept
<1> QED  BY <1>1, <1>2, <1>4, <1>8 DEF FilesOK, SettingsFiles, OneGroup

\* What an edit of settings.json starts from.
LEMMA WhatWasRead ==
  ASSUME ReadOK, NEW stage \in {"hooks", "line"}, HasRead(stage)
  PROVE  /\ OrNew(cmd.raw, NewSettings) \in SettingsFile
         /\ \A e \in Events : OrNew(cmd.raw, NewSettings).hooks[e].mesh <= 1
<1>1. cmd.raw \in SettingsFile \cup {NoFile} /\ OneGroup(cmd.raw)
  BY DEF ReadOK, CmdOK, HasRead, SettingsFiles
<1>2. CASE cmd.raw = NoFile
  BY <1>2, NewFiles DEF OrNew, NoEntry
<1>3. CASE cmd.raw # NoFile
  BY <1>1, <1>3 DEF OrNew, OneGroup
<1> QED  BY <1>2, <1>3

\* The edits of the hooks keep every conjunct (hooks.go).
LEMMA EditHooksKeeps ==
  ASSUME FilesOK, RestOK, ReadOK, OutcomeOK, EditHooks
  PROVE  FilesOK' /\ RestOK' /\ ReadOK' /\ OutcomeOK'
<1> DEFINE c == OrNew(cmd.raw, NewSettings)
           new == IF cmd.op = "install" THEN PatchSettings(c) ELSE RemoveHooks(c)
<1>1. WriteSettings("hooks", new)
  BY DEF EditHooks
<1>2. c \in SettingsFile /\ \A e \in Events : c.hooks[e].mesh <= 1
  BY <1>1, WhatWasRead DEF WriteSettings
<1> HIDE DEF c
<1>3. new \in SettingsFile /\ (\A e \in Events : new.hooks[e].mesh <= 1) /\ KeepsOwn(c, new)
  BY <1>2, PatchSettingsFacts, RemoveHooksFacts
<1> HIDE DEF new
<1>4. OneGroup(new)
  BY <1>3 DEF OneGroup
<1> QED  BY <1>1, <1>3, <1>4, WriteSettingsKeeps DEF c

\* So do those of the status line (statusline.go).
LEMMA EditLineKeeps ==
  ASSUME FilesOK, RestOK, ReadOK, OutcomeOK, EditLine
  PROVE  FilesOK' /\ RestOK' /\ ReadOK' /\ OutcomeOK'
<1> DEFINE c == OrNew(cmd.raw, NewSettings)
           new == IF cmd.op = "install" THEN PatchStatusLine(c) ELSE RemoveStatusLine(c)
<1>1. WriteSettings("line", new)
  BY DEF EditLine
<1>2. c \in SettingsFile /\ \A e \in Events : c.hooks[e].mesh <= 1
  BY <1>1, WhatWasRead DEF WriteSettings
<1> HIDE DEF c
<1>3. new \in SettingsFile /\ new.hooks = c.hooks
  BY <1>2, LineFacts
<1> HIDE DEF new
<1>4. OneGroup(new) /\ KeepsOwn(c, new)
  BY <1>2, <1>3 DEF OneGroup, KeepsOwn
<1> QED  BY <1>1, <1>3, <1>4, WriteSettingsKeeps DEF c

\* So do those of .mcp.json (mcp.go): command servers are written back.
LEMMA EditMcpKeeps ==
  ASSUME FilesOK, RestOK, ReadOK, OutcomeOK, EditMcp
  PROVE  FilesOK' /\ RestOK' /\ ReadOK' /\ OutcomeOK'
<1> DEFINE c == OrNew(cmd.raw, NewMcp)
           new == IF cmd.op = "install" THEN PatchMCP(c) ELSE RemoveMCP(c)
<1>1. /\ HasRead("mcp") /\ mcp' = [mcp EXCEPT ![at] = new] /\ StepDone
      /\ overtaken' = (overtaken \/ Here # cmd.raw)
      /\ UNCHANGED <<edits, files, settings, plist, loaded, unheard, at, wanted>>
  BY DEF EditMcp, agentVars
<1>2. cmd.raw \in McpFile \cup {NoFile}
  BY <1>1 DEF ReadOK, CmdOK, HasRead, McpFiles
<1>3. c \in McpFile /\ (cmd.raw # NoFile => c = cmd.raw)
  BY <1>2, NewFiles DEF OrNew
<1> HIDE DEF c
<1>4. new \in McpFile /\ \A s \in Servers : c.others[s] = "stdio" => new.others[s] = "stdio"
  BY <1>3, McpFacts
<1> HIDE DEF new
<1>5. ReadOK' /\ OutcomeOK'
  BY <1>1, StepDoneGroups
<1>6. RestOK'
  BY <1>1 DEF RestOK
<1>7. /\ \A d \in Places : mcp'[d] = IF d = at THEN new ELSE mcp[d]
      /\ mcp' \in [Places -> McpFiles]
  BY <1>1, <1>4, AtHere DEF McpFiles
<1>8. ASSUME ~overtaken', NEW d \in Places, NEW s \in Servers, wanted'.others[d][s] = "stdio"
      PROVE  mcp'[d] # NoFile /\ mcp'[d].others[s] = "stdio"
  <2>1. ~overtaken /\ Here = cmd.raw
    BY <1>1, <1>8
  <2>2. mcp[d] # NoFile /\ mcp[d].others[s] = "stdio"
    BY <1>1, <1>8, <2>1 DEF FilesOK, UnrelatedKept
  <2>3. new # NoFile
    BY <1>4, InstallerAssumption
  <2> QED  BY <1>3, <1>4, <1>7, <2>1, <2>2, <2>3 DEF Here
<1>9. UnrelatedKept'
  BY <1>1, <1>8 DEF FilesOK, UnrelatedKept
<1> QED  BY <1>1, <1>5, <1>6, <1>7, <1>9 DEF FilesOK, OneGroup

\* The steps of the command that write neither of the two files.
LEMMA OtherStepsKeep ==
  ASSUME FilesOK, RestOK, ReadOK, OutcomeOK,
         \/ \E op \in {"install", "uninstall"}, from \in {"build", "stable"}, dir \in Places :
              Run(op, from, dir)
         \/ CopyOpen \/ CopyWrite \/ RemoveFile \/ ReadFile \/ Skip \/ Launchd \/ Unload
         \/ Fail \/ Kill
  PROVE  FilesOK' /\ RestOK' /\ ReadOK' /\ OutcomeOK'
<1>1. FilesOK'
  <2>1. UNCHANGED <<settings, mcp, wanted, overtaken>>
    BY DEF Run, CopyOpen, CopyWrite, RemoveFile, ReadFile, Skip, Launchd, Unload, Fail, Kill,
       diskVars
  <2>2. at' \in Places
    BY DEF Run, CopyOpen, CopyWrite, RemoveFile, ReadFile, Skip, Launchd, Unload, Fail, Kill,
       FilesOK
  <2> QED  BY <2>1, <2>2, SameFiles
<1>2. ASSUME NEW op \in {"install", "uninstall"}, NEW from \in {"build", "stable"},
             NEW dir \in Places, Run(op, from, dir)
      PROVE  RestOK' /\ ReadOK' /\ OutcomeOK'
  <2>1. RestOK' /\ OutcomeOK'
    BY <1>2 DEF Run, diskVars, agentVars, RestOK, OutcomeOK
  <2>2. ReadOK'
    BY <1>2, FirstFile, NothingReadGroup DEF Run
  <2> QED  BY <2>1, <2>2
<1>3. ASSUME CopyOpen
      PROVE  RestOK' /\ ReadOK' /\ OutcomeOK'
  <2>1. RestOK' /\ OutcomeOK'
    BY <1>3 DEF CopyOpen, RestOK, OutcomeOK, agentVars
  <2>2. cmd' = [cmd EXCEPT !.raw = Opened] /\ cmd.stage = "copy"
    BY <1>3 DEF CopyOpen, InStage
  <2>3. /\ DOMAIN cmd' = DOMAIN cmd /\ cmd'.op = cmd.op /\ cmd'.file = cmd.file
        /\ cmd'.from = cmd.from
        /\ cmd'.stage = "copy"
    BY <2>2 DEF ReadOK, CmdOK
  <2>4. ReadOK'
    BY <2>3 DEF ReadOK, CmdOK
  <2> QED  BY <2>1, <2>4
<1>4. ASSUME CopyWrite \/ RemoveFile \/ Skip \/ Launchd \/ Unload
      PROVE  RestOK' /\ ReadOK' /\ OutcomeOK'
  <2>1. ReadOK' /\ OutcomeOK'
    BY <1>4, StepDoneGroups DEF CopyWrite, RemoveFile, Skip, Launchd, Unload
  <2>2. RestOK'
    <3>1. CASE CopyWrite \/ RemoveFile
      BY <3>1 DEF CopyWrite, RemoveFile, RestOK, agentVars
    <3>2. CASE Skip
      BY <3>2 DEF Skip, RestOK, diskVars, agentVars
    <3>3. CASE Launchd \/ Unload
      BY <3>3 DEF Launchd, Unload, RestOK
    <3> QED  BY <1>4, <3>1, <3>2, <3>3
  <2> QED  BY <2>1, <2>2
<1>5. ASSUME ReadFile
      PROVE  RestOK' /\ ReadOK' /\ OutcomeOK'
  <2>1. RestOK' /\ OutcomeOK'
    BY <1>5 DEF ReadFile, RestOK, OutcomeOK, diskVars, agentVars
  <2>2. cmd' = [cmd EXCEPT !.raw = IF cmd.stage = "mcp" THEN Here ELSE settings]
        /\ cmd.stage \in {"hooks", "line", "mcp"}
    BY <1>5 DEF ReadFile
  <2>3. /\ DOMAIN cmd' = DOMAIN cmd /\ cmd'.op = cmd.op /\ cmd'.file = cmd.file
        /\ cmd'.from = cmd.from
        /\ cmd'.stage = cmd.stage
        /\ cmd'.raw = IF cmd.stage = "mcp" THEN Here ELSE settings
    BY <2>2 DEF ReadOK, CmdOK
  <2>4. ReadOK'
    BY <2>2, <2>3, AtHere DEF ReadOK, CmdOK, FilesOK
  <2> QED  BY <2>1, <2>4
<1>6. ASSUME Fail \/ Kill
      PROVE  RestOK' /\ ReadOK' /\ OutcomeOK'
  <2>1. RestOK' /\ OutcomeOK'
    BY <1>6 DEF Fail, Kill, RestOK, OutcomeOK, diskVars, agentVars
  <2>2. cmd' = Off \/ cmd' = Following
    BY <1>6 DEF Fail, Kill
  <2>3. ReadOK'
    BY <2>2, OffFacts, FollowingFacts, NothingReadGroup DEF ReadOK
  <2> QED  BY <2>1, <2>3
<1> QED  BY <1>1, <1>2, <1>3, <1>4, <1>5, <1>6

\* The user's edits leave the command alone.
LEMMA UserLeavesCommand ==
  ASSUME ReadOK, OutcomeOK, UserStep
  PROVE  ReadOK' /\ OutcomeOK'
<1>1. cmd' = cmd /\ outcome' = outcome
  BY DEF UserStep, TakeLine, BreakOrRepair, AddHook, JoinHook, AddServer, UserEdits
<1> QED  BY <1>1 DEF ReadOK, CmdOK, OutcomeOK, OneGroup

\* The rest of the disk, in a step of the user's.
LEMMA UserEditsRest ==
  ASSUME RestOK, UserEdits,
         wanted' \in [own : [Events -> SUBSET Hooks], joined : [Events -> SUBSET Hooks],
                      line : BOOLEAN, others : [Places -> [Servers -> Server]]]
  PROVE  RestOK' /\ UNCHANGED <<overtaken, at>>
<1>1. MaxEdits \in Nat
  BY InstallerAssumption
<1>2. edits' \in 0 .. MaxEdits
  BY <1>1 DEF RestOK, UserEdits
<1> QED  BY <1>2 DEF RestOK, UserEdits, agentVars

\* What an edit of the user's may do to settings.json.
LEMMA SettingsEdited ==
  ASSUME FilesOK, UNCHANGED <<mcp, at, overtaken>>, wanted'.others = wanted.others,
         settings' \in SettingsFile, OneGroup(settings)',
         \A e \in Events : wanted'.own[e] \ Naming # {} =>
           \/ wanted'.own[e] \ Naming \subseteq settings'.hooks[e].own
           \/ /\ wanted'.own[e] = wanted.own[e]
              /\ settings # NoFile => settings.hooks[e].own \subseteq settings'.hooks[e].own
  PROVE  FilesOK'
<1>1. settings' # NoFile
  BY InstallerAssumption
<1>2. UnrelatedKept'
  BY <1>1 DEF FilesOK, UnrelatedKept
<1> QED  BY <1>2 DEF FilesOK, SettingsFiles

\* The user adds a hook in a group of its own.
LEMMA AddHookKeeps ==
  ASSUME FilesOK, RestOK, NEW e \in Events, NEW h \in Hooks, AddHook(e, h)
  PROVE  FilesOK' /\ RestOK'
<1> DEFINE c == OrNew(settings, NewSettings)
           old == c.hooks[e]
           entry == [old EXCEPT !.own = old.own \cup {h}]
<1>1. /\ settings' = [c EXCEPT !.hooks = [c.hooks EXCEPT ![e] = entry]]
      /\ wanted' = [wanted EXCEPT !.own = [wanted.own EXCEPT ![e] = wanted.own[e] \cup {h}]]
      /\ UserEdits /\ UNCHANGED mcp
  BY DEF AddHook
<1>2. c \in SettingsFile /\ (settings # NoFile => c = settings)
      /\ \A f \in Events : c.hooks[f].mesh <= 1
  BY NewFiles DEF FilesOK, SettingsFiles, OrNew, OneGroup, NoEntry
<1> HIDE DEF c
<1>3. \A f \in Events : c.hooks[f] \in EventEntry
  BY <1>2 DEF SettingsFile
<1>4. entry \in EventEntry /\ entry.mesh = old.mesh /\ entry.own = old.own \cup {h}
  BY <1>3 DEF EventEntry
<1> HIDE DEF entry
<1>5. c.hooks \in [Events -> EventEntry]
  BY <1>2 DEF SettingsFile
<1>6. settings' \in SettingsFile /\ settings'.hooks = [c.hooks EXCEPT ![e] = entry]
  BY <1>1, <1>2, <1>4, <1>5 DEF SettingsFile
<1>7. \A f \in Events : settings'.hooks[f] = IF f = e THEN entry ELSE c.hooks[f]
  BY <1>5, <1>6
<1>8. /\ wanted.own \in [Events -> SUBSET Hooks]
      /\ wanted'.own = [wanted.own EXCEPT ![e] = wanted.own[e] \cup {h}]
      /\ wanted'.others = wanted.others
      /\ wanted' \in [own : [Events -> SUBSET Hooks], joined : [Events -> SUBSET Hooks],
                      line : BOOLEAN, others : [Places -> [Servers -> Server]]]
  BY <1>1 DEF RestOK
<1>9. RestOK' /\ UNCHANGED <<overtaken, at>>
  BY <1>1, <1>8, UserEditsRest
<1>10. OneGroup(settings)'
  BY <1>2, <1>4, <1>7 DEF OneGroup
<1>11. ASSUME overtaken = FALSE, NEW f \in Events, wanted'.own[f] \ Naming # {}
       PROVE  settings' # NoFile /\ wanted'.own[f] \ Naming \subseteq settings'.hooks[f].own
  <2>1. wanted.own[f] \ Naming \subseteq c.hooks[f].own
    BY <1>2, <1>11 DEF FilesOK, UnrelatedKept
  <2>2. CASE f = e
    BY <1>4, <1>6, <1>7, <1>8, <2>1, <2>2, InstallerAssumption
  <2>3. CASE f # e
    BY <1>6, <1>7, <1>8, <2>1, <2>3, InstallerAssumption
  <2> QED  BY <2>2, <2>3
<1>12. UnrelatedKept'
  BY <1>1, <1>8, <1>9, <1>11 DEF FilesOK, RestOK, UnrelatedKept
<1> QED  BY <1>1, <1>6, <1>9, <1>10, <1>12 DEF FilesOK, SettingsFiles

\* The user adds a hook to the group of claude-mesh.
LEMMA JoinHookKeeps ==
  ASSUME FilesOK, RestOK, NEW e \in Events, NEW h \in Hooks, JoinHook(e, h)
  PROVE  FilesOK' /\ RestOK'
<1> DEFINE old == settings.hooks[e]
           entry == [old EXCEPT !.joined = old.joined \cup {h}]
<1>1. /\ settings' = [settings EXCEPT !.hooks = [settings.hooks EXCEPT ![e] = entry]]
      /\ wanted' = [wanted EXCEPT !.joined =
                      [wanted.joined EXCEPT ![e] = wanted.joined[e] \cup {h}]]
      /\ settings # NoFile /\ UserEdits /\ UNCHANGED mcp
  BY DEF JoinHook
<1>2. settings \in SettingsFile /\ settings.hooks \in [Events -> EventEntry]
      /\ \A f \in Events : settings.hooks[f].mesh <= 1
  BY <1>1 DEF FilesOK, SettingsFiles, SettingsFile, OneGroup
<1>3. entry \in EventEntry /\ entry.mesh = old.mesh /\ entry.own = old.own
  BY <1>2 DEF EventEntry
<1> HIDE DEF entry
<1>4. settings' \in SettingsFile /\ settings'.hooks = [settings.hooks EXCEPT ![e] = entry]
  BY <1>1, <1>2, <1>3 DEF SettingsFile
<1>5. \A f \in Events : settings'.hooks[f].mesh = settings.hooks[f].mesh
                        /\ settings'.hooks[f].own = settings.hooks[f].own
  BY <1>2, <1>3, <1>4
<1>6. /\ wanted'.own = wanted.own /\ wanted'.others = wanted.others
      /\ wanted' \in [own : [Events -> SUBSET Hooks], joined : [Events -> SUBSET Hooks],
                      line : BOOLEAN, others : [Places -> [Servers -> Server]]]
  BY <1>1 DEF RestOK
<1>7. RestOK' /\ UNCHANGED <<overtaken, at>>
  BY <1>1, <1>6, UserEditsRest
<1>8. OneGroup(settings)'
  BY <1>2, <1>5 DEF OneGroup
<1> QED  BY <1>1, <1>4, <1>5, <1>6, <1>7, <1>8, SettingsEdited

\* The user takes the status line.
LEMMA TakeLineKeeps ==
  ASSUME FilesOK, RestOK, TakeLine
  PROVE  FilesOK' /\ RestOK'
<1> DEFINE c == OrNew(settings, NewSettings)
<1>1. /\ settings' = [c EXCEPT !.line = "other"]
      /\ wanted' = [wanted EXCEPT !.line = TRUE]
      /\ UserEdits /\ UNCHANGED mcp
  BY DEF TakeLine
<1>2. c \in SettingsFile /\ (settings # NoFile => c = settings)
      /\ \A f \in Events : c.hooks[f].mesh <= 1
  BY NewFiles DEF FilesOK, SettingsFiles, OrNew, OneGroup, NoEntry
<1> HIDE DEF c
<1>3. settings' \in SettingsFile /\ settings'.hooks = c.hooks
  BY <1>1, <1>2 DEF SettingsFile
<1>4. /\ wanted'.own = wanted.own /\ wanted'.others = wanted.others
      /\ wanted' \in [own : [Events -> SUBSET Hooks], joined : [Events -> SUBSET Hooks],
                      line : BOOLEAN, others : [Places -> [Servers -> Server]]]
  BY <1>1 DEF RestOK
<1>5. RestOK' /\ UNCHANGED <<overtaken, at>>
  BY <1>1, <1>4, UserEditsRest
<1>6. OneGroup(settings)'
  BY <1>2, <1>3 DEF OneGroup
<1> QED  BY <1>1, <1>2, <1>3, <1>4, <1>5, <1>6, SettingsEdited

\* The user registers an MCP server.
LEMMA AddServerKeeps ==
  ASSUME FilesOK, RestOK, NEW d \in Places, NEW s \in Servers, NEW kind \in Server,
         AddServer(d, s, kind)
  PROVE  FilesOK' /\ RestOK'
<1> DEFINE c == OrNew(mcp[d], NewMcp)
           new == [c EXCEPT !.others = [c.others EXCEPT ![s] = kind]]
           mine == [wanted.others[d] EXCEPT ![s] = kind]
<1>1. /\ mcp' = [mcp EXCEPT ![d] = new]
      /\ wanted' = [wanted EXCEPT !.others = [wanted.others EXCEPT ![d] = mine]]
      /\ UserEdits /\ UNCHANGED settings
  BY DEF AddServer
<1>2. c \in McpFile /\ (mcp[d] # NoFile => c = mcp[d]) /\ c.others \in [Servers -> Server]
  BY NewFiles DEF FilesOK, McpFiles, OrNew, McpFile
<1> HIDE DEF c
<1>3. new \in McpFile /\ new.others = [c.others EXCEPT ![s] = kind]
  BY <1>2 DEF McpFile
<1> HIDE DEF new
<1>4. /\ mcp' \in [Places -> McpFiles]
      /\ \A p \in Places : mcp'[p] = IF p = d THEN new ELSE mcp[p]
  BY <1>1, <1>3 DEF FilesOK, McpFiles
<1>5. wanted.others \in [Places -> [Servers -> Server]] /\ mine \in [Servers -> Server]
  BY DEF RestOK
<1>6. \A t \in Servers : mine[t] = IF t = s THEN kind ELSE wanted.others[d][t]
  BY <1>5
<1> HIDE DEF mine
<1>7. /\ wanted'.own = wanted.own
      /\ \A p \in Places : wanted'.others[p] = IF p = d THEN mine ELSE wanted.others[p]
      /\ wanted' \in [own : [Events -> SUBSET Hooks], joined : [Events -> SUBSET Hooks],
                      line : BOOLEAN, others : [Places -> [Servers -> Server]]]
  BY <1>1, <1>5 DEF RestOK
<1>8. RestOK' /\ UNCHANGED <<overtaken, at>>
  BY <1>1, <1>7, UserEditsRest
<1>9. ASSUME ~overtaken', NEW p \in Places, NEW t \in Servers, wanted'.others[p][t] = "stdio"
      PROVE  mcp'[p] # NoFile /\ mcp'[p].others[t] = "stdio"
  <2>1. new # NoFile
    BY <1>3, InstallerAssumption
  <2>2. CASE p # d
    BY <1>4, <1>7, <1>8, <1>9, <2>2 DEF FilesOK, UnrelatedKept
  <2>3. CASE p = d /\ t = s
    <3>1. kind = "stdio"
      BY <1>6, <1>7, <1>9, <2>3
    <3> QED  BY <1>2, <1>3, <1>4, <2>1, <2>3, <3>1
  <2>4. CASE p = d /\ t # s
    <3>1. wanted.others[d][t] = "stdio"
      BY <1>6, <1>7, <1>9, <2>4
    <3>2. mcp[d] # NoFile /\ mcp[d].others[t] = "stdio"
      BY <1>8, <1>9, <3>1 DEF FilesOK, UnrelatedKept
    <3> QED  BY <1>2, <1>3, <1>4, <2>1, <2>4, <3>2
  <2> QED  BY <2>2, <2>3, <2>4
<1>10. UnrelatedKept'
  BY <1>1, <1>7, <1>8, <1>9 DEF FilesOK, UnrelatedKept
<1> QED  BY <1>1, <1>4, <1>8, <1>10 DEF FilesOK, SettingsFiles, OneGroup

\* The user breaks one of the files, or repairs it.
LEMMA BreakOrRepairKeeps ==
  ASSUME FilesOK, RestOK, BreakOrRepair
  PROVE  FilesOK' /\ RestOK'
<1>1. wanted' = wanted /\ UserEdits
  BY DEF BreakOrRepair
<1>2. RestOK' /\ UNCHANGED <<overtaken, at>>
  BY <1>1, UserEditsRest DEF RestOK
<1>3. CASE settings # NoFile /\ settings' = [settings EXCEPT !.json = ~@] /\ mcp' = mcp
  <2>1. settings \in SettingsFile
    BY <1>3 DEF FilesOK, SettingsFiles
  <2>2. settings' \in SettingsFile /\ settings'.hooks = settings.hooks
    BY <1>3, <2>1 DEF SettingsFile
  <2>3. OneGroup(settings)'
    BY <1>3, <2>2 DEF FilesOK, OneGroup
  <2> QED  BY <1>1, <1>2, <1>3, <2>2, <2>3, SettingsEdited
<1>4. ASSUME NEW d \in Places, mcp[d] # NoFile, mcp' = [mcp EXCEPT ![d].json = ~@],
             settings' = settings
      PROVE  FilesOK'
  <2> DEFINE new == [mcp[d] EXCEPT !.json = ~@]
  <2>1. mcp[d] \in McpFile
    BY <1>4 DEF FilesOK, McpFiles
  <2>2. new \in McpFile /\ new.others = mcp[d].others
    BY <2>1 DEF McpFile
  <2>3. new # NoFile
    BY <2>2, InstallerAssumption
  <2>4. mcp' = [mcp EXCEPT ![d] = new]
    BY <1>4
  <2> HIDE DEF new
  <2>5. /\ mcp' \in [Places -> McpFiles]
        /\ \A p \in Places : mcp'[p] = IF p = d THEN new ELSE mcp[p]
    BY <2>2, <2>4 DEF FilesOK, McpFiles
  <2>6. UnrelatedKept'
    BY <1>1, <1>2, <1>4, <2>2, <2>3, <2>5 DEF FilesOK, UnrelatedKept
  <2> QED  BY <1>2, <1>4, <2>5, <2>6 DEF FilesOK, SettingsFiles, OneGroup
<1> QED  BY <1>2, <1>3, <1>4 DEF BreakOrRepair

-----------------------------------------------------------------------------
(* The theorems.                                                           *)

\* InstallerInv holds of every fresh machine, with or without the two files.
LEMMA InstallerInitInv == InstallerInit => InstallerInv
<1> SUFFICES ASSUME InstallerInit PROVE InstallerInv
  OBVIOUS
<1>1. FilesOK
  <2>1. settings \in SettingsFiles /\ mcp \in [Places -> McpFiles] /\ at \in Places
    BY NewFiles DEF InstallerInit, SettingsFiles, McpFiles
  <2>2. OneGroup(settings)
    BY NewFiles DEF InstallerInit, OneGroup, NoEntry
  <2>3. \A e \in Events : wanted.own[e] = {}
    BY DEF InstallerInit
  <2>4. \A d \in Places, s \in Servers : wanted.others[d][s] # "stdio"
    BY DEF InstallerInit, NewMcp
  <2> QED  BY <2>1, <2>2, <2>3, <2>4 DEF FilesOK, UnrelatedKept
<1>2. RestOK
  <2>1. files \in [FileNames -> {"absent", "partial", "whole"}]
    BY DEF InstallerInit
  <2>2. edits \in 0 .. MaxEdits
    BY InstallerAssumption DEF InstallerInit
  <2>3. NewMcp.others \in [Servers -> Server]
    BY DEF NewMcp, Server
  <2>4. wanted \in [own : [Events -> SUBSET Hooks], joined : [Events -> SUBSET Hooks],
                    line : BOOLEAN, others : [Places -> [Servers -> Server]]]
    BY <2>3 DEF InstallerInit
  <2> QED  BY <2>1, <2>2, <2>4 DEF InstallerInit, RestOK
<1>3. ReadOK
  BY OffFacts DEF InstallerInit, ReadOK, CmdOK
<1>4. OutcomeOK
  BY DEF InstallerInit, OutcomeOK
<1> QED  BY <1>1, <1>2, <1>3, <1>4, Grouped

\* ... and is kept by every step.
LEMMA InstallerNextInv == InstallerInv /\ [InstallerNext]_installerVars => InstallerInv'
<1> SUFFICES ASSUME InstallerInv, [InstallerNext]_installerVars PROVE InstallerInv'
  OBVIOUS
<1> USE DEF CommandStep
<1>1. FilesOK /\ RestOK /\ ReadOK /\ OutcomeOK
  BY Grouped
<1>2. SUFFICES FilesOK' /\ RestOK' /\ ReadOK' /\ OutcomeOK'
  BY DEF InstallerInv, InstallerTypeOK, OneMeshGroup, FilesOK, RestOK, ReadOK, OutcomeOK, CmdOK
<1>3. CASE UNCHANGED installerVars
  BY <1>1, <1>3 DEF installerVars, diskVars, agentVars, FilesOK, RestOK, ReadOK, OutcomeOK,
     CmdOK, OneGroup, UnrelatedKept
<1>4. CASE EditHooks
  BY <1>1, <1>4, EditHooksKeeps
<1>5. CASE EditLine
  BY <1>1, <1>5, EditLineKeeps
<1>6. CASE EditMcp
  BY <1>1, <1>6, EditMcpKeeps
<1>7. CASE \/ \E op \in {"install", "uninstall"}, from \in {"build", "stable"}, dir \in Places :
                Run(op, from, dir)
           \/ CopyOpen \/ CopyWrite \/ RemoveFile \/ ReadFile \/ Skip \/ Launchd \/ Unload
           \/ Fail \/ Kill
  BY <1>1, <1>7, OtherStepsKeep
<1>8. CASE UserStep
  <2>1. ReadOK' /\ OutcomeOK'
    BY <1>1, <1>8, UserLeavesCommand
  <2>2. FilesOK' /\ RestOK'
    BY <1>1, <1>8, AddHookKeeps, JoinHookKeeps, TakeLineKeeps, AddServerKeeps,
       BreakOrRepairKeeps DEF UserStep
  <2> QED  BY <2>1, <2>2
<1> QED  BY <1>3, <1>4, <1>5, <1>6, <1>7, <1>8 DEF InstallerNext

\* So it holds for good.
LEMMA InstallerInvariant == InstallerSpec => []InstallerInv
BY InstallerInitInv, InstallerNextInv, PTL DEF InstallerSpec

\* The type invariant.
THEOREM InstallerTypes == InstallerSpec => []InstallerTypeOK
<1>1. InstallerInv => InstallerTypeOK
  BY DEF InstallerInv
<1> QED  BY <1>1, InstallerInvariant, PTL

\* No event ever has two groups of claude-mesh, whatever is run, killed and
\* edited in whatever order (hooks.go:141-149).
THEOREM NoSecondGroup == InstallerSpec => []OneMeshGroup
<1>1. InstallerInv => OneMeshGroup
  BY DEF InstallerInv
<1> QED  BY <1>1, InstallerInvariant, PTL

\* The user's own hooks and command servers are never lost, unless an edit is
\* overtaken by a rename (installer.go:167).
THEOREM UnrelatedNeverLost == InstallerSpec => []UnrelatedKept
<1>1. InstallerInv => UnrelatedKept
  BY DEF InstallerInv
<1> QED  BY <1>1, InstallerInvariant, PTL

-----------------------------------------------------------------------------
(* How far a command has come.  What a stage has done stays done until the *)
(* command ends: no later stage and no edit of the user's undoes it.       *)

HooksIn(c) == c # NoFile /\ \A e \in Events : MentionsMesh(c.hooks[e])
HooksOut(c) == c # NoFile => \A e \in Events : c.hooks[e].mesh = 0
LineIn == wanted.line \/ (settings # NoFile /\ settings.line = "mesh")
LineOut(c) == c # NoFile => c.line # "mesh"
McpIn == Here # NoFile /\ Here.mesh = "stdio"
McpOut == Here # NoFile => Here.mesh = "none"
AgentOut == loaded => unheard
Copied(i) == files[Files[i]] = "whole"
Removed(i) == files[Files[i]] = "absent"
Positions == 1 .. Len(Files)

\* A command has a stage of its own, and one that has ended has none.
CmdShape ==
  /\ cmd.op = "none" => cmd = Off
  /\ cmd.op = "install" => cmd.stage \in DOMAIN InstallAfter
  /\ cmd.op = "uninstall" => cmd.stage \in DOMAIN UninstallAfter
  /\ outcome = "clean" => cmd.op # "none"
  /\ outcome \in {"installed", "uninstalled"} => cmd.op = "none"

\* No step has failed, and the command is in one of these stages or has ended.
Reached(op, end, later) ==
  outcome = end \/ (outcome = "clean" /\ cmd.op = op /\ cmd.stage \in later)
InstallReached(later) == Reached("install", "installed", later)
UninstallReached(later) == Reached("uninstall", "uninstalled", later)

InstallSoFar ==
  /\ InstallReached({"hooks", "line", "mcp", "plist", "unload", "load"}) =>
       \A i \in Positions : Copied(i)
  /\ InstallReached({"line", "mcp", "plist", "unload", "load"}) => HooksIn(settings)
  /\ InstallReached({"mcp", "plist", "unload", "load"}) => LineIn
  /\ InstallReached({"plist", "unload", "load"}) => McpIn
  /\ Darwin /\ InstallReached({"unload", "load"}) => plist
  /\ Darwin /\ InstallReached({}) => loaded

UninstallSoFar ==
  /\ Darwin /\ UninstallReached({"unplist", "remove", "hooks", "line", "mcp"}) => AgentOut
  /\ Darwin /\ UninstallReached({"remove", "hooks", "line", "mcp"}) => ~plist
  /\ UninstallReached({"hooks", "line", "mcp"}) => \A i \in Positions : Removed(i)
  /\ UninstallReached({"line", "mcp"}) => HooksOut(settings)
  /\ UninstallReached({"mcp"}) => LineOut(settings)
  /\ UninstallReached({}) => McpOut

\* The files before the one it is at are done; an install from the stable copy
\* has come past no script.
FilesSoFar ==
  outcome = "clean" =>
    /\ InStage("install", "copy") =>
         /\ cmd.from = "build" => \A i \in Positions : i < cmd.file => Copied(i)
         /\ cmd.from = "stable" =>
              /\ \A i \in Positions : i < cmd.file => Files[i] \in Binaries
              /\ cmd.raw = Opened => Files[cmd.file] \in Binaries
    /\ InStage("uninstall", "unload") \/ InStage("uninstall", "unplist") => cmd.file = 1
    /\ InStage("uninstall", "remove") => \A i \in Positions : i < cmd.file => Removed(i)

\* Where an edit finds nothing to do, there was nothing to do in the file, and
\* the user has not undone that; what it writes back holds the edits before it.
ReadSoFar ==
  outcome = "clean" /\ cmd.raw # NotRead =>
    /\ InStage("install", "line") => HooksIn(cmd.raw) /\ (cmd.raw.line = "mesh" => LineIn)
    /\ InStage("install", "mcp") /\ cmd.raw # NoFile => (cmd.raw.mesh # "none" => McpIn)
    /\ InStage("uninstall", "hooks") /\ cmd.raw = NoFile => HooksOut(settings)
    /\ InStage("uninstall", "line") =>
         HooksOut(cmd.raw) /\ (LineOut(cmd.raw) => LineOut(settings))
    /\ InStage("uninstall", "mcp") /\ cmd.raw = NoFile => McpOut

Progress == CmdShape /\ InstallSoFar /\ UninstallSoFar /\ FilesSoFar /\ ReadSoFar

-----------------------------------------------------------------------------
(* From stage to stage.                                                    *)

\* The order of the stages (installer.go:91-158, 160-206).
LEMMA Order ==
  /\ DOMAIN InstallAfter = {"copy", "hooks", "line", "mcp", "plist", "unload", "load"}
  /\ DOMAIN UninstallAfter = {"unload", "unplist", "remove", "hooks", "line", "mcp"}
  /\ InstallAfter["copy"] = "hooks" /\ InstallAfter["hooks"] = "line"
  /\ InstallAfter["line"] = "mcp" /\ InstallAfter["mcp"] = IF Darwin THEN "plist" ELSE "done"
  /\ InstallAfter["plist"] = "unload" /\ InstallAfter["unload"] = "load"
  /\ InstallAfter["load"] = "done"
  /\ UninstallAfter["unload"] = "unplist" /\ UninstallAfter["unplist"] = "remove"
  /\ UninstallAfter["remove"] = "hooks" /\ UninstallAfter["hooks"] = "line"
  /\ UninstallAfter["line"] = "mcp" /\ UninstallAfter["mcp"] = "done"
BY DEF InstallAfter, UninstallAfter

MoreFiles == cmd.stage \in {"copy", "remove"} /\ cmd.file < Len(Files)

\* What StepDone does to a command that runs.
LEMMA Moves ==
  ASSUME CmdOK, StepDone, cmd.op # "none"
  PROVE  /\ MoreFiles =>
              /\ outcome' = outcome /\ cmd'.op = cmd.op /\ cmd'.from = cmd.from
              /\ cmd'.stage = cmd.stage /\ cmd'.file = cmd.file + 1 /\ cmd'.raw = NotRead
         /\ ~MoreFiles /\ StageAfter(cmd.stage) # "done" =>
              /\ outcome' = outcome /\ cmd'.op = cmd.op /\ cmd'.from = cmd.from
              /\ cmd'.stage = StageAfter(cmd.stage) /\ cmd'.file = cmd.file
              /\ cmd'.raw = NotRead
         /\ ~MoreFiles /\ StageAfter(cmd.stage) = "done" =>
              /\ cmd' = Off
              /\ outcome' = IF outcome # "clean" THEN "none"
                            ELSE IF cmd.op = "install" THEN "installed" ELSE "uninstalled"
<1>1. cmd' = Following
  BY DEF StepDone
<1>2. CASE MoreFiles
  <2>1. Following = [cmd EXCEPT !.file = cmd.file + 1, !.raw = NotRead]
    BY <1>2 DEF Following, MoreFiles
  <2>2. /\ Following.op = cmd.op /\ Following.from = cmd.from /\ Following.stage = cmd.stage
        /\ Following.file = cmd.file + 1 /\ Following.raw = NotRead
    BY <2>1 DEF CmdOK
  <2>3. Following # Off
    BY <2>2, OffFacts
  <2> QED  BY <1>1, <1>2, <2>2, <2>3 DEF StepDone
<1>3. CASE ~MoreFiles /\ StageAfter(cmd.stage) # "done"
  <2>1. Following = [cmd EXCEPT !.stage = StageAfter(cmd.stage), !.raw = NotRead]
    BY <1>3 DEF Following, MoreFiles
  <2>2. /\ Following.op = cmd.op /\ Following.from = cmd.from
        /\ Following.stage = StageAfter(cmd.stage) /\ Following.file = cmd.file
        /\ Following.raw = NotRead
    BY <2>1 DEF CmdOK
  <2>3. Following # Off
    BY <2>2, OffFacts
  <2> QED  BY <1>1, <1>3, <2>2, <2>3 DEF StepDone
<1>4. CASE ~MoreFiles /\ StageAfter(cmd.stage) = "done"
  <2>1. Following = Off
    BY <1>4 DEF Following, MoreFiles
  <2> QED  BY <1>1, <1>4, <2>1 DEF StepDone
<1> QED  BY <1>2, <1>3, <1>4

\* A command that no step of has failed goes on to a stage, or ends well.
GoesTo(op, stage) ==
  /\ outcome' = "clean" /\ cmd'.op = op /\ cmd'.stage = stage
  /\ cmd'.raw = NotRead /\ cmd'.from = cmd.from
EndsWell(end) == outcome' = end /\ cmd' = Off

LEMMA InstallMoves ==
  ASSUME CmdOK, StepDone, outcome = "clean", cmd.op = "install"
  PROVE  /\ cmd.stage = "copy" =>
              IF cmd.file < Len(Files) THEN GoesTo("install", "copy") /\ cmd'.file = cmd.file + 1
              ELSE GoesTo("install", "hooks")
         /\ cmd.stage = "hooks" => GoesTo("install", "line")
         /\ cmd.stage = "line" => GoesTo("install", "mcp")
         /\ cmd.stage = "mcp" => IF Darwin THEN GoesTo("install", "plist")
                                 ELSE EndsWell("installed")
         /\ cmd.stage = "plist" => GoesTo("install", "unload")
         /\ cmd.stage = "unload" => GoesTo("install", "load")
         /\ cmd.stage = "load" => EndsWell("installed")
<1>1. StageAfter(cmd.stage) = InstallAfter[cmd.stage]
  BY DEF StageAfter
<1>2. cmd.stage = "copy" => (MoreFiles <=> cmd.file < Len(Files))
  BY DEF MoreFiles
<1>3. cmd.stage \in {"hooks", "line", "mcp", "plist", "unload", "load"} => ~MoreFiles
  BY DEF MoreFiles
<1> QED  BY <1>1, <1>2, <1>3, Order, Moves DEF GoesTo, EndsWell

LEMMA UninstallMoves ==
  ASSUME CmdOK, StepDone, outcome = "clean", cmd.op = "uninstall"
  PROVE  /\ cmd.stage = "unload" => GoesTo("uninstall", "unplist")
         /\ cmd.stage = "unplist" => GoesTo("uninstall", "remove")
         /\ cmd.stage \in {"unload", "unplist"} => cmd'.file = cmd.file
         /\ cmd.stage = "remove" =>
              IF cmd.file < Len(Files) THEN GoesTo("uninstall", "remove") /\ cmd'.file = cmd.file + 1
              ELSE GoesTo("uninstall", "hooks")
         /\ cmd.stage = "hooks" => GoesTo("uninstall", "line")
         /\ cmd.stage = "line" => GoesTo("uninstall", "mcp")
         /\ cmd.stage = "mcp" => EndsWell("uninstalled")
<1>1. StageAfter(cmd.stage) = UninstallAfter[cmd.stage]
  BY DEF StageAfter
<1>2. cmd.stage = "remove" => (MoreFiles <=> cmd.file < Len(Files))
  BY DEF MoreFiles
<1>3. cmd.stage \in {"unload", "unplist", "hooks", "line", "mcp"} => ~MoreFiles
  BY DEF MoreFiles
<1> QED  BY <1>1, <1>2, <1>3, Order, Moves DEF GoesTo, EndsWell

\* Having got to a stage of install, with what the stages before have done.
LEMMA InstallArrives ==
  ASSUME NEW stage \in {"hooks", "line", "mcp", "plist", "unload", "load"},
         GoesTo("install", stage),
         \A i \in Positions : Copied(i)',
         stage # "hooks" => HooksIn(settings)',
         stage \notin {"hooks", "line"} => LineIn',
         stage \in {"plist", "unload", "load"} => McpIn',
         Darwin /\ stage \in {"unload", "load"} => plist'
  PROVE  Progress'
<1>1. cmd'.op = "install" /\ cmd'.stage = stage /\ cmd'.raw = NotRead /\ outcome' = "clean"
  BY DEF GoesTo
<1>2. CmdShape'
  BY <1>1, Order DEF CmdShape
<1>3. InstallSoFar'
  BY <1>1 DEF InstallSoFar, InstallReached, Reached
<1>4. UninstallSoFar'
  BY <1>1 DEF UninstallSoFar, UninstallReached, Reached
<1>5. FilesSoFar' /\ ReadSoFar'
  BY <1>1 DEF FilesSoFar, ReadSoFar, InStage
<1> QED  BY <1>2, <1>3, <1>4, <1>5 DEF Progress

\* Having ended well, with what all of them have done.
LEMMA InstallEnds ==
  ASSUME EndsWell("installed"), \A i \in Positions : Copied(i)',
         HooksIn(settings)', LineIn', McpIn', Darwin => plist' /\ loaded'
  PROVE  Progress'
<1>1. cmd' = Off /\ cmd'.op = "none" /\ outcome' = "installed"
  BY OffFacts DEF EndsWell
<1>2. CmdShape'
  BY <1>1 DEF CmdShape, Off
<1>3. InstallSoFar'
  BY <1>1 DEF InstallSoFar, InstallReached, Reached
<1>4. UninstallSoFar' /\ FilesSoFar' /\ ReadSoFar'
  BY <1>1 DEF UninstallSoFar, UninstallReached, Reached, FilesSoFar, ReadSoFar
<1> QED  BY <1>2, <1>3, <1>4 DEF Progress

\* The same of uninstall.
LEMMA UninstallArrives ==
  ASSUME NEW stage \in {"unplist", "remove", "hooks", "line", "mcp"},
         GoesTo("uninstall", stage),
         Darwin => AgentOut',
         Darwin /\ stage # "unplist" => ~plist',
         stage = "unplist" => cmd'.file = 1,
         stage = "remove" => \A i \in Positions : i < cmd'.file => Removed(i)',
         stage \in {"hooks", "line", "mcp"} => \A i \in Positions : Removed(i)',
         stage \in {"line", "mcp"} => HooksOut(settings)',
         stage = "mcp" => LineOut(settings)'
  PROVE  Progress'
<1>1. cmd'.op = "uninstall" /\ cmd'.stage = stage /\ cmd'.raw = NotRead /\ outcome' = "clean"
  BY DEF GoesTo
<1>2. CmdShape'
  BY <1>1, Order DEF CmdShape
<1>3. InstallSoFar'
  BY <1>1 DEF InstallSoFar, InstallReached, Reached
<1>4. UninstallSoFar'
  BY <1>1 DEF UninstallSoFar, UninstallReached, Reached
<1>5. FilesSoFar' /\ ReadSoFar'
  BY <1>1 DEF FilesSoFar, ReadSoFar, InStage
<1> QED  BY <1>2, <1>3, <1>4, <1>5 DEF Progress

LEMMA UninstallEnds ==
  ASSUME EndsWell("uninstalled"), \A i \in Positions : Removed(i)',
         HooksOut(settings)', LineOut(settings)', McpOut', Darwin => ~plist' /\ AgentOut'
  PROVE  Progress'
<1>1. cmd' = Off /\ cmd'.op = "none" /\ outcome' = "uninstalled"
  BY OffFacts DEF EndsWell
<1>2. CmdShape'
  BY <1>1 DEF CmdShape, Off
<1>3. UninstallSoFar'
  BY <1>1 DEF UninstallSoFar, UninstallReached, Reached
<1>4. InstallSoFar' /\ FilesSoFar' /\ ReadSoFar'
  BY <1>1 DEF InstallSoFar, InstallReached, Reached, FilesSoFar, ReadSoFar
<1> QED  BY <1>2, <1>3, <1>4 DEF Progress

\* A command that a step of has failed, or that was killed, promises nothing.
LEMMA PromisesNothing ==
  ASSUME CmdShape', outcome' = "none"
  PROVE  Progress'
BY DEF Progress, InstallSoFar, InstallReached, UninstallSoFar, UninstallReached, Reached,
   FilesSoFar, ReadSoFar

\* The shape of the command survives StepDone, failed steps or not.
LEMMA FollowingShape ==
  ASSUME CmdOK, CmdShape, cmd.op # "none", cmd' = Following, outcome' = "none"
  PROVE  CmdShape'
<1>1. CASE MoreFiles
  <2>1. cmd' = [cmd EXCEPT !.file = cmd.file + 1, !.raw = NotRead]
    BY <1>1 DEF Following, MoreFiles
  <2>2. cmd'.op = cmd.op /\ cmd'.stage = cmd.stage
    BY <2>1 DEF CmdOK
  <2> QED  BY <2>2 DEF CmdShape
<1>2. CASE ~MoreFiles /\ StageAfter(cmd.stage) # "done"
  <2>1. cmd' = [cmd EXCEPT !.stage = StageAfter(cmd.stage), !.raw = NotRead]
    BY <1>2 DEF Following, MoreFiles
  <2>2. cmd'.op = cmd.op /\ cmd'.stage = StageAfter(cmd.stage)
    BY <2>1 DEF CmdOK
  <2>3. CASE cmd.op = "install"
    BY <1>2, <2>2, <2>3, Order DEF CmdShape, StageAfter
  <2>4. CASE cmd.op = "uninstall"
    BY <1>2, <2>2, <2>4, Order DEF CmdShape, StageAfter
  <2> QED  BY <2>3, <2>4 DEF CmdOK
<1>3. CASE ~MoreFiles /\ StageAfter(cmd.stage) = "done"
  BY <1>3, OffFacts DEF Following, MoreFiles, CmdShape
<1> QED  BY <1>1, <1>2, <1>3

\* A step that leaves the copied files alone leaves them done.
LEMMA SameCopies ==
  ASSUME files' = files
  PROVE  \A i \in Positions : (Copied(i) => Copied(i)') /\ (Removed(i) => Removed(i)')
BY DEF Copied, Removed

\* A step that takes none of it away.
NothingUndone ==
  /\ HooksIn(settings) => HooksIn(settings)'
  /\ HooksOut(settings) => HooksOut(settings)'
  /\ LineIn => LineIn'
  /\ LineOut(settings) => LineOut(settings)'
  /\ McpIn => McpIn'
  /\ McpOut => McpOut'

\* Such a step of others than the command keeps Progress.
LEMMA StaysPut ==
  ASSUME Progress, NothingUndone, UNCHANGED <<files, agentVars, cmd, outcome>>
  PROVE  Progress'
<1> USE DEF Progress, NothingUndone
<1>1. CmdShape'
  BY DEF CmdShape
<1>2. InstallSoFar'
  BY DEF InstallSoFar, InstallReached, Reached, Copied, agentVars
<1>3. UninstallSoFar'
  BY DEF UninstallSoFar, UninstallReached, Reached, Removed, AgentOut, agentVars
<1>4. FilesSoFar'
  BY DEF FilesSoFar, InStage, Copied, Removed
<1>5. ReadSoFar'
  BY DEF ReadSoFar, InStage
<1> QED  BY <1>1, <1>2, <1>3, <1>4, <1>5

-----------------------------------------------------------------------------
(* What the edits put in and take out.                                     *)

LEMMA SettingsEdits ==
  ASSUME NEW c \in SettingsFile
  PROVE  /\ HooksIn(PatchSettings(c)) /\ HooksOut(RemoveHooks(c))
         /\ PatchStatusLine(c).line = "mesh" /\ RemoveStatusLine(c).line # "mesh"
<1>1. \A e \in Events : c.hooks[e] \in EventEntry
  BY DEF SettingsFile
<1>2. \A e \in Events : PatchSettings(c).hooks[e] = WithHook(c.hooks[e])
  <2>1. PatchSettings(c) = [c EXCEPT !.hooks = [e \in Events |-> WithHook(c.hooks[e])]]
    BY DEF PatchSettings
  <2>2. PatchSettings(c).hooks = [e \in Events |-> WithHook(c.hooks[e])]
    BY <2>1 DEF SettingsFile
  <2> QED  BY <2>2
<1>3. ASSUME NEW entry \in EventEntry
      PROVE  MentionsMesh(WithHook(entry))
  <2>1. CASE MentionsMesh(entry)
    BY <2>1 DEF WithHook
  <2>2. CASE ~MentionsMesh(entry)
    <3>1. WithHook(entry) = [entry EXCEPT !.mesh = entry.mesh + 1] /\ entry.mesh \in Nat
      BY <2>2 DEF WithHook, EventEntry
    <3>2. WithHook(entry).mesh = entry.mesh + 1
      BY <3>1 DEF EventEntry
    <3>3. WithHook(entry).mesh > 0
      BY <3>1, <3>2
    <3> QED  BY <3>3 DEF MentionsMesh
  <2> QED  BY <2>1, <2>2
<1>4. PatchSettings(c) # NoFile
  BY PatchSettingsFacts, InstallerAssumption
<1>5. HooksIn(PatchSettings(c))
  BY <1>1, <1>2, <1>3, <1>4 DEF HooksIn
<1>6. HooksOut(RemoveHooks(c))
  <2>1. RemoveHooks(c) = [c EXCEPT !.hooks = [e \in Events |-> WithoutHook(c.hooks[e])]]
    BY DEF RemoveHooks
  <2>2. RemoveHooks(c).hooks = [e \in Events |-> WithoutHook(c.hooks[e])]
    BY <2>1 DEF SettingsFile
  <2> QED  BY <1>1, <2>2, WithoutHookFacts DEF HooksOut
<1>7. PatchStatusLine(c).line = "mesh"
  BY DEF PatchStatusLine, SettingsFile
<1>8. RemoveStatusLine(c).line # "mesh"
  <2>1. RemoveStatusLine(c) = [c EXCEPT !.line = IF c.line = "mesh" THEN "none" ELSE c.line]
    BY DEF RemoveStatusLine
  <2>2. RemoveStatusLine(c).line = IF c.line = "mesh" THEN "none" ELSE c.line
    BY <2>1 DEF SettingsFile
  <2> QED  BY <2>2
<1> QED  BY <1>5, <1>6, <1>7, <1>8

LEMMA McpEdits ==
  ASSUME NEW c \in McpFile
  PROVE  PatchMCP(c).mesh = "stdio" /\ RemoveMCP(c).mesh = "none"
<1>1. Decoded(c) \in McpFile
  BY DecodedFacts
<1>2. RemoveMCP(c).mesh = "none" /\ [Decoded(c) EXCEPT !.mesh = "stdio"].mesh = "stdio"
  BY <1>1 DEF RemoveMCP, McpFile
<1>3. c.mesh \in {"none", "stdio"}
  BY DEF McpFile
<1> QED  BY <1>2, <1>3 DEF PatchMCP

-----------------------------------------------------------------------------
(* Progress, step by step, of a command no step of which has failed.       *)

Clean == CmdOK /\ FilesOK /\ RestOK /\ Progress /\ outcome = "clean"

LEMMA CopyOpenProgress ==
  ASSUME Clean, CopyOpen
  PROVE  Progress'
<1>1. /\ cmd.op = "install" /\ cmd.stage = "copy" /\ HasSource
      /\ files' = [files EXCEPT ![Files[cmd.file]] = "partial"]
      /\ cmd' = [cmd EXCEPT !.raw = Opened] /\ outcome' = "clean"
  BY DEF CopyOpen, InStage, Clean
<1>2. /\ cmd'.op = "install" /\ cmd'.stage = "copy" /\ cmd'.from = cmd.from
      /\ cmd'.file = cmd.file /\ cmd.file \in Positions /\ cmd'.raw = Opened
  BY <1>1 DEF Clean, CmdOK, Positions
<1>3. ASSUME cmd.from = "build", NEW i \in Positions, i < cmd.file
      PROVE  Copied(i)'
  <2>1. Copied(i)
    BY <1>1, <1>3 DEF Clean, Progress, FilesSoFar, InStage
  <2>2. Files[i] # Files[cmd.file]
    BY <1>2, <1>3, InstallerAssumption DEF Positions
  <2>3. Files[i] \in FileNames
    BY DEF FileNames, Positions
  <2> QED  BY <1>1, <2>1, <2>2, <2>3 DEF Copied, Clean, RestOK
<1>4. cmd.from = "stable" => Files[cmd.file] \in Binaries
                             /\ \A i \in Positions : i < cmd.file => Files[i] \in Binaries
  BY <1>1 DEF HasSource, Clean, Progress, FilesSoFar, InStage
<1>5. FilesSoFar'
  BY <1>2, <1>3, <1>4 DEF FilesSoFar, InStage
<1>6. CmdShape'
  BY <1>1, <1>2, Order DEF CmdShape
<1>7. InstallSoFar' /\ UninstallSoFar' /\ ReadSoFar'
  BY <1>1, <1>2 DEF InstallSoFar, InstallReached, UninstallSoFar, UninstallReached, Reached,
     ReadSoFar, InStage
<1> QED  BY <1>5, <1>6, <1>7 DEF Progress

LEMMA CopyWriteProgress ==
  ASSUME Clean, CopyWrite
  PROVE  Progress'
<1>1. /\ cmd.op = "install" /\ cmd.stage = "copy" /\ cmd.raw = Opened /\ StepDone
      /\ files' = IF cmd.from = "build" THEN [files EXCEPT ![Files[cmd.file]] = "whole"] ELSE files
  BY DEF CopyWrite, InStage
<1>2. cmd.file \in Positions /\ cmd.from \in {"build", "stable"} /\ Len(Files) \in Nat
  BY InstallerAssumption DEF Clean, CmdOK, Positions
<1>3. IF cmd.file < Len(Files) THEN GoesTo("install", "copy") /\ cmd'.file = cmd.file + 1
      ELSE GoesTo("install", "hooks")
  BY <1>1, InstallMoves DEF Clean
<1>4. cmd.from = "build" => \A i \in Positions : i <= cmd.file => Copied(i)'
  <2> SUFFICES ASSUME cmd.from = "build", NEW i \in Positions, i <= cmd.file PROVE Copied(i)'
    OBVIOUS
  <2>1. Files[i] \in FileNames
    BY DEF FileNames, Positions
  <2>2. i < cmd.file => Copied(i)
    BY <1>1 DEF Clean, Progress, FilesSoFar, InStage
  <2>3. i < cmd.file \/ i = cmd.file
    BY <1>2 DEF Positions
  <2> QED  BY <1>1, <2>1, <2>2, <2>3 DEF Copied, Clean, RestOK
<1>5. cmd.from = "stable" => \A i \in Positions : i <= cmd.file => Files[i] \in Binaries
  <2> SUFFICES ASSUME cmd.from = "stable", NEW i \in Positions, i <= cmd.file
               PROVE  Files[i] \in Binaries
    OBVIOUS
  <2>1. i < cmd.file \/ i = cmd.file
    BY <1>2 DEF Positions
  <2> QED  BY <1>1, <2>1 DEF Clean, Progress, FilesSoFar, InStage
<1>6. CASE cmd.file < Len(Files)
  <2>1. /\ outcome' = "clean" /\ cmd'.op = "install" /\ cmd'.stage = "copy"
        /\ cmd'.raw = NotRead /\ cmd'.from = cmd.from /\ cmd'.file = cmd.file + 1
    BY <1>3, <1>6 DEF GoesTo
  <2>2. \A i \in Positions : i < cmd'.file => i <= cmd.file
    BY <1>2, <2>1 DEF Positions
  <2>3. cmd'.raw # Opened
    BY <2>1, InstallerAssumption
  <2>4. FilesSoFar'
    BY <1>4, <1>5, <2>1, <2>2, <2>3 DEF FilesSoFar, InStage
  <2>5. CmdShape'
    BY <2>1, Order DEF CmdShape
  <2>6. InstallSoFar' /\ UninstallSoFar' /\ ReadSoFar'
    BY <2>1 DEF InstallSoFar, InstallReached, UninstallSoFar, UninstallReached, Reached,
       ReadSoFar, InStage
  <2> QED  BY <2>4, <2>5, <2>6 DEF Progress
<1>7. CASE ~(cmd.file < Len(Files))
  <2>1. \A i \in Positions : i <= cmd.file
    BY <1>2, <1>7 DEF Positions
  <2>2. cmd.from # "stable"
    <3>1. PICK f \in FileNames : f \notin Binaries
      BY InstallerAssumption DEF Scripts
    <3>2. PICK i \in Positions : f = Files[i]
      BY <3>1 DEF FileNames, Positions
    <3> QED  BY <1>5, <2>1, <3>1, <3>2
  <2>3. \A i \in Positions : Copied(i)'
    BY <1>2, <1>4, <2>1, <2>2
  <2> QED  BY <1>3, <1>7, <2>3, InstallArrives
<1> QED  BY <1>6, <1>7

LEMMA RemoveFileProgress ==
  ASSUME Clean, RemoveFile
  PROVE  Progress'
<1>1. /\ cmd.op = "uninstall" /\ cmd.stage = "remove" /\ StepDone
      /\ files' = [files EXCEPT ![Files[cmd.file]] = "absent"]
      /\ UNCHANGED <<plist, loaded, unheard>>
  BY DEF RemoveFile, InStage, agentVars
<1>2. cmd.file \in Positions /\ Len(Files) \in Nat
  BY InstallerAssumption DEF Clean, CmdOK, Positions
<1>3. IF cmd.file < Len(Files) THEN GoesTo("uninstall", "remove") /\ cmd'.file = cmd.file + 1
      ELSE GoesTo("uninstall", "hooks")
  BY <1>1, UninstallMoves DEF Clean
<1>4. Darwin => ~plist' /\ AgentOut'
  BY <1>1 DEF Clean, Progress, UninstallSoFar, UninstallReached, Reached, AgentOut
<1>5. ASSUME NEW i \in Positions, i <= cmd.file
      PROVE  Removed(i)'
  <2>1. Files[i] \in FileNames
    BY DEF FileNames, Positions
  <2>2. i < cmd.file => Removed(i)
    BY <1>1 DEF Clean, Progress, FilesSoFar, InStage
  <2>3. i < cmd.file \/ i = cmd.file
    BY <1>2, <1>5 DEF Positions
  <2> QED  BY <1>1, <2>1, <2>2, <2>3 DEF Removed, Clean, RestOK
<1>6. CASE cmd.file < Len(Files)
  <2>1. cmd'.file = cmd.file + 1
    BY <1>3, <1>6
  <2>2. \A i \in Positions : i < cmd'.file => i <= cmd.file
    BY <1>2, <2>1 DEF Positions
  <2>3. \A i \in Positions : i < cmd'.file => Removed(i)'
    BY <1>5, <2>2
  <2> QED  BY <1>3, <1>4, <1>6, <2>3, UninstallArrives
<1>7. CASE ~(cmd.file < Len(Files))
  <2>1. \A i \in Positions : i <= cmd.file
    BY <1>2, <1>7 DEF Positions
  <2>2. \A i \in Positions : Removed(i)'
    BY <1>5, <2>1
  <2> QED  BY <1>3, <1>4, <1>7, <2>2, UninstallArrives
<1> QED  BY <1>6, <1>7

LEMMA ReadFileProgress ==
  ASSUME Clean, ReadFile
  PROVE  Progress'
<1>1. /\ cmd.stage \in {"hooks", "line", "mcp"} /\ cmd.raw = NotRead
      /\ cmd' = [cmd EXCEPT !.raw = IF cmd.stage = "mcp" THEN Here ELSE settings]
      /\ outcome' = "clean"
      /\ UNCHANGED <<files, settings, mcp, plist, loaded, unheard, at, wanted>>
  BY DEF ReadFile, diskVars, agentVars, Clean
<1>2. /\ cmd'.op = cmd.op /\ cmd'.stage = cmd.stage
      /\ cmd'.raw = IF cmd.stage = "mcp" THEN Here ELSE settings
  BY <1>1 DEF Clean, CmdOK
<1>3. CmdShape'
  BY <1>1, <1>2, Order DEF CmdShape, Clean, Progress
<1>4. InstallSoFar'
  BY <1>1, <1>2 DEF InstallSoFar, InstallReached, Reached, HooksIn, LineIn, McpIn, Here,
     Copied, Clean, Progress
<1>5. UninstallSoFar'
  BY <1>1, <1>2 DEF UninstallSoFar, UninstallReached, Reached, HooksOut, LineOut, McpOut,
     Here, AgentOut, Removed, Clean, Progress
<1>6. FilesSoFar'
  BY <1>1, <1>2 DEF FilesSoFar, InStage
<1>7. ReadSoFar'
  <2>1. InStage("install", "line") =>
          HooksIn(settings) /\ (settings.line = "mesh" => LineIn)
    BY DEF InStage, HooksIn, LineIn, Clean, Progress, InstallSoFar, InstallReached, Reached
  <2>2. Here # NoFile => Here.mesh \in {"none", "stdio"}
    BY AtHere DEF Clean, McpFiles, McpFile
  <2>3. Here # NoFile => (Here.mesh # "none" => McpIn)
    BY <2>2 DEF McpIn
  <2>4. settings = NoFile => HooksOut(settings)
    BY DEF HooksOut
  <2>5. Here = NoFile => McpOut
    BY DEF McpOut
  <2>6. InStage("uninstall", "line") => HooksOut(settings)
    BY DEF InStage, Clean, Progress, UninstallSoFar, UninstallReached, Reached
  <2>7. /\ InStage("install", "line")' =>
             HooksIn(settings) /\ (settings.line = "mesh" => LineIn')
        /\ InStage("install", "mcp")' /\ Here # NoFile => (Here.mesh # "none" => McpIn')
        /\ InStage("uninstall", "hooks")' /\ settings = NoFile => HooksOut(settings)'
        /\ InStage("uninstall", "line")' => HooksOut(settings)
        /\ InStage("uninstall", "mcp")' /\ Here = NoFile => McpOut'
    BY <1>1, <1>2, <2>1, <2>3, <2>4, <2>5, <2>6 DEF InStage, LineIn, McpIn, McpOut, Here,
       HooksOut
  <2>8. settings' = settings
    BY <1>1
  <2> QED  BY <1>2, <2>7, <2>8 DEF ReadSoFar, InStage
<1> QED  BY <1>3, <1>4, <1>5, <1>6, <1>7 DEF Progress

\* What install has done when it is past its hooks, and uninstall likewise.
LEMMA DoneBefore ==
  ASSUME Clean
  PROVE  /\ cmd.op = "install" =>
              /\ cmd.stage \in {"hooks", "line", "mcp", "plist", "unload", "load"} =>
                   \A i \in Positions : Copied(i)
              /\ cmd.stage \in {"line", "mcp", "plist", "unload", "load"} => HooksIn(settings)
              /\ cmd.stage \in {"mcp", "plist", "unload", "load"} => LineIn
              /\ cmd.stage \in {"plist", "unload", "load"} => McpIn
              /\ Darwin /\ cmd.stage \in {"unload", "load"} => plist
         /\ cmd.op = "uninstall" =>
              /\ Darwin /\ cmd.stage \in {"unplist", "remove", "hooks", "line", "mcp"} => AgentOut
              /\ Darwin /\ cmd.stage \in {"remove", "hooks", "line", "mcp"} => ~plist
              /\ cmd.stage \in {"hooks", "line", "mcp"} => \A i \in Positions : Removed(i)
              /\ cmd.stage \in {"line", "mcp"} => HooksOut(settings)
              /\ cmd.stage = "mcp" => LineOut(settings)
BY DEF Clean, Progress, InstallSoFar, InstallReached, UninstallSoFar, UninstallReached, Reached

LEMMA SkipProgress ==
  ASSUME Clean, Skip
  PROVE  Progress'
<1>1. /\ cmd.stage \in {"hooks", "line", "mcp"} /\ cmd.raw # NotRead /\ Skips(cmd.stage)
      /\ StepDone
      /\ UNCHANGED <<files, settings, mcp, plist, loaded, unheard, at, wanted>>
  BY DEF Skip, HasRead, diskVars, agentVars
<1>2. NothingUndone /\ plist' = plist /\ (AgentOut => AgentOut')
  BY <1>1 DEF NothingUndone, HooksIn, HooksOut, LineOut, LineIn, McpIn, McpOut, Here, AgentOut
<1>3. \A i \in Positions : (Copied(i) => Copied(i)') /\ (Removed(i) => Removed(i)')
  BY <1>1, SameCopies
<1>4. cmd.op \in {"install", "uninstall"}
  BY DEF Clean, CmdOK, Progress, CmdShape
<1>5. CASE cmd.op = "install"
  <2>1. \A i \in Positions : Copied(i)'
    BY <1>1, <1>3, <1>5, DoneBefore
  <2>2. CASE cmd.stage = "hooks"
    BY <1>1, <1>5, <2>2 DEF Skips
  <2>3. CASE cmd.stage = "line"
    <3>1. cmd.raw.line = "mesh"
      BY <1>1, <1>5, <2>3 DEF Skips
    <3>2. LineIn
      BY <1>1, <1>5, <2>3, <3>1 DEF Clean, Progress, ReadSoFar, InStage
    <3>3. GoesTo("install", "mcp")
      BY <1>1, <1>5, <2>3, InstallMoves DEF Clean
    <3>4. HooksIn(settings)
      BY <1>5, <2>3, DoneBefore
    <3>5. HooksIn(settings)' /\ LineIn'
      BY <1>2, <3>2, <3>4 DEF NothingUndone
    <3> QED  BY <2>1, <3>3, <3>5, InstallArrives
  <2>4. CASE cmd.stage = "mcp"
    <3>1. cmd.raw # NoFile /\ cmd.raw.mesh # "none"
      BY <1>1, <1>5, <2>4 DEF Skips
    <3>2. McpIn
      BY <1>1, <1>5, <2>4, <3>1 DEF Clean, Progress, ReadSoFar, InStage
    <3>3. IF Darwin THEN GoesTo("install", "plist") ELSE EndsWell("installed")
      BY <1>1, <1>5, <2>4, InstallMoves DEF Clean
    <3>4. HooksIn(settings) /\ LineIn
      BY <1>5, <2>4, DoneBefore
    <3>5. HooksIn(settings)' /\ LineIn' /\ McpIn'
      BY <1>2, <3>2, <3>4 DEF NothingUndone
    <3> QED  BY <2>1, <3>3, <3>5, InstallArrives, InstallEnds
  <2> QED  BY <1>1, <2>2, <2>3, <2>4
<1>6. CASE cmd.op = "uninstall"
  <2>1. \A i \in Positions : Removed(i)'
    BY <1>1, <1>3, <1>6, DoneBefore
  <2>2. Darwin => ~plist' /\ AgentOut'
    BY <1>1, <1>2, <1>6, DoneBefore
  <2>3. CASE cmd.stage = "hooks"
    <3>1. HooksOut(settings)
      BY <1>1, <1>6, <2>3 DEF Skips, Clean, Progress, ReadSoFar, InStage
    <3>2. GoesTo("uninstall", "line")
      BY <1>1, <1>6, <2>3, UninstallMoves DEF Clean
    <3> QED  BY <1>2, <2>1, <2>2, <3>1, <3>2, UninstallArrives DEF NothingUndone
  <2>4. CASE cmd.stage = "line"
    <3>1. LineOut(cmd.raw)
      BY <1>1, <1>6, <2>4 DEF Skips, LineOut
    <3>2. LineOut(settings)
      BY <1>1, <1>6, <2>4, <3>1 DEF Clean, Progress, ReadSoFar, InStage
    <3>3. GoesTo("uninstall", "mcp")
      BY <1>1, <1>6, <2>4, UninstallMoves DEF Clean
    <3>4. HooksOut(settings)
      BY <1>6, <2>4, DoneBefore
    <3>5. HooksOut(settings)' /\ LineOut(settings)'
      BY <1>2, <3>2, <3>4 DEF NothingUndone
    <3> QED  BY <2>1, <2>2, <3>3, <3>5, UninstallArrives
  <2>5. CASE cmd.stage = "mcp"
    <3>1. McpOut
      BY <1>1, <1>6, <2>5 DEF Skips, Clean, Progress, ReadSoFar, InStage
    <3>2. EndsWell("uninstalled")
      BY <1>1, <1>6, <2>5, UninstallMoves DEF Clean
    <3>3. HooksOut(settings) /\ LineOut(settings)
      BY <1>6, <2>5, DoneBefore
    <3>4. HooksOut(settings)' /\ LineOut(settings)' /\ McpOut'
      BY <1>2, <3>1, <3>3 DEF NothingUndone
    <3> QED  BY <2>1, <2>2, <3>2, <3>4, UninstallEnds
  <2> QED  BY <1>1, <2>3, <2>4, <2>5
<1> QED  BY <1>4, <1>5, <1>6

\* What an edit of settings.json that goes ahead starts from.
LEMMA WhatIsEdited ==
  ASSUME Clean, NEW stage \in {"hooks", "line"}, HasRead(stage), ~Skips(stage)
  PROVE  /\ OrNew(cmd.raw, NewSettings) \in SettingsFile
         /\ cmd.op = "uninstall" => cmd.raw # NoFile
<1>1. cmd.raw \in SettingsFile \cup {NoFile}
  BY DEF Clean, CmdOK, HasRead, SettingsFiles
<1>2. cmd.op = "uninstall" => cmd.raw # NoFile
  BY DEF Skips
<1> QED  BY <1>1, <1>2, NewFiles DEF OrNew

LEMMA EditHooksProgress ==
  ASSUME Clean, EditHooks
  PROVE  Progress'
<1> DEFINE c == OrNew(cmd.raw, NewSettings)
<1>1. /\ cmd.stage = "hooks" /\ StepDone /\ HasRead("hooks") /\ ~Skips("hooks")
      /\ settings' = IF cmd.op = "install" THEN PatchSettings(c) ELSE RemoveHooks(c)
      /\ UNCHANGED <<files, plist, loaded, unheard>>
  BY DEF EditHooks, WriteSettings, HasRead, agentVars
<1>2. c \in SettingsFile
  BY <1>1, WhatIsEdited
<1> HIDE DEF c
<1>3. HooksIn(PatchSettings(c)) /\ HooksOut(RemoveHooks(c))
  BY <1>2, SettingsEdits
<1>4. \A i \in Positions : (Copied(i) => Copied(i)') /\ (Removed(i) => Removed(i)')
  BY <1>1, SameCopies
<1>5. CASE cmd.op = "install"
  <2>1. GoesTo("install", "line")
    BY <1>1, <1>5, InstallMoves DEF Clean
  <2>2. HooksIn(settings)'
    BY <1>1, <1>3, <1>5
  <2>3. \A i \in Positions : Copied(i)'
    BY <1>1, <1>4, <1>5, DoneBefore
  <2> QED  BY <2>1, <2>2, <2>3, InstallArrives
<1>6. CASE cmd.op = "uninstall"
  <2>1. GoesTo("uninstall", "line")
    BY <1>1, <1>6, UninstallMoves DEF Clean
  <2>2. HooksOut(settings)'
    BY <1>1, <1>3, <1>6
  <2>3. \A i \in Positions : Removed(i)'
    BY <1>1, <1>4, <1>6, DoneBefore
  <2>4. Darwin => ~plist' /\ AgentOut'
    BY <1>1, <1>6, DoneBefore DEF AgentOut
  <2> QED  BY <2>1, <2>2, <2>3, <2>4, UninstallArrives
<1> QED  BY <1>5, <1>6 DEF Clean, CmdOK, Progress, CmdShape

LEMMA EditLineProgress ==
  ASSUME Clean, EditLine
  PROVE  Progress'
<1> DEFINE c == OrNew(cmd.raw, NewSettings)
<1>1. /\ cmd.stage = "line" /\ cmd.raw # NotRead /\ StepDone
      /\ HasRead("line") /\ ~Skips("line")
      /\ settings' = IF cmd.op = "install" THEN PatchStatusLine(c) ELSE RemoveStatusLine(c)
      /\ UNCHANGED <<files, plist, loaded, unheard>>
  BY DEF EditLine, WriteSettings, HasRead, agentVars
<1>2. c \in SettingsFile /\ (cmd.op = "uninstall" => cmd.raw # NoFile)
      /\ (cmd.raw # NoFile => c = cmd.raw)
  BY <1>1, WhatIsEdited DEF OrNew
<1> HIDE DEF c
<1>3. /\ PatchStatusLine(c).line = "mesh" /\ PatchStatusLine(c).hooks = c.hooks
      /\ RemoveStatusLine(c).line # "mesh" /\ RemoveStatusLine(c).hooks = c.hooks
      /\ PatchStatusLine(c) # NoFile
  BY <1>2, SettingsEdits, LineFacts, InstallerAssumption
<1>4. \A i \in Positions : (Copied(i) => Copied(i)') /\ (Removed(i) => Removed(i)')
  BY <1>1, SameCopies
<1>5. CASE cmd.op = "install"
  <2>1. GoesTo("install", "mcp")
    BY <1>1, <1>5, InstallMoves DEF Clean
  <2>2. HooksIn(cmd.raw)
    BY <1>1, <1>5 DEF Clean, Progress, ReadSoFar, InStage
  <2>3. HooksIn(settings)' /\ LineIn'
    BY <1>1, <1>2, <1>3, <1>5, <2>2 DEF HooksIn, LineIn
  <2>4. \A i \in Positions : Copied(i)'
    BY <1>1, <1>4, <1>5, DoneBefore
  <2> QED  BY <2>1, <2>3, <2>4, InstallArrives
<1>6. CASE cmd.op = "uninstall"
  <2>1. GoesTo("uninstall", "mcp")
    BY <1>1, <1>6, UninstallMoves DEF Clean
  <2>2. HooksOut(cmd.raw)
    BY <1>1, <1>6 DEF Clean, Progress, ReadSoFar, InStage
  <2>3. HooksOut(settings)' /\ LineOut(settings)'
    BY <1>1, <1>2, <1>3, <1>6, <2>2 DEF HooksOut, LineOut
  <2>4. \A i \in Positions : Removed(i)'
    BY <1>1, <1>4, <1>6, DoneBefore
  <2>5. Darwin => ~plist' /\ AgentOut'
    BY <1>1, <1>6, DoneBefore DEF AgentOut
  <2> QED  BY <2>1, <2>3, <2>4, <2>5, UninstallArrives
<1> QED  BY <1>5, <1>6 DEF Clean, CmdOK, Progress, CmdShape

LEMMA EditMcpProgress ==
  ASSUME Clean, EditMcp
  PROVE  Progress'
<1> DEFINE c == OrNew(cmd.raw, NewMcp)
           new == IF cmd.op = "install" THEN PatchMCP(c) ELSE RemoveMCP(c)
<1>1. /\ cmd.stage = "mcp" /\ cmd.raw # NotRead /\ StepDone
      /\ mcp' = [mcp EXCEPT ![at] = new]
      /\ UNCHANGED <<files, settings, plist, loaded, unheard, at, wanted>>
  BY DEF EditMcp, HasRead, agentVars
<1>2. c \in McpFile
  BY <1>1, NewFiles DEF Clean, CmdOK, McpFiles, OrNew
<1> HIDE DEF c
<1>3. /\ cmd.op = "install" => new.mesh = "stdio" /\ new # NoFile
      /\ cmd.op = "uninstall" => new.mesh = "none"
      /\ Here' = new
  <2>1. /\ PatchMCP(c).mesh = "stdio" /\ RemoveMCP(c).mesh = "none"
        /\ PatchMCP(c) # NoFile
    BY <1>2, McpEdits, McpFacts, InstallerAssumption
  <2>2. /\ cmd.op = "install" => new.mesh = "stdio" /\ new # NoFile
        /\ cmd.op = "uninstall" => new.mesh = "none"
    BY <2>1
  <2> HIDE DEF new
  <2>3. Here' = new
    BY <1>1, AtHere DEF Clean
  <2> QED  BY <2>2, <2>3
<1> HIDE DEF new
<1>4. \A i \in Positions : (Copied(i) => Copied(i)') /\ (Removed(i) => Removed(i)')
  BY <1>1, SameCopies
<1>5. /\ HooksIn(settings) => HooksIn(settings)'
      /\ HooksOut(settings) => HooksOut(settings)'
      /\ LineOut(settings) => LineOut(settings)'
      /\ LineIn => LineIn'
  BY <1>1 DEF HooksIn, HooksOut, LineOut, LineIn
<1>6. CASE cmd.op = "install"
  <2>1. IF Darwin THEN GoesTo("install", "plist") ELSE EndsWell("installed")
    BY <1>1, <1>6, InstallMoves DEF Clean
  <2>2. HooksIn(settings)' /\ LineIn'
    BY <1>1, <1>5, <1>6, DoneBefore
  <2>3. McpIn'
    BY <1>1, <1>3, <1>6 DEF McpIn
  <2>4. \A i \in Positions : Copied(i)'
    BY <1>1, <1>4, <1>6, DoneBefore
  <2> QED  BY <2>1, <2>2, <2>3, <2>4, InstallArrives, InstallEnds
<1>7. CASE cmd.op = "uninstall"
  <2>1. EndsWell("uninstalled")
    BY <1>1, <1>7, UninstallMoves DEF Clean
  <2>2. HooksOut(settings)' /\ LineOut(settings)'
    BY <1>1, <1>5, <1>7, DoneBefore
  <2>3. McpOut'
    BY <1>1, <1>3, <1>7 DEF McpOut
  <2>4. \A i \in Positions : Removed(i)'
    BY <1>1, <1>4, <1>7, DoneBefore
  <2>5. Darwin => ~plist' /\ AgentOut'
    BY <1>1, <1>7, DoneBefore DEF AgentOut
  <2> QED  BY <2>1, <2>2, <2>3, <2>4, <2>5, UninstallEnds
<1> QED  BY <1>6, <1>7 DEF Clean, CmdOK, Progress, CmdShape

\* The steps of launchd, which leave the files alone.
LEMMA LaunchdProgress ==
  ASSUME Clean, Launchd \/ Unload
  PROVE  Progress'
<1>1. /\ \/ cmd.stage = "plist" /\ plist' = TRUE
         \/ cmd.stage = "unplist" /\ plist' = FALSE /\ UNCHANGED <<loaded, unheard>>
         \/ cmd.stage = "unload" /\ AgentOut' /\ UNCHANGED plist
         \/ cmd.stage = "load" /\ loaded' = plist /\ UNCHANGED plist
      /\ StepDone
      /\ UNCHANGED <<files, settings, mcp, at, wanted>>
  BY DEF Launchd, Unload, AgentOut
<1>2. \A i \in Positions : (Copied(i) => Copied(i)') /\ (Removed(i) => Removed(i)')
  BY <1>1, SameCopies
<1>3. CASE cmd.op = "install"
  <2>1. cmd.stage \in {"plist", "unload", "load"}
    BY <1>1, <1>3, Order DEF Clean, Progress, CmdShape
  <2>2. HooksIn(settings) /\ LineIn /\ McpIn /\ \A i \in Positions : Copied(i)
    BY <1>3, <2>1, DoneBefore
  <2>3. HooksIn(settings)' /\ LineIn' /\ McpIn'
    BY <1>1, <2>2 DEF HooksIn, LineIn, McpIn, Here
  <2>4. \A i \in Positions : Copied(i)'
    BY <1>2, <2>2
  <2>5. CASE cmd.stage = "plist"
    <3>1. GoesTo("install", "unload") /\ plist'
      BY <1>1, <1>3, <2>5, InstallMoves DEF Clean
    <3> QED  BY <2>3, <2>4, <3>1, InstallArrives
  <2>6. CASE cmd.stage = "unload"
    <3>1. GoesTo("install", "load")
      BY <1>1, <1>3, <2>6, InstallMoves DEF Clean
    <3>2. Darwin => plist'
      BY <1>1, <1>3, <2>6, DoneBefore
    <3> QED  BY <2>3, <2>4, <3>1, <3>2, InstallArrives
  <2>7. CASE cmd.stage = "load"
    <3>1. EndsWell("installed")
      BY <1>1, <1>3, <2>7, InstallMoves DEF Clean
    <3>2. Darwin => plist' /\ loaded'
      BY <1>1, <1>3, <2>7, DoneBefore
    <3> QED  BY <2>3, <2>4, <3>1, <3>2, InstallEnds
  <2> QED  BY <2>1, <2>5, <2>6, <2>7
<1>4. CASE cmd.op = "uninstall"
  <2>1. cmd.stage \in {"unload", "unplist"}
    BY <1>1, <1>4, Order DEF Clean, Progress, CmdShape
  <2>2. cmd.file = 1
    BY <1>4, <2>1 DEF Clean, Progress, FilesSoFar, InStage
  <2>3. CASE cmd.stage = "unload"
    <3>1. GoesTo("uninstall", "unplist") /\ cmd'.file = 1 /\ AgentOut'
      BY <1>1, <1>4, <2>2, <2>3, UninstallMoves DEF Clean
    <3> QED  BY <3>1, UninstallArrives
  <2>4. CASE cmd.stage = "unplist"
    <3>1. GoesTo("uninstall", "remove") /\ cmd'.file = 1 /\ ~plist'
      BY <1>1, <1>4, <2>2, <2>4, UninstallMoves DEF Clean
    <3>2. Darwin => AgentOut
      BY <1>4, <2>4, DoneBefore
    <3>3. AgentOut => AgentOut'
      BY <1>1, <2>4 DEF AgentOut
    <3>4. \A i \in Positions : ~(i < 1)
      BY InstallerAssumption DEF Positions
    <3> QED  BY <3>1, <3>2, <3>3, <3>4, UninstallArrives
  <2> QED  BY <2>1, <2>3, <2>4
<1> QED  BY <1>3, <1>4 DEF Clean, CmdOK, Progress, CmdShape

-----------------------------------------------------------------------------
(* Progress, in the other steps.                                           *)

LEMMA RunProgress ==
  ASSUME CmdOK, NEW op \in {"install", "uninstall"}, NEW from \in {"build", "stable"},
         NEW dir \in Places, Run(op, from, dir)
  PROVE  Progress'
<1>1. /\ cmd'.op = op /\ cmd'.stage = FirstStage(op) /\ cmd'.file = 1 /\ cmd'.raw = NotRead
      /\ outcome' = "clean"
  BY DEF Run
<1>2. /\ op = "install" => cmd'.stage = "copy"
      /\ op = "uninstall" => cmd'.stage = IF Darwin THEN "unload" ELSE "remove"
  BY <1>1 DEF FirstStage
<1>3. CmdShape'
  BY <1>1, <1>2, Order DEF CmdShape
<1>4. InstallSoFar'
  BY <1>1, <1>2 DEF InstallSoFar, InstallReached, Reached
<1>5. UninstallSoFar'
  BY <1>1, <1>2 DEF UninstallSoFar, UninstallReached, Reached
<1>6. FilesSoFar'
  <2>1. \A i \in Positions : ~(i < 1)
    BY InstallerAssumption DEF Positions
  <2> QED  BY <1>1, <2>1, InstallerAssumption DEF FilesSoFar, InStage
<1>7. ReadSoFar'
  BY <1>1 DEF ReadSoFar
<1> QED  BY <1>3, <1>4, <1>5, <1>6, <1>7 DEF Progress

\* After a failed step uninstall goes on and install ends (installer.go:97-206).
LEMMA FailProgress ==
  ASSUME CmdOK, Progress, Fail
  PROVE  Progress'
<1>1. /\ cmd.op # "none" /\ outcome' = "none"
      /\ cmd' = IF cmd.op = "install" THEN Off ELSE Following
  BY DEF Fail
<1>2. CmdShape'
  <2>1. CASE cmd' = Off
    BY <1>1, <2>1, OffFacts DEF CmdShape
  <2>2. CASE cmd' = Following
    BY <1>1, <2>2, FollowingShape DEF Progress
  <2> QED  BY <1>1, <2>1, <2>2
<1> QED  BY <1>1, <1>2, PromisesNothing

LEMMA KillProgress ==
  ASSUME Kill
  PROVE  Progress'
<1>1. CmdShape' /\ outcome' = "none"
  BY OffFacts DEF Kill, CmdShape
<1> QED  BY <1>1, PromisesNothing

\* A command a step of which has failed keeps going and promises nothing.
LEMMA FailedProgress ==
  ASSUME CmdOK, Progress, outcome = "none", CommandStep
  PROVE  Progress'
<1>1. CASE StepDone /\ cmd.op # "none"
  <2>1. cmd' = Following /\ outcome' = "none"
    BY <1>1 DEF StepDone
  <2>2. CmdShape'
    BY <1>1, <2>1, FollowingShape DEF Progress
  <2> QED  BY <2>1, <2>2, PromisesNothing
<1>2. CASE CopyOpen \/ ReadFile
  <2>1. PICK raw : cmd' = [cmd EXCEPT !.raw = raw]
    BY <1>2 DEF CopyOpen, ReadFile
  <2>2. cmd'.op = cmd.op /\ cmd'.stage = cmd.stage /\ outcome' = "none"
    BY <1>2, <2>1 DEF CmdOK, CopyOpen, ReadFile
  <2>3. cmd.op # "none"
    BY <1>2 DEF CopyOpen, ReadFile, InStage, Progress, CmdShape, Off
  <2>4. CmdShape'
    BY <2>2, <2>3 DEF CmdShape, Progress
  <2> QED  BY <2>2, <2>4, PromisesNothing
<1>3. CopyOpen \/ ReadFile \/ (StepDone /\ cmd.stage # "none")
  <2>1. CASE CopyWrite \/ RemoveFile
    BY <2>1 DEF CopyWrite, RemoveFile, InStage
  <2>2. CASE Skip \/ EditHooks \/ EditLine \/ EditMcp
    BY <2>2 DEF Skip, EditHooks, EditLine, EditMcp, WriteSettings, HasRead
  <2>3. CASE Launchd \/ Unload
    BY <2>3 DEF Launchd, Unload
  <2> QED  BY <2>1, <2>2, <2>3 DEF CommandStep
<1>4. cmd.stage # "none" => cmd.op # "none"
  BY DEF Progress, CmdShape, Off
<1> QED  BY <1>1, <1>2, <1>3, <1>4

\* A command that has ended, well or not, takes no step.
LEMMA EndedTakesNoStep ==
  ASSUME Progress, CommandStep
  PROVE  cmd.op # "none"
<1>1. cmd.op = "none" => cmd.stage = "none"
  BY DEF Progress, CmdShape, Off
<1> QED  BY <1>1 DEF CommandStep, CopyOpen, CopyWrite, RemoveFile, ReadFile, Skip, EditHooks,
     EditLine, EditMcp, Launchd, Unload, WriteSettings, HasRead, InStage

\* No edit of the user's takes away what the installer put in, but the status
\* line, or puts in what it took away.
LEMMA UserKeepsMesh ==
  ASSUME FilesOK, RestOK, UserStep
  PROVE  NothingUndone
<1> DEFINE c == OrNew(settings, NewSettings)
           m == OrNew(Here, NewMcp)
<1>1. /\ c \in SettingsFile /\ (settings # NoFile => c = settings)
      /\ settings = NoFile => c = NewSettings
      /\ m \in McpFile /\ (Here # NoFile => m = Here) /\ (Here = NoFile => m = NewMcp)
  BY NewFiles, AtHere DEF FilesOK, SettingsFiles, McpFiles, OrNew
<1>2. /\ HooksOut(settings) => \A e \in Events : c.hooks[e].mesh = 0
      /\ LineOut(settings) => c.line # "mesh"
      /\ McpOut => m.mesh = "none"
  BY <1>1, NewFiles DEF HooksOut, LineOut, McpOut, NewSettings, NewMcp, NoEntry
<1> at' = at
  BY DEF UserStep, TakeLine, BreakOrRepair, AddHook, JoinHook, AddServer, UserEdits
<1>3. ASSUME NEW e \in Events, NEW h \in Hooks, AddHook(e, h) \/ JoinHook(e, h)
      PROVE  /\ settings' # NoFile /\ settings'.line = c.line /\ UNCHANGED mcp
             /\ wanted'.line = wanted.line
             /\ \A f \in Events : /\ settings'.hooks[f].mesh = c.hooks[f].mesh
                                  /\ c.hooks[f].own \subseteq settings'.hooks[f].own
  <2>1. CASE AddHook(e, h)
    <3> DEFINE old == c.hooks[e]
               entry == [old EXCEPT !.own = old.own \cup {h}]
    <3>1. /\ settings' = [c EXCEPT !.hooks = [c.hooks EXCEPT ![e] = entry]]
          /\ wanted' = [wanted EXCEPT !.own = [wanted.own EXCEPT ![e] = wanted.own[e] \cup {h}]]
          /\ UNCHANGED mcp
      BY <2>1 DEF AddHook
    <3> HIDE DEF c
    <3>2. c.hooks \in [Events -> EventEntry]
      BY <1>1 DEF SettingsFile
    <3>3. entry \in EventEntry /\ entry.mesh = old.mesh /\ old.own \subseteq entry.own
      BY <3>2 DEF EventEntry
    <3> HIDE DEF entry
    <3>4. /\ settings' \in SettingsFile /\ settings'.line = c.line
          /\ settings'.hooks = [c.hooks EXCEPT ![e] = entry]
      BY <1>1, <3>1, <3>2, <3>3 DEF SettingsFile
    <3>5. wanted'.line = wanted.line
      BY <3>1 DEF RestOK
    <3> QED  BY <3>1, <3>2, <3>3, <3>4, <3>5, InstallerAssumption
  <2>2. CASE JoinHook(e, h)
    <3> DEFINE old == settings.hooks[e]
               entry == [old EXCEPT !.joined = old.joined \cup {h}]
    <3>1. /\ settings' = [settings EXCEPT !.hooks = [settings.hooks EXCEPT ![e] = entry]]
          /\ wanted' = [wanted EXCEPT !.joined =
                          [wanted.joined EXCEPT ![e] = wanted.joined[e] \cup {h}]]
          /\ settings # NoFile /\ UNCHANGED mcp
      BY <2>2 DEF JoinHook
    <3>2. c = settings /\ settings \in SettingsFile /\ settings.hooks \in [Events -> EventEntry]
      BY <1>1, <3>1 DEF SettingsFile
    <3>3. entry \in EventEntry /\ entry.mesh = old.mesh /\ entry.own = old.own
      BY <3>2 DEF EventEntry
    <3> HIDE DEF entry, c
    <3>4. /\ settings' \in SettingsFile /\ settings'.line = settings.line
          /\ settings'.hooks = [settings.hooks EXCEPT ![e] = entry]
      BY <3>1, <3>2, <3>3 DEF SettingsFile
    <3>5. wanted'.line = wanted.line
      BY <3>1 DEF RestOK
    <3> QED  BY <3>1, <3>2, <3>3, <3>4, <3>5, InstallerAssumption
  <2> QED  BY <1>3, <2>1, <2>2
<1>4. CASE \E e \in Events, h \in Hooks : AddHook(e, h) \/ JoinHook(e, h)
  <2>1. /\ settings' # NoFile /\ settings'.line = c.line /\ mcp' = mcp
        /\ wanted'.line = wanted.line
        /\ \A f \in Events : /\ settings'.hooks[f].mesh = c.hooks[f].mesh
                             /\ c.hooks[f].own \subseteq settings'.hooks[f].own
    BY <1>3, <1>4
  <2> HIDE DEF c, m
  <2>2. HooksIn(settings) => HooksIn(settings)'
    BY <1>1, <2>1 DEF HooksIn, MentionsMesh
  <2>3. HooksOut(settings) => HooksOut(settings)'
    BY <1>2, <2>1 DEF HooksOut
  <2>4. (LineIn => LineIn') /\ (LineOut(settings) => LineOut(settings)')
    BY <1>1, <1>2, <2>1 DEF LineIn, LineOut
  <2>5. (McpIn => McpIn') /\ (McpOut => McpOut')
    BY <2>1 DEF McpIn, McpOut, Here
  <2> QED  BY <2>2, <2>3, <2>4, <2>5 DEF NothingUndone
<1>5. CASE TakeLine
  <2>1. settings' = [c EXCEPT !.line = "other"] /\ wanted' = [wanted EXCEPT !.line = TRUE]
        /\ mcp' = mcp
    BY <1>5 DEF TakeLine
  <2> HIDE DEF c, m
  <2>2. settings' \in SettingsFile /\ settings'.hooks = c.hooks /\ settings'.line = "other"
    BY <1>1, <2>1 DEF SettingsFile
  <2>3. settings' # NoFile /\ wanted'.line
    BY <2>1, <2>2, InstallerAssumption DEF RestOK
  <2>4. (HooksIn(settings) => HooksIn(settings)') /\ (HooksOut(settings) => HooksOut(settings)')
    BY <1>1, <1>2, <2>2, <2>3 DEF HooksIn, HooksOut
  <2>5. LineIn' /\ LineOut(settings)'
    BY <2>2, <2>3 DEF LineIn, LineOut
  <2>6. (McpIn => McpIn') /\ (McpOut => McpOut')
    BY <2>1 DEF McpIn, McpOut, Here
  <2> QED  BY <2>4, <2>5, <2>6 DEF NothingUndone
<1>6. ASSUME NEW d \in Places, NEW s \in Servers, NEW kind \in Server, AddServer(d, s, kind)
      PROVE  /\ settings' = settings /\ wanted'.line = wanted.line
             /\ Here' = Here \/ (Here' # NoFile /\ Here'.mesh = m.mesh)
  <2> DEFINE old == OrNew(mcp[d], NewMcp)
             new == [old EXCEPT !.others = [old.others EXCEPT ![s] = kind]]
             mine == [wanted.others EXCEPT ![d] = [wanted.others[d] EXCEPT ![s] = kind]]
  <2>1. /\ mcp' = [mcp EXCEPT ![d] = new] /\ settings' = settings
        /\ wanted' = [wanted EXCEPT !.others = mine]
    BY <1>6 DEF AddServer
  <2> HIDE DEF c, mine
  <2>2. wanted'.line = wanted.line
    BY <2>1 DEF RestOK
  <2>3. CASE d # at
    BY <2>1, <2>2, <2>3 DEF FilesOK, Here
  <2>4. CASE d = at
    <3>1. old = m
      BY <2>4 DEF Here
    <3> HIDE DEF old, m
    <3>2. new \in McpFile /\ new.mesh = m.mesh
      BY <1>1, <3>1 DEF McpFile
    <3> HIDE DEF new
    <3>3. Here' = new
      BY <2>1, <2>4, AtHere
    <3> QED  BY <2>1, <2>2, <3>2, <3>3, InstallerAssumption
  <2> QED  BY <2>3, <2>4
<1>7. CASE \E d \in Places, s \in Servers, kind \in Server : AddServer(d, s, kind)
  <2>1. /\ settings' = settings /\ wanted'.line = wanted.line
        /\ Here' = Here \/ (Here' # NoFile /\ Here'.mesh = m.mesh)
    BY <1>6, <1>7
  <2> HIDE DEF c, m
  <2>2. (McpIn => McpIn') /\ (McpOut => McpOut')
    BY <1>1, <1>2, <2>1 DEF McpIn, McpOut
  <2>3. (HooksIn(settings) => HooksIn(settings)') /\ (HooksOut(settings) => HooksOut(settings)')
    BY <2>1 DEF HooksIn, HooksOut
  <2>4. (LineIn => LineIn') /\ (LineOut(settings) => LineOut(settings)')
    BY <2>1 DEF LineIn, LineOut
  <2> QED  BY <2>2, <2>3, <2>4 DEF NothingUndone
<1>8. CASE settings # NoFile /\ settings' = [settings EXCEPT !.json = ~@] /\ mcp' = mcp
           /\ wanted' = wanted
  <2> HIDE DEF c, m
  <2>1. settings \in SettingsFile
    BY <1>1, <1>8
  <2>2. settings' \in SettingsFile /\ settings'.hooks = settings.hooks
        /\ settings'.line = settings.line
    BY <1>8, <2>1 DEF SettingsFile
  <2>3. settings' # NoFile
    BY <2>2, InstallerAssumption
  <2>4. (HooksIn(settings) => HooksIn(settings)') /\ (HooksOut(settings) => HooksOut(settings)')
    BY <1>8, <2>2, <2>3 DEF HooksIn, HooksOut
  <2>5. (LineIn => LineIn') /\ (LineOut(settings) => LineOut(settings)')
    BY <1>8, <2>2, <2>3 DEF LineIn, LineOut
  <2>6. (McpIn => McpIn') /\ (McpOut => McpOut')
    BY <1>8 DEF McpIn, McpOut, Here
  <2> QED  BY <2>4, <2>5, <2>6 DEF NothingUndone
<1>9. ASSUME NEW d \in Places, mcp[d] # NoFile, mcp' = [mcp EXCEPT ![d].json = ~@],
             settings' = settings, wanted' = wanted
      PROVE  NothingUndone
  <2> DEFINE new == [mcp[d] EXCEPT !.json = ~@]
  <2> HIDE DEF c, m
  <2>1. CASE d # at
    <3>1. Here' = Here
      BY <1>9, <2>1 DEF FilesOK, Here
    <3> QED  BY <1>9, <3>1 DEF NothingUndone, HooksIn, HooksOut, LineIn, LineOut, McpIn, McpOut
  <2>2. CASE d = at
    <3>1. mcp[d] \in McpFile /\ mcp[d] = Here
      BY <1>9, <2>2 DEF FilesOK, McpFiles, Here
    <3>2. new \in McpFile /\ new.mesh = Here.mesh
      BY <3>1 DEF McpFile
    <3>3. new # NoFile /\ Here # NoFile
      BY <1>9, <3>1, <3>2, InstallerAssumption
    <3>4. mcp' = [mcp EXCEPT ![at] = new]
      BY <1>9, <2>2
    <3> HIDE DEF new
    <3>5. Here' = new
      BY <3>4, AtHere
    <3>6. (McpIn => McpIn') /\ (McpOut => McpOut')
      BY <3>2, <3>3, <3>5 DEF McpIn, McpOut
    <3> QED  BY <1>9, <3>6 DEF NothingUndone, HooksIn, HooksOut, LineIn, LineOut
  <2> QED  BY <2>1, <2>2
<1>10. CASE BreakOrRepair
  BY <1>8, <1>9, <1>10 DEF BreakOrRepair
<1> QED  BY <1>4, <1>5, <1>7, <1>10 DEF UserStep

LEMMA UserProgress ==
  ASSUME FilesOK, RestOK, Progress, UserStep
  PROVE  Progress'
<1>1. UNCHANGED <<files, agentVars, cmd, outcome>>
  BY DEF UserStep, TakeLine, BreakOrRepair, AddHook, JoinHook, AddServer, UserEdits
<1> QED  BY <1>1, UserKeepsMesh, StaysPut

\* Nothing is promised of a fresh machine.
LEMMA ProgressInit == InstallerInit => Progress
<1> SUFFICES ASSUME InstallerInit PROVE Progress
  OBVIOUS
<1>1. cmd = Off /\ outcome = "none" /\ cmd.op = "none"
  BY OffFacts DEF InstallerInit
<1>2. CmdShape
  BY <1>1 DEF CmdShape
<1> QED  BY <1>1, <1>2 DEF Progress, InstallSoFar, InstallReached, UninstallSoFar,
     UninstallReached, Reached, FilesSoFar, ReadSoFar

\* Every step keeps Progress, given the type of what the command has read.
LEMMA ProgressNext == InstallerInv /\ Progress /\ [InstallerNext]_installerVars => Progress'
<1> SUFFICES ASSUME InstallerInv, Progress, [InstallerNext]_installerVars PROVE Progress'
  OBVIOUS
<1>1. FilesOK /\ RestOK /\ CmdOK /\ OutcomeOK
  BY Grouped DEF ReadOK
<1>2. CASE UNCHANGED installerVars
  <2>1. UNCHANGED <<files, settings, mcp, agentVars, at, cmd, wanted, outcome>>
    BY <1>2 DEF installerVars, diskVars
  <2>2. NothingUndone
    BY <2>1 DEF NothingUndone, HooksIn, HooksOut, LineIn, LineOut, McpIn, McpOut, Here
  <2> QED  BY <2>1, <2>2, StaysPut
<1>3. CASE \E op \in {"install", "uninstall"}, from \in {"build", "stable"}, dir \in Places :
             Run(op, from, dir)
  BY <1>1, <1>3, RunProgress
<1>4. CASE CommandStep
  <2>1. outcome \in {"none", "clean"}
    BY <1>1, <1>4, EndedTakesNoStep DEF OutcomeOK, Progress, CmdShape
  <2>2. CASE outcome = "none"
    BY <1>1, <1>4, <2>2, FailedProgress
  <2>3. CASE outcome = "clean"
    <3>1. Clean
      BY <1>1, <2>3 DEF Clean
    <3> QED  BY <1>4, <3>1, CopyOpenProgress, CopyWriteProgress, RemoveFileProgress,
             ReadFileProgress, SkipProgress, EditHooksProgress, EditLineProgress,
             EditMcpProgress, LaunchdProgress DEF CommandStep
  <2> QED  BY <2>1, <2>2, <2>3
<1>5. CASE Fail
  BY <1>1, <1>5, FailProgress
<1>6. CASE Kill
  BY <1>6, KillProgress
<1>7. CASE UserStep
  BY <1>1, <1>7, UserProgress
<1> QED  BY <1>2, <1>3, <1>4, <1>5, <1>6, <1>7 DEF InstallerNext

LEMMA ProgressInvariant == InstallerSpec => []Progress
BY InstallerInvariant, ProgressInit, ProgressNext, PTL DEF InstallerSpec

\* An install that reports success has put everything in place, whatever earlier
\* ones left, whatever the user does to the files meanwhile, and wherever the
\* binary that runs is (installer.go:61-63, 91-158).
THEOREM InstallIsComplete == InstallerSpec => []InstalledWhenDone
<1>1. Progress => InstalledWhenDone
  <2> SUFFICES ASSUME Progress, outcome = "installed"
               PROVE  /\ \A f \in FileNames : files[f] = "whole"
                      /\ settings # NoFile /\ Here # NoFile
                      /\ \A e \in Events : MentionsMesh(settings.hooks[e])
                      /\ settings.line = "mesh" \/ wanted.line
                      /\ Here.mesh = "stdio"
                      /\ Darwin => plist /\ loaded
    BY DEF InstalledWhenDone
  <2>1. /\ \A i \in Positions : Copied(i)
        /\ HooksIn(settings) /\ LineIn /\ McpIn /\ (Darwin => plist /\ loaded)
    BY DEF Progress, InstallSoFar, InstallReached, Reached
  <2>2. \A f \in FileNames : files[f] = "whole"
    BY <2>1 DEF Copied, Positions, FileNames
  <2> QED  BY <2>1, <2>2 DEF HooksIn, LineIn, McpIn
<1> QED  BY <1>1, ProgressInvariant, PTL

\* An uninstall that has printed no failure has left nothing of claude-mesh, but the
\* servers registered for other directories and an agent its own unload could not
\* stop, wherever it and the installs before it were run (installer.go:58, 160-206,
\* launchd.go:93-99).
THEOREM UninstallIsComplete == InstallerSpec => []UninstalledWhenDone
<1>1. Progress => UninstalledWhenDone
  <2> SUFFICES ASSUME Progress, outcome = "uninstalled"
               PROVE  /\ \A f \in FileNames : files[f] = "absent"
                      /\ settings # NoFile =>
                           settings.line # "mesh" /\ \A e \in Events : settings.hooks[e].mesh = 0
                      /\ Here # NoFile => Here.mesh = "none"
                      /\ Darwin => ~plist /\ (loaded => unheard)
    BY DEF UninstalledWhenDone
  <2>1. /\ \A i \in Positions : Removed(i)
        /\ HooksOut(settings) /\ LineOut(settings) /\ McpOut /\ (Darwin => ~plist /\ AgentOut)
    BY DEF Progress, UninstallSoFar, UninstallReached, Reached
  <2>2. \A f \in FileNames : files[f] = "absent"
    BY <2>1 DEF Removed, Positions, FileNames
  <2> QED  BY <2>1, <2>2 DEF HooksOut, LineOut, McpOut, AgentOut
<1> QED  BY <1>1, ProgressInvariant, PTL

===============================================================================
