------------------------------ MODULE Installer ------------------------------
(***************************************************************************)
(* `install' and `uninstall' (internal/installer): two commands that edit  *)
(* files which the user and other programs edit as well.  One command runs *)
(* at a time; it can fail or be killed between any two of its system calls *)
(* and be run again, and the user edits the files whenever it pleases.     *)
(*                                                                         *)
(*   files[f]   a copied binary or hook script                             *)
(*   settings   ~/.claude/settings.json: of each hook event, how many      *)
(*              matcher groups of claude-mesh there are, the user's hooks  *)
(*              that joined them and those in groups of their own; the     *)
(*              statusLine; and whether the file is JSON at all            *)
(*   mcp[d]     .mcp.json of a git repository, or that of ~/.claude: what  *)
(*              is registered under each server's name.  A command edits    *)
(*              the one that belongs to the directory it is run in         *)
(*   plist, loaded   the launchd agent                                     *)
(*                                                                         *)
(* atomicWrite replaces a file by a rename, one step; a copy truncates its *)
(* target first.  The .bak files are write-only and left out.              *)
(***************************************************************************)
EXTENDS Integers, Sequences

CONSTANTS
  Files,        \* the files that are copied, in their order
  Binaries,     \* those of them that are not hook scripts
  Events,       \* SessionStart, PreToolUse, Stop
  Hooks,        \* the user's own hooks
  Naming,       \* those whose command has "claude-mesh-" in it
  Servers,      \* the user's own MCP servers
  Places,       \* the git repositories, and ~/.claude for what is in none
  NoFile,       \* the file does not exist
  NotRead,      \* the command has not read the file of its stage yet
  Opened,       \* ... or has truncated the file it copies
  MaxEdits,     \* bound: how many edits the user makes
  Darwin        \* runtime.GOOS == "darwin"

FileNames == {Files[i] : i \in 1 .. Len(Files)}
Scripts == FileNames \ Binaries

EventEntry == [mesh : Nat, joined : SUBSET Hooks, own : SUBSET Hooks]
SettingsFile ==
  [json : BOOLEAN, hooks : [Events -> EventEntry],
   line : {"none", "mesh", "other"}]

\* A server is a command ("stdio") or a URL; "blank" is one that lost its URL.
Server == {"none", "stdio", "url", "blank"}
McpFile == [json : BOOLEAN, mesh : {"none", "stdio"}, others : [Servers -> Server]]

ASSUME InstallerAssumption ==
  /\ Files \in Seq(STRING) /\ Files # <<>> /\ Files[1] \in Binaries /\ Scripts # {}
  /\ \A i, j \in 1 .. Len(Files) : Files[i] = Files[j] => i = j
  /\ Naming \subseteq Hooks /\ MaxEdits \in Nat /\ Darwin \in BOOLEAN
  /\ NoFile \notin SettingsFile /\ NoFile \notin McpFile /\ Opened # NotRead

VARIABLES
  files, settings, mcp, plist, loaded,
  at,           \* whose .mcp.json the command edits, or the last one did
  unheard,      \* history: the last unload has left the agent, and nobody was told
  edits,        \* the user's edits so far
  cmd,          \* the running command: what it is, where it is, what it read
  wanted,       \* history: what the user has put into the two files
  overtaken,    \* history: a rename has undone an edit made since the read
  outcome       \* history: "clean" while a command runs and no step of it has
                \* failed, then "installed" or "uninstalled"

agentVars == <<plist, loaded, unheard>>
diskVars == <<files, settings, mcp, agentVars, edits>>
installerVars == <<diskVars, at, cmd, wanted, overtaken, outcome>>

\* p.MCPJson of the command.
Here == mcp[at]

NoEntry == [mesh |-> 0, joined |-> {}, own |-> {}]
NewSettings == [json |-> TRUE, hooks |-> [e \in Events |-> NoEntry], line |-> "none"]

NewMcp == [json |-> TRUE, mesh |-> "none", others |-> [s \in Servers |-> "none"]]

Off == [op |-> "none", from |-> "build", stage |-> "none", file |-> 1, raw |-> NotRead]

InstallerInit ==
  /\ files = [f \in FileNames |-> "absent"]
  /\ settings \in {NoFile, NewSettings} /\ mcp \in [Places -> {NoFile, NewMcp}]
  /\ plist = FALSE /\ loaded = FALSE /\ unheard = FALSE /\ edits = 0
  /\ at \in Places
  /\ cmd = Off
  /\ wanted = [own |-> [e \in Events |-> {}], joined |-> [e \in Events |-> {}],
               line |-> FALSE, others |-> [d \in Places |-> NewMcp.others]]
  /\ overtaken = FALSE /\ outcome = "none"

-----------------------------------------------------------------------------
(* What the edits compute from the contents they read.                     *)

OrNew(raw, new) == IF raw = NoFile THEN new ELSE raw

\* isClaudeMeshAlreadyPresent and the filter of removeClaudeMeshEntries both go
\* by the text "claude-mesh-" anywhere in the JSON.
MentionsMesh(entry) == entry.mesh > 0 \/ entry.own \cap Naming # {}

WithHookTwice(entry) ==   \* bug: no check that it is there
  [entry EXCEPT !.mesh = @ + 1]

WithHook(entry) == IF MentionsMesh(entry) THEN entry ELSE [entry EXCEPT !.mesh = @ + 1]

WithoutEvent(entry) ==   \* bug: the event's list goes, not the entries
  IF MentionsMesh(entry) THEN NoEntry ELSE entry

\* A matcher group goes as a whole, with the hooks that joined it.
WithoutHook(entry) == [mesh |-> 0, joined |-> {}, own |-> entry.own \ Naming]

PatchSettings(c) == [c EXCEPT !.hooks = [e \in Events |-> WithHook(@[e])]]
RemoveHooks(c) == [c EXCEPT !.hooks = [e \in Events |-> WithoutHook(@[e])]]

PatchStatusLine(c) == [c EXCEPT !.line = "mesh"]
RemoveStatusLine(c) == [c EXCEPT !.line = IF @ = "mesh" THEN "none" ELSE @]

\* mcpServerEntry has fields for a command only.
Decoded(c) ==
  [c EXCEPT !.others = [s \in Servers |-> IF @[s] = "url" THEN "blank" ELSE @[s]]]

\* An entry that is there, whatever it says, makes PatchMCP leave the file alone.
PatchMCP(c) == IF c.mesh # "none" THEN c ELSE [Decoded(c) EXCEPT !.mesh = "stdio"]
RemoveMCP(c) == [Decoded(c) EXCEPT !.mesh = "none"]

-----------------------------------------------------------------------------
(* The two commands, stage by stage.                                       *)

FirstStage(op) == IF op = "install" THEN "copy" ELSE IF Darwin THEN "unload" ELSE "remove"

InstallAfter ==
  [copy |-> "hooks", hooks |-> "line", line |-> "mcp", mcp |-> IF Darwin THEN "plist" ELSE "done",
   plist |-> "unload", unload |-> "load", load |-> "done"]
UninstallAfter ==
  [unload |-> "unplist", unplist |-> "remove", remove |-> "hooks", hooks |-> "line",
   line |-> "mcp", mcp |-> "done"]
StageAfter(stage) == IF cmd.op = "install" THEN InstallAfter[stage] ELSE UninstallAfter[stage]

InStage(op, stage) == cmd.op = op /\ cmd.stage = stage

FollowingOneMore ==   \* bug: off by one
  IF cmd.stage \in {"copy", "remove"} /\ cmd.file <= Len(Files)
  THEN [cmd EXCEPT !.file = @ + 1, !.raw = NotRead]
  ELSE IF StageAfter(cmd.stage) = "done" THEN Off
  ELSE [cmd EXCEPT !.stage = StageAfter(cmd.stage), !.raw = NotRead]

\* Where the command is when it is done with the current step.
Following ==
  IF cmd.stage \in {"copy", "remove"} /\ cmd.file < Len(Files)
  THEN [cmd EXCEPT !.file = @ + 1, !.raw = NotRead]
  ELSE IF StageAfter(cmd.stage) = "done" THEN Off
  ELSE [cmd EXCEPT !.stage = StageAfter(cmd.stage), !.raw = NotRead]

StepDone ==
  /\ cmd' = Following
  /\ outcome' = IF Following # Off THEN outcome
                ELSE IF outcome # "clean" THEN "none"
                ELSE IF cmd.op = "install" THEN "installed" ELSE "uninstalled"

\* install takes its sources from where the binary that runs is: the build, or the
\* stable copy of an earlier install, if that is whole and the others exist.  Which
\* .mcp.json it edits, detectMCPJsonPath asks git in the directory it is run in.
Run(op, from, dir) ==
  /\ cmd.op = "none"
  /\ from = "stable" => /\ op = "install" /\ files[Files[1]] = "whole"
                        /\ \A f \in FileNames \cap Binaries : files[f] # "absent"
  /\ cmd' = [op |-> op, from |-> from, stage |-> FirstStage(op), file |-> 1, raw |-> NotRead]
  /\ at' = dir /\ outcome' = "clean"
  /\ UNCHANGED <<diskVars, wanted, overtaken>>

\* Next to the stable copy there are no hooks, and Linux truncates no binary that runs.
HasSource == cmd.from = "build" \/ (Darwin /\ Files[cmd.file] \in Binaries)

CopyOpenIfMissing ==   \* bug: a file that exists is taken for installed
  /\ InStage("install", "copy") /\ cmd.raw = NotRead /\ HasSource
  /\ IF files[Files[cmd.file]] = "absent"
     THEN /\ files' = [files EXCEPT ![Files[cmd.file]] = "partial"]
          /\ cmd' = [cmd EXCEPT !.raw = Opened]
          /\ UNCHANGED outcome
     ELSE UNCHANGED files /\ StepDone
  /\ UNCHANGED <<edits, settings, mcp, agentVars, at, wanted, overtaken>>

\* copyFile: O_TRUNC ...
CopyOpen ==
  /\ InStage("install", "copy") /\ cmd.raw = NotRead /\ HasSource
  /\ files' = [files EXCEPT ![Files[cmd.file]] = "partial"]
  /\ cmd' = [cmd EXCEPT !.raw = Opened]
  /\ UNCHANGED <<edits, settings, mcp, agentVars, at, wanted, overtaken, outcome>>

\* ... and the contents, which are gone when the file is its own source.
CopyWrite ==
  /\ InStage("install", "copy") /\ cmd.raw = Opened
  /\ files' = IF cmd.from = "build" THEN [files EXCEPT ![Files[cmd.file]] = "whole"] ELSE files
  /\ StepDone
  /\ UNCHANGED <<edits, settings, mcp, agentVars, at, wanted, overtaken>>

RemoveFileUnlessGone ==   \* bug: a file that is gone ends the loop
  LET f == Files[cmd.file] IN
  /\ InStage("uninstall", "remove")
  /\ files' = [files EXCEPT ![f] = "absent"]
  /\ IF files[f] = "absent"
     THEN /\ cmd' = [cmd EXCEPT !.stage = StageAfter("remove")]
          /\ UNCHANGED outcome
     ELSE StepDone
  /\ UNCHANGED <<edits, settings, mcp, agentVars, at, wanted, overtaken>>

RemoveFile ==
  /\ InStage("uninstall", "remove")
  /\ files' = [files EXCEPT ![Files[cmd.file]] = "absent"]
  /\ StepDone
  /\ UNCHANGED <<edits, settings, mcp, agentVars, at, wanted, overtaken>>

\* The read of an edit.
ReadFile ==
  /\ cmd.stage \in {"hooks", "line", "mcp"} /\ cmd.raw = NotRead
  /\ cmd' = [cmd EXCEPT !.raw = IF cmd.stage = "mcp" THEN Here ELSE settings]
  /\ UNCHANGED <<diskVars, at, wanted, overtaken, outcome>>

HasRead(stage) == cmd.stage = stage /\ cmd.raw # NotRead

\* An edit that leaves the file alone.
Skips(stage) ==
  \/ cmd.op = "uninstall" /\ cmd.raw = NoFile
  \/ /\ cmd.raw # NoFile /\ cmd.raw.json
     /\ \/ stage = "line" /\ (cmd.raw.line = "mesh") = (cmd.op = "install")
        \/ stage = "mcp" /\ cmd.op = "install" /\ cmd.raw.mesh # "none"

Skip ==
  /\ \E stage \in {"hooks", "line", "mcp"} : HasRead(stage) /\ Skips(stage)
  /\ StepDone
  /\ UNCHANGED <<diskVars, at, wanted, overtaken>>

\* The rename that ends an edit; the file may have changed since the read.
WriteSettings(stage, contents) ==
  /\ HasRead(stage) /\ ~Skips(stage) /\ OrNew(cmd.raw, NewSettings).json
  /\ settings' = contents
  /\ overtaken' = (overtaken \/ settings # cmd.raw)
  /\ wanted' = IF stage = "line" THEN [wanted EXCEPT !.line = FALSE] ELSE wanted
  /\ StepDone
  /\ UNCHANGED <<edits, files, mcp, agentVars, at>>

EditHooks ==
  LET c == OrNew(cmd.raw, NewSettings) IN
  WriteSettings("hooks", IF cmd.op = "install" THEN PatchSettings(c) ELSE RemoveHooks(c))

EditLine ==
  LET c == OrNew(cmd.raw, NewSettings) IN
  WriteSettings("line", IF cmd.op = "install" THEN PatchStatusLine(c) ELSE RemoveStatusLine(c))

EditMcp ==
  LET c == OrNew(cmd.raw, NewMcp) IN
  /\ HasRead("mcp") /\ ~Skips("mcp") /\ c.json
  /\ mcp' = [mcp EXCEPT ![at] = IF cmd.op = "install" THEN PatchMCP(c) ELSE RemoveMCP(c)]
  /\ overtaken' = (overtaken \/ Here # cmd.raw)
  /\ StepDone
  /\ UNCHANGED <<edits, files, settings, agentVars, at, wanted>>

\* RenderPlist, launchctl load and the removal of the plist.
Launchd ==
  /\ \/ cmd.stage = "plist" /\ plist' = TRUE /\ UNCHANGED loaded
     \/ cmd.stage = "unplist" /\ plist' = FALSE /\ UNCHANGED loaded
     \/ cmd.stage = "load" /\ loaded' = plist /\ UNCHANGED plist
  /\ StepDone
  /\ UNCHANGED <<edits, files, settings, mcp, unheard, at, wanted, overtaken>>

\* launchctl unload, which finds the agent by its plist.  That it fails is told
\* neither by install nor by uninstall.
Unload ==
  /\ cmd.stage = "unload"
  /\ \/ plist /\ loaded' = FALSE /\ unheard' = FALSE
     \/ UNCHANGED loaded /\ unheard' = loaded
  /\ StepDone
  /\ UNCHANGED <<edits, files, settings, mcp, plist, at, wanted, overtaken>>

\* A system call fails, or the file that was read is not JSON: install returns
\* the error, uninstall prints it and goes on.
Fail ==
  /\ cmd.op # "none" /\ cmd.stage # "unload"
  /\ cmd' = IF cmd.op = "install" THEN Off ELSE Following
  /\ outcome' = "none"
  /\ UNCHANGED <<diskVars, at, wanted, overtaken>>

Kill ==
  /\ cmd.op # "none"
  /\ cmd' = Off /\ outcome' = "none"
  /\ UNCHANGED <<diskVars, at, wanted, overtaken>>

CommandStep ==
  \/ CopyOpen \/ CopyWrite \/ RemoveFile \/ ReadFile
  \/ Skip \/ EditHooks \/ EditLine \/ EditMcp \/ Launchd \/ Unload

-----------------------------------------------------------------------------
(* The user, Claude Code and other installers.                             *)

UserEdits ==
  /\ edits < MaxEdits
  /\ edits' = edits + 1
  /\ UNCHANGED <<files, agentVars, at, cmd, overtaken, outcome>>

\* A hook in a matcher group of its own.
AddHook(e, h) ==
  LET c == OrNew(settings, NewSettings) IN
  /\ c.json
  /\ settings' = [c EXCEPT !.hooks[e].own = @ \cup {h}]
  /\ wanted' = [wanted EXCEPT !.own[e] = @ \cup {h}]
  /\ UserEdits /\ UNCHANGED mcp

\* A hook added to the matcher group that claude-mesh made.
JoinHook(e, h) ==
  /\ settings # NoFile /\ settings.json /\ settings.hooks[e].mesh > 0
  /\ settings' = [settings EXCEPT !.hooks[e].joined = @ \cup {h}]
  /\ wanted' = [wanted EXCEPT !.joined[e] = @ \cup {h}]
  /\ UserEdits /\ UNCHANGED mcp

TakeLine ==
  LET c == OrNew(settings, NewSettings) IN
  /\ c.json
  /\ settings' = [c EXCEPT !.line = "other"]
  /\ wanted' = [wanted EXCEPT !.line = TRUE]
  /\ UserEdits /\ UNCHANGED mcp

AddServer(d, s, kind) ==
  LET c == OrNew(mcp[d], NewMcp) IN
  /\ c.json /\ kind \in {"stdio", "url"}
  /\ mcp' = [mcp EXCEPT ![d] = [c EXCEPT !.others[s] = kind]]
  /\ wanted' = [wanted EXCEPT !.others[d][s] = kind]
  /\ UserEdits /\ UNCHANGED settings

\* A typo, and its correction.
BreakOrRepair ==
  /\ \/ /\ settings # NoFile /\ settings' = [settings EXCEPT !.json = ~@]
        /\ UNCHANGED mcp
     \/ /\ \E d \in Places : mcp[d] # NoFile /\ mcp' = [mcp EXCEPT ![d].json = ~@]
        /\ UNCHANGED settings
  /\ UserEdits /\ UNCHANGED wanted

UserStep ==
  \/ TakeLine \/ BreakOrRepair
  \/ \E e \in Events, h \in Hooks : AddHook(e, h) \/ JoinHook(e, h)
  \/ \E d \in Places, s \in Servers, kind \in Server : AddServer(d, s, kind)

InstallerNext ==
  \/ \E op \in {"install", "uninstall"}, from \in {"build", "stable"}, dir \in Places :
       Run(op, from, dir)
  \/ CommandStep \/ Fail \/ Kill \/ UserStep

InstallerSpec == InstallerInit /\ [][InstallerNext]_installerVars

-----------------------------------------------------------------------------
(* Properties.                                                             *)

SettingsFiles == SettingsFile \cup {NoFile}
McpFiles == McpFile \cup {NoFile}

\* Every variable has its type (installer.go:19-38, hooks.go:14-23, mcp.go:12-20).
InstallerTypeOK ==
  /\ files \in [FileNames -> {"absent", "partial", "whole"}]
  /\ settings \in SettingsFiles /\ mcp \in [Places -> McpFiles] /\ at \in Places
  /\ edits \in 0 .. MaxEdits
  /\ plist \in BOOLEAN /\ loaded \in BOOLEAN /\ unheard \in BOOLEAN /\ overtaken \in BOOLEAN
  /\ DOMAIN cmd = {"op", "from", "stage", "file", "raw"} /\ cmd.from \in {"build", "stable"}
  /\ cmd.op \in {"none", "install", "uninstall"} /\ cmd.file \in 1 .. Len(Files)
  /\ cmd.stage \in {"hooks", "line"} => cmd.raw \in SettingsFiles \cup {NotRead}
  /\ cmd.stage = "mcp" => cmd.raw \in McpFiles \cup {NotRead}
  /\ wanted \in [own : [Events -> SUBSET Hooks], joined : [Events -> SUBSET Hooks],
                  line : BOOLEAN, others : [Places -> [Servers -> Server]]]
  /\ outcome \in {"none", "clean", "installed", "uninstalled"}

OneGroup(c) == c # NoFile => \A e \in Events : c.hooks[e].mesh <= 1

\* However often install is run, killed and run again, and whatever is edited in
\* between, no event runs the hook of claude-mesh twice (hooks.go:141-149).
OneMeshGroup ==
  /\ OneGroup(settings)
  /\ cmd.stage \in {"hooks", "line"} /\ cmd.raw # NotRead => OneGroup(cmd.raw)

\* An install that reports success has put everything in place, whatever state
\* earlier runs that failed or were killed have left, and wherever it was run from:
\* one that has emptied the binaries it copies onto themselves does not get to its
\* end (installer.go:61-63, 91-158).  The server is registered for the directory it
\* was run in.  The user may have taken the status line; and an event with a hook of
\* the user's own that names claude-mesh gets none of the installer's.
InstalledWhenDone ==
  outcome = "installed" =>
    /\ \A f \in FileNames : files[f] = "whole"
    /\ settings # NoFile /\ Here # NoFile
    /\ \A e \in Events : MentionsMesh(settings.hooks[e])
    /\ settings.line = "mesh" \/ wanted.line
    /\ Here.mesh = "stdio"
    /\ Darwin => plist /\ loaded

\* An uninstall that has printed no failure has left nothing of claude-mesh but
\* what it is blind to, however little of it there was (installer.go:160-206): the
\* servers that installs run in other directories have registered; and an agent that
\* goes on running because this uninstall's own unload has failed, which happens
\* too when an earlier one has taken the plist and left the agent (launchd.go:94-101).
UninstalledWhenDone ==
  outcome = "uninstalled" =>
    /\ \A f \in FileNames : files[f] = "absent"
    /\ settings # NoFile =>
         settings.line # "mesh" /\ \A e \in Events : settings.hooks[e].mesh = 0
    /\ Here # NoFile => Here.mesh = "none"
    /\ Darwin => ~plist /\ (loaded => unheard)

\* Hooks in groups of their own that do not name claude-mesh, and MCP servers
\* that are commands, survive any sequence of installs, uninstalls, failures and
\* kills (installer.go:167), unless one of them is added between the read and the
\* rename of an edit, which is no transaction.
UnrelatedKept ==
  ~overtaken =>
    /\ \A e \in Events : wanted.own[e] \ Naming # {} =>
         settings # NoFile /\ wanted.own[e] \ Naming \subseteq settings.hooks[e].own
    /\ \A d \in Places, s \in Servers : wanted.others[d][s] = "stdio" =>
         mcp[d] # NoFile /\ mcp[d].others[s] = "stdio"

\* installer.go:167, "NeuroStack hooks and other unrelated entries are NEVER
\* removed", and integration_test.go:327, an unrelated MCP entry "must NOT be
\* touched": every hook and server of the user's stays what it was.
UnrelatedUntouched ==
  ~overtaken =>
    /\ \A e \in Events : wanted.joined[e] # {} =>
         settings # NoFile /\ wanted.joined[e] \subseteq settings.hooks[e].joined
    /\ \A d \in Places, s \in Servers : wanted.others[d][s] # "none" =>
         mcp[d] # NoFile /\ mcp[d].others[s] = wanted.others[d][s]

=============================================================================
