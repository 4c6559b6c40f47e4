------------------------------ MODULE Transcripts ------------------------------
(***************************************************************************)
(* The JSONL transcripts under ~/.claude/projects and those who read them  *)
(* while Claude Code goes on appending: the daemon's poll reads them all   *)
(* (internal/usagestats), a status line the tail of its session's          *)
(* (internal/contextusage).  Nothing is locked, a line may be half written *)
(* when it is reached, and both readers end where the file ends then.      *)
(*                                                                         *)
(* Of a line the model keeps what it counts for, where in the file it      *)
(* starts, its length with the newline, how much of it is still to be      *)
(* written and how long ago it was stamped.  The readers write nothing:    *)
(* one of them at a time is enough.                                        *)
(***************************************************************************)
EXTENDS Integers, Sequences, FiniteSetsExt

CONSTANTS
  Files, Projects,
  ProjectOf,        \* the directory that each transcript is in
  Shapes,           \* what sessions write: kinds of line with their lengths
  FiveHours, Week,  \* the two windows
  MaxLineBytes,     \* usagestats: the longest line its scanner takes
  ReadTailBytes,    \* contextusage: how much of the end is read ...
  MaxLines,         \* ... and how many lines of that
  MaxScan,          \* bound: how long a scan takes
  MaxWritten,       \* bound: lines that are ever written
  None              \* no file

Kinds == {"usage", "system", "other"}

ASSUME TranscriptsAssumption ==
  /\ ProjectOf \in [Files -> Projects]
  /\ Shapes \subseteq [kind : Kinds, size : Nat \ 0 .. 2]
  /\ FiveHours \in Nat /\ Week \in Nat /\ FiveHours <= Week
  /\ MaxLineBytes \in Nat /\ ReadTailBytes \in Nat /\ MaxLines \in Nat \ {0}
  /\ MaxScan \in Nat /\ MaxWritten \in Nat
  /\ None \notin Files

VARIABLES
  files,    \* the lines of each transcript; without any it does not exist
  scan,     \* the daemon's scan
  known,    \* history: the usage lines that the scan must not miss
  parse,    \* a status line's look at the tail
  newest    \* history: the newest line in that tail it should find, or 0

transcriptVars == <<files, scan, known, parse, newest>>

\* Past the last of these nothing tells ages apart.
Age == 0 .. Week + MaxScan + 1

\* usage: an assistant message with tokens; system: a system_message with a
\* percentage; other: any other line.  left is 1 when the newline is to come, 2
\* when there is no reading the line yet.
Line == [kind : Kinds, start : Nat, size : Nat \ 0 .. 2, age : Age, left : 0 .. 2]

Id == [file : Files, line : Nat \ {0}]

NoScan == [pc |-> "off", projects |-> {}, files |-> {}, file |-> None, pos |-> 0,
           part |-> {}, got |-> {}, took |-> 0]

NoParse == [pc |-> "off", file |-> None, first |-> 1, pos |-> 0, usable |-> {}]

TranscriptsInit ==
  /\ files = [f \in Files |-> <<>>]
  /\ scan = NoScan /\ known = {}
  /\ parse = NoParse /\ newest = 0

LineOf(id) == files[id.file][id.line]

\* What there is of a line.
Bytes(l) == l.size - l.left

\* The length of the file, and where a line starts that it has or will have next.
FileSize(f) ==
  LET n == Len(files[f]) IN IF n = 0 THEN 0 ELSE files[f][n].start + Bytes(files[f][n])

Start(f, i) == IF i \in DOMAIN files[f] THEN files[f][i].start ELSE FileSize(f)

Ended(l) == l.left = 0
Legible(l) == l.left < 2

\* bufio.ErrTooLong: max bytes and no newline among them.
TooLong(l, max) == (IF Ended(l) THEN l.size - 1 ELSE Bytes(l)) >= max

\* What is left to read after line pos is at most a line without its end, which
\* the scanner takes for one.
AtEnd(f, pos) == \A i \in pos + 1 .. Len(files[f]) : i = Len(files[f]) /\ ~Ended(files[f][i])

Rest(f, pos) == {[file |-> f, line |-> i] : i \in pos + 1 .. Len(files[f])}

-----------------------------------------------------------------------------
(* The sessions.                                                           *)

\* A line is appended, and some of it may be seen before the rest.
Write(f, shape, left) ==
  /\ \A i \in DOMAIN files[f] : Ended(files[f][i])
  /\ MapThenSumSet(LAMBDA g : Len(files[g]), Files) < MaxWritten
  /\ files' = [files EXCEPT ![f] =
       Append(@, [kind |-> shape.kind, start |-> FileSize(f), size |-> shape.size,
                  age |-> 0, left |-> left])]
  /\ UNCHANGED <<scan, known, parse, newest>>

Finish(f) ==
  /\ \E i \in DOMAIN files[f] : ~Ended(files[f][i])
  /\ files' = [files EXCEPT ![f][Len(files[f])].left = 0]
  /\ UNCHANGED <<scan, known, parse, newest>>

-----------------------------------------------------------------------------
(* The daemon's scan: ScanProjects and the two windows.                    *)

ByScan == UNCHANGED <<files, parse, newest>>

\* An error costs what the scan would have found there.
Forget(f) == known' = {id \in known : id.file # f}

Exists(f) == files[f] # <<>>

\* An assistant line with tokens.
CountsAsUsage(l) == Legible(l) /\ l.kind = "usage"

StartScan ==
  /\ scan.pc = "off" /\ parse.pc = "off"
  /\ scan' = [NoScan EXCEPT !.pc = "scan", !.projects = {ProjectOf[f] : f \in {g \in Files : Exists(g)}}]
  /\ known' = {id \in UNION {Rest(f, 0) : f \in Files} : CountsAsUsage(LineOf(id))}
  /\ ByScan

Between == scan.pc = "scan" /\ scan.file = None

\* ReadDir of one project, when the one before is done.
ListProject(p) ==
  /\ Between /\ scan.files = {} /\ p \in scan.projects
  /\ scan' = [scan EXCEPT !.projects = @ \ {p},
                          !.files = {f \in Files : Exists(f) /\ ProjectOf[f] = p}]
  /\ UNCHANGED known /\ ByScan

ProjectFails(p) ==
  /\ Between /\ scan.files = {} /\ p \in scan.projects
  /\ scan' = [scan EXCEPT !.projects = @ \ {p}]
  /\ known' = {id \in known : ProjectOf[id.file] # p}
  /\ ByScan

OpenFile(f) ==
  /\ Between /\ f \in scan.files
  /\ scan' = [scan EXCEPT !.files = @ \ {f}, !.file = f, !.pos = 0, !.part = {}]
  /\ UNCHANGED known /\ ByScan

OpenFails(f) ==
  /\ Between /\ f \in scan.files
  /\ scan' = [scan EXCEPT !.files = @ \ {f}]
  /\ Forget(f) /\ ByScan

TakenFromNow(l) == CountsAsUsage(l) /\ l.age <= FiveHours   \* bug: since the other window

\* Not before `since', which was taken when the scan began.
Taken(l) == CountsAsUsage(l) /\ l.age <= Week + scan.took

ReadLine ==
  LET id == [file |-> scan.file, line |-> scan.pos + 1] IN
  /\ scan.pc = "scan" /\ scan.file # None
  /\ scan.pos < Len(files[scan.file]) /\ Ended(LineOf(id))
  /\ ~TooLong(LineOf(id), MaxLineBytes)
  /\ scan' = [scan EXCEPT !.pos = @ + 1,
                          !.part = IF Taken(LineOf(id)) THEN @ \cup {id} ELSE @]
  /\ UNCHANGED known /\ ByScan

\* The lines that the end of the file gives.
LastTaken == {id \in Rest(scan.file, scan.pos) : Taken(LineOf(id))}

EndFile ==
  /\ scan.pc = "scan" /\ scan.file # None
  /\ AtEnd(scan.file, scan.pos)
  /\ \A id \in Rest(scan.file, scan.pos) : ~TooLong(LineOf(id), MaxLineBytes)
  /\ scan' = [scan EXCEPT !.file = None, !.part = {}, !.got = @ \cup scan.part \cup LastTaken]
  /\ UNCHANGED known /\ ByScan

\* scanner.Err: the lines before the one that is too long go with it.
FileFails ==
  /\ scan.pc = "scan" /\ scan.file # None
  /\ scan.pos < Len(files[scan.file])
  /\ TooLong(files[scan.file][scan.pos + 1], MaxLineBytes)
  /\ scan' = [scan EXCEPT !.file = None, !.part = {}]
  /\ Forget(scan.file) /\ ByScan

\* The second time.Now of the poll.
Sum ==
  /\ Between /\ scan.files = {} /\ scan.projects = {}
  /\ scan' = [scan EXCEPT !.pc = "sum"]
  /\ UNCHANGED known /\ ByScan

FiveHourEntries == {id \in scan.got : LineOf(id).age <= FiveHours}
WeekEntries == {id \in scan.got : LineOf(id).age <= Week}

EndScan ==
  /\ scan.pc = "sum"
  /\ scan' = NoScan /\ known' = {}
  /\ ByScan

-----------------------------------------------------------------------------
(* A status line: contextusage.Parse.                                      *)

ByParse == UNCHANGED <<files, scan, known>>

Usable(l) == Legible(l) /\ l.kind \in {"usage", "system"}

UsableIn(f, S) == {i \in S : Usable(files[f][i])}

FirstTokenCut(line, piece) == line - 1   \* bug: the tail always begins with a piece

\* What the tail holds of the line before its first is a token too, but for a mere
\* newline.
FirstToken(line, piece) == IF piece > 1 THEN line - 1 ELSE line

\* Stat and Seek.  A piece without an end is no token.
StartParse(f) ==
  LET seekPos == Max({0, FileSize(f) - ReadTailBytes})
      tail == {i \in 1 .. Len(files[f]) + 1 : Start(f, i) >= seekPos}
      line == Min(tail)
      piece == Start(f, line) - seekPos
      usable == {i \in UsableIn(f, tail \cap DOMAIN files[f]) : files[f][i].size <= ReadTailBytes}
  IN
  /\ scan.pc = "off" /\ parse.pc = "off" /\ Exists(f)
  /\ parse' = [NoParse EXCEPT
       !.pc = IF piece > 0 /\ ~Ended(files[f][line - 1]) THEN "done" ELSE "read",
       !.file = f, !.first = FirstToken(line, piece), !.pos = line - 1]
  /\ newest' = IF usable = {} THEN 0 ELSE Max(usable)
  /\ ByParse

ScanLine ==
  LET i == parse.pos + 1 IN
  /\ parse.pc = "read" /\ i <= Len(files[parse.file])
  /\ Ended(files[parse.file][i]) /\ ~TooLong(files[parse.file][i], ReadTailBytes)
  /\ parse' = [parse EXCEPT !.pos = i, !.usable = @ \cup UsableIn(parse.file, {i})]
  /\ UNCHANGED newest /\ ByParse

\* The scanner stops at a line that is too long, and nobody asks why.
ScanStops ==
  /\ parse.pc = "read" /\ parse.pos < Len(files[parse.file])
  /\ TooLong(files[parse.file][parse.pos + 1], ReadTailBytes)
  /\ parse' = [parse EXCEPT !.pc = "done"]
  /\ UNCHANGED newest /\ ByParse

\* The end of the file.
ScanEnds ==
  LET f == parse.file IN
  /\ parse.pc = "read" /\ AtEnd(f, parse.pos)
  /\ \A id \in Rest(f, parse.pos) : ~TooLong(LineOf(id), ReadTailBytes)
  /\ parse' = [parse EXCEPT !.pc = "done", !.pos = Len(files[f]),
                            !.usable = @ \cup UsableIn(f, parse.pos + 1 .. Len(files[f]))]
  /\ UNCHANGED newest /\ ByParse

InspectedFirst ==   \* bug: the first of the tokens
  {i \in parse.first .. parse.pos : i < parse.first + MaxLines}

\* The last MaxLines tokens.
Inspected == {i \in parse.first .. parse.pos : i > parse.pos - MaxLines}

\* The newest of them that says how full the context is, or 0.
Found == Max({0} \cup (Inspected \cap parse.usable))

EndParse ==
  /\ parse.pc = "done"
  /\ parse' = NoParse /\ newest' = 0
  /\ ByParse

-----------------------------------------------------------------------------

Older(l) == [l EXCEPT !.age = Min({l.age + 1, Week + MaxScan + 1})]

\* Time passes, which the scan alone can tell; it is over after MaxScan.
Tick ==
  /\ parse.pc = "off"
  /\ scan.pc = "off" \/ scan.took < MaxScan
  /\ files' = [f \in Files |-> [i \in DOMAIN files[f] |-> Older(files[f][i])]]
  /\ scan' = IF scan.pc = "off" THEN scan ELSE [scan EXCEPT !.took = @ + 1]
  /\ UNCHANGED <<known, parse, newest>>

Scan ==
  \/ StartScan \/ ReadLine \/ EndFile \/ FileFails \/ Sum \/ EndScan
  \/ \E p \in Projects : ListProject(p) \/ ProjectFails(p)
  \/ \E f \in Files : OpenFile(f) \/ OpenFails(f)

Parse ==
  \/ ScanLine \/ ScanStops \/ ScanEnds \/ EndParse
  \/ \E f \in Files : StartParse(f)

TranscriptsNext ==
  \/ \E f \in Files : Finish(f) \/ \E shape \in Shapes, left \in 0 .. 2 : Write(f, shape, left)
  \/ Scan \/ Parse \/ Tick

TranscriptsSpec == TranscriptsInit /\ [][TranscriptsNext]_transcriptVars

-----------------------------------------------------------------------------
(* Properties.                                                             *)

ScanState ==
  [pc : {"off", "scan", "sum"}, projects : SUBSET Projects, files : SUBSET Files,
   file : Files \cup {None}, pos : Nat, part : SUBSET Id, got : SUBSET Id, took : 0 .. MaxScan]

ParseState ==
  [pc : {"off", "read", "done"}, file : Files \cup {None}, first : Nat \ {0}, pos : Nat,
   usable : SUBSET Nat]

\* Every variable has its type (usagestats/parser.go, contextusage/parser.go).
TranscriptsTypeOK ==
  /\ files \in [Files -> Seq(Line)]
  /\ scan \in ScanState
  /\ known \subseteq Id
  /\ parse \in ParseState
  /\ newest \in Nat

\* Whatever is written and however much time passes while the files are read, the
\* windows hold every usage line that was there when the scan began and is still
\* within them at its end, but for the files and directories that fail: the others
\* are not touched by that (usagestats/parser.go:45-69, 117-129, main.go:344-354).
UsageIsCounted ==
  scan.pc = "sum" => \A id \in known :
    /\ LineOf(id).age <= FiveHours => id \in FiveHourEntries
    /\ LineOf(id).age <= Week => id \in WeekEntries

\* A status line never goes by an older line than the newest that the tail held
\* when it looked at the size, if that fits a tail with its newline, whatever is
\* appended while it reads, unless more lines come than it inspects (contextusage/parser.go:81-116, 183-217).
ContextIsFresh ==
  parse.pc = "done" /\ newest > parse.pos - MaxLines => Found >= newest

-----------------------------------------------------------------------------
(* What makes these inductive.                                             *)

\* Lines follow one another, and only the last may lack something.
LinesInOrder ==
  \A f \in Files : \A i \in DOMAIN files[f] :
    /\ i = 1 => files[f][i].start = 0
    /\ ~Ended(files[f][i]) => i = Len(files[f])
    /\ \A j \in DOMAIN files[f] :
         i < j => files[f][i].start + files[f][i].size <= files[f][j].start

\* What there was when the scan began is behind it, and was taken unless it is
\* older than the week before, or is in a file that the scan has yet to reach the
\* end of.
Accounted(id) ==
  \/ id \in scan.got \/ LineOf(id).age > Week + scan.took
  \/ ProjectOf[id.file] \in scan.projects \/ id.file \in scan.files
  \/ id.file = scan.file /\ (id.line > scan.pos \/ id \in scan.part)

KnownIsAccounted ==
  /\ scan.pc = "off" => known = {}
  /\ scan.pc = "sum" => scan.projects = {} /\ scan.files = {} /\ scan.file = None
  /\ \A id \in known :
       id.line \in DOMAIN files[id.file] /\ CountsAsUsage(LineOf(id)) /\ Accounted(id)

\* The newest line of the tail is among the tokens, and no line ahead of it that is
\* still to be read is too long.
NewestIsReached ==
  /\ parse.pc # "off" => parse.file \in Files
  /\ parse.pc # "off" /\ newest # 0 =>
    /\ newest \in DOMAIN files[parse.file]
    /\ Usable(files[parse.file][newest]) /\ parse.first <= newest
    /\ newest <= parse.pos => newest \in parse.usable
    /\ parse.pc = "done" => newest <= parse.pos
    /\ \A i \in parse.pos + 1 .. newest : files[parse.file][i].size <= ReadTailBytes

TranscriptsInv == TranscriptsTypeOK /\ LinesInOrder /\ KnownIsAccounted /\ NewestIsReached

=============================================================================
