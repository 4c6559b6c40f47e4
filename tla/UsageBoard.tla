------------------------------ MODULE UsageBoard ------------------------------
(***************************************************************************)
(* What the keys under claude:mesh:usage promise to those who read them:   *)
(* one notice on a board.  A poll replaces the notice as a whole, and it   *)
(* falls off when nobody has renewed it for TTL; a status line that is not *)
(* disturbed while it reads shows the notice that hangs there.  UsagePoll  *)
(* implements this with several keys, written by several daemons and read  *)
(* one by one.                                                             *)
(***************************************************************************)
EXTENDS Integers

CONSTANTS
  Sources,      \* where a notice may come from
  Exact,        \* the source whose numbers are shown without a "~"
  TTL,          \* how long a notice hangs
  MaxAge,       \* how old a notice may be when it is posted
  Nothing       \* the empty board, and a status line that shows nothing

VARIABLES
  board,        \* the notice: by whom, how old, and how long it still hangs
  shown         \* what an undisturbed status line shows

boardVars == <<board, shown>>

BoardInit == board = Nothing /\ shown = Nothing

\* Whatever changes the board disturbs the status line that is being drawn.
Post(by, age) ==
  /\ board' = [by |-> by, age |-> age, ttl |-> TTL]
  /\ shown' = Nothing

Elapse ==
  /\ board' = IF board = Nothing \/ board.ttl = 1 THEN Nothing
              ELSE [board EXCEPT !.ttl = @ - 1, !.age = @ + 1]
  /\ shown' = Nothing

Show ==
  /\ board # Nothing
  /\ shown' = [pct5h |-> board.by, pctWeek |-> board.by, exact |-> board.by = Exact]
  /\ UNCHANGED board

Hide ==
  /\ shown' = Nothing
  /\ UNCHANGED board

BoardNext ==
  \/ \E by \in Sources, age \in 0 .. MaxAge : Post(by, age)
  \/ Elapse \/ Show \/ Hide

BoardSpec == BoardInit /\ [][BoardNext]_boardVars

=============================================================================
