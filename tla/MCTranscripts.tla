---------------------------- MODULE MCTranscripts ----------------------------
\* Two transcripts in two projects.  The tail holds two short lines and a piece
\* of a third; the longest line is too long for it and for the scan.
EXTENDS Transcripts, TLC
CONSTANTS t1, t2, p1, p2
MCProjectOf == [f \in Files |-> IF f = t1 THEN p1 ELSE p2]
MCShapes ==
  {[kind |-> "usage", size |-> 3], [kind |-> "system", size |-> 3], [kind |-> "other", size |-> 12]}
\* One transcript with its project is as good as the other.
MCSymmetry ==
  {s \in Permutations({t1, t2, p1, p2}) :
     \A f \in Files : s[f] \in Files /\ s[ProjectOf[f]] = ProjectOf[s[f]]}
=============================================================================
