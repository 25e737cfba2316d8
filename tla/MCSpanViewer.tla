---------------------------- MODULE MCSpanViewer ----------------------------
(* Small instances of SpanViewer for TLC.                                  *)
EXTENDS SpanViewer

CONSTANTS a1, a2

\* The anchor a1 was committed, a2 is new: it dangles while it is clean, until
\* HEAD moves.
CommittedFirst == {{a1}}

\* On opening the span anchors the committed file; the second file is not
\* anchored before an edit of the span says so.
AnchorsFirst == {{a1}}
Recorded     == {"recorded"}
=============================================================================
