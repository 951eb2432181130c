------------------------- MODULE MCDocumentReading -------------------------
\* Two windows, of which the second may be one the host cannot show, or not with its
\* context.
EXTENDS DocumentReading, TLC

MCWindows == 1 .. 2
MCLimit == [p \in Phases |-> IF p \in {"extract", "review"} THEN 3 ELSE 2]
=============================================================================
