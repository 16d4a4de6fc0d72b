----------------------------- MODULE MCSeriesGaps -----------------------------
\* A small instance of SeriesGaps: numbers around the step from one digit to
\* two, one of them under a second prefix.
EXTENDS SeriesGaps

CONSTANTS a, b, whole, part

Printed(prefix, width, number) == [prefix |-> prefix, width |-> width, number |-> number]

MCPaper == {Printed(a, 1, 9), Printed(a, 2, 10), Printed(b, 2, 10), Printed(a, 2, 11)}
MCBegins == [s \in Series |-> IF s = whole THEN {t \in Paper : t.prefix = a} ELSE {t \in Paper : t.prefix = a /\ t.width = 2}]
MCLength == [s \in Series |-> IF s = whole THEN 1 ELSE 2]
MCDigits == [n \in MinNumber .. MaxNumber |-> IF n < 10 THEN 1 ELSE 2]
=============================================================================
