---------------------------- MODULE MCTelemetry ----------------------------
EXTENDS Telemetry

CONSTANTS p1, p2

\* One peer with enough traffic to be counted twice, and one that comes after it.
MCMaxMoved == [p \in {p1, p2} |-> IF p = p1 THEN 2 ELSE 1]
=============================================================================
