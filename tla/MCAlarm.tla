------------------------------ MODULE MCAlarm ------------------------------
EXTENDS Alarm, TLC

CONSTANTS t1, t2, t3, t4

MCSpans == {-1, 2}
=============================================================================
