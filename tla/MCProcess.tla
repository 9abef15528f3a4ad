----------------------------- MODULE MCProcess -----------------------------
EXTENDS Process, TLC

MCCodes == {0}
=============================================================================
