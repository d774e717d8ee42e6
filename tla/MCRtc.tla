------------------------------- MODULE MCRtc -------------------------------
EXTENDS Rtc

=============================================================================
