------------------------------- MODULE MCLine -------------------------------
EXTENDS LineProperties

=============================================================================
