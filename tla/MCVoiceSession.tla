---------------------------- MODULE MCVoiceSession ----------------------------
EXTENDS VoiceSession

CONSTANTS t1, s1, sc

=============================================================================
