-------------------------- MODULE MCHuntScheduler ---------------------------
EXTENDS HuntScheduler
=============================================================================
