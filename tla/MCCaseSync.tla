----------------------------- MODULE MCCaseSync -----------------------------
EXTENDS CaseSync
=============================================================================
