------------------------ MODULE MCForegroundWorkflow ------------------------
EXTENDS ForegroundWorkflow
=============================================================================
