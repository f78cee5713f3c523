---------------------------- MODULE MCIssueAlerts ----------------------------
EXTENDS IssueAlerts
=============================================================================
