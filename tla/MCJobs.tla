------------------------------- MODULE MCJobs -------------------------------
EXTENDS Jobs
=============================================================================
