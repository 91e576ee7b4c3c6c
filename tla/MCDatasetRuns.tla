---------------------------- MODULE MCDatasetRuns ----------------------------
EXTENDS DatasetRuns
=============================================================================
