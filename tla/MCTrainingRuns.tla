--------------------------- MODULE MCTrainingRuns ---------------------------
EXTENDS TrainingRuns
=============================================================================
