--------------------------- MODULE MCRunnerLaunch ---------------------------
\* TLC instance of RunnerLaunch: processes that launch, die and take over, and
\* cycles that overlap.
EXTENDS RunnerLaunch
=============================================================================
