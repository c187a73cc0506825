--------------------------- MODULE MCWorkloadSetup ---------------------------
EXTENDS WorkloadSetup

\* up to 5 models and 3 clients or iterations: enough for shares that do
\* not divide evenly, clients left without models and a last short wave
MCMaxCopies == 5
MCMaxClients == 3
\* loads in batches of 2, so an odd num_copies loads one model too many
MCLoadBatch == 2
\* intervals 0..5: round(2^(5/2)) = 6 passes the 5 models
MCIntervals == 6
MCMaxRate == 2
=============================================================================
