------------------------- MODULE MCExternalExecution -------------------------
(* Model values and limits for the runs of ExternalExecution.               *)
EXTENDS ExternalExecution

CONSTANTS c1, c2, s1, s2, s3, p1, p2, r1, r2

MCOneJob == {c1}
MCTwoJobs == {c1, c2}
MCTwoSubmissions == {s1, s2}
MCThreeSubmissions == {s1, s2, s3}
MCPollers == {p1, p2}
MCRuns == {r1, r2}
MCModes == {"async", "sync"}
=============================================================================
