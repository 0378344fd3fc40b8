----------------------------- MODULE MCRequestPools ----------------------------
\* An upload, a cloud scan and two reads, for TLC.
EXTENDS RequestPools

CONSTANTS up, cl, q1, q2

MCReqs == {up, cl, q1, q2}

MCWriters == {up, cl}

MCUploads == {up}
================================================================================
