-------------------------- MODULE MCCloudflareWorker --------------------------
(* Instances of CloudflareWorker for TLC. *)
EXTENDS CloudflareWorker

CONSTANTS j1, j2, j3, c1, c2
=============================================================================
