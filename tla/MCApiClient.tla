----------------------------- MODULE MCApiClient -----------------------------
(* Small instances of the API client for TLC. *)
EXTENDS ApiClient, TLC

CONSTANTS r1, r2, ip1, ip2, nilIP, badIP

MCIPs == {ip1, ip2}
MCSequential == {r1}
MCConcurrent == {r1, r2}
=============================================================================
