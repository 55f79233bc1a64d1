------------------------------ MODULE MCRemoteAuth ------------------------------
(* One session, two cancellations and one query that throws.                    *)
EXTENDS RemoteAuth
================================================================================
