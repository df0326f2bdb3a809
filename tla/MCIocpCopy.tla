----------------------------- MODULE MCIocpCopy -----------------------------
(* TLC instance of IocpCopy.                                               *)
EXTENDS IocpCopy
=============================================================================
