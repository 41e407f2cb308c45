---------------------------- MODULE MCCollector ----------------------------
(***************************************************************************)
(* Four roles, of which IAM holds three at most, in pages of at most two,  *)
(* a ceiling of two pages and two changes of the account: a listing takes  *)
(* two pages or more, the ceiling is reached by short pages and by markers *)
(* that do not end, a role can come or go between two pages, and a role    *)
(* deleted and another created there make a bundle of four.  The errors    *)
(* are AWS's own, naming everyone; the SDK's, when the deadline passes;    *)
(* and a credential process's, holding what it printed.                    *)
(***************************************************************************)
EXTENDS Collector

ApiError     == [kind |-> "api", mentions |-> {"principal", "person", "home"}]
ProcessError == [kind |-> "process", mentions |-> {"home", "output"}]
MCLate       == [kind |-> "other", mentions |-> {"principal", "home"}]
MCErrors     == {ApiError, ProcessError, MCLate}
=============================================================================
