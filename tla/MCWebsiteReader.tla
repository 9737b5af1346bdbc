---------------------------- MODULE MCWebsiteReader ---------------------------
(* Values of the constants of WebsiteReader for TLC.                       *)
EXTENDS WebsiteReader

\* 2.1, 3.1 and 1.1 s in the code.
MCInterval == [codeforces |-> 2, leetcode |-> 3, coderun |-> 1]
==============================================================================
