------------------------------- MODULE MCSession -------------------------------
(***************************************************************************)
(* Instances of Session for TLC.                                           *)
(***************************************************************************)
EXTENDS Session

ScanRows == {osp_get_scan_pop(d, p) : d, p \in BOOLEAN}
            \cup {osp_get_scan(d) : d \in BOOLEAN}

\* Functions with the same row behave alike.  Of functions that differ in a way
\* that only repeats or leaves out steps one is enough: the scan functions when
\* the results on the scanner are of no interest, modify_task_file with three
\* sends, and functions with an output that the caller wants.
HasOutput(c) == c.answer \in {"create", "report", "report_c", "ping", "element"}
PlainRows ==
  {c \in AllRows : /\ ~c.asked /\ ~c.pops
                   /\ c.sends <= 3
                   /\ HasOutput(c) /\ c.connection => c.wants
                   /\ HasOutput(c) /\ ~c.timed => c.wants}

\* Every function treats an empty attribute like an absent one.
PlainAnswers == {r \in GmpAnswers : r.status # "empty" /\ r.id # "empty"}
================================================================================
