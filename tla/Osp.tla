---------------------------------- MODULE Osp ----------------------------------
(***************************************************************************)
(* The OSP client library, src/osp/osp.c, as rows of the same form as the  *)
(* functions of module Gmp.  Every function sends one command through      *)
(* osp_send_command, whose caller learns only that something failed, and   *)
(* never passes a timeout.                                                 *)
(*                                                                         *)
(* A scanner answers every command with a status and a status text; the    *)
(* element a command is after is in the answer when the status is 200.     *)
(***************************************************************************)
EXTENDS Gmp

OspAnswers == {GmpAnswer("200", "absent", TRUE, FALSE),
               GmpAnswer("200", "absent", FALSE, FALSE),
               GmpAnswer("400", "absent", FALSE, FALSE)}

\* What the functions return when nothing was sent, or no answer was read.
OSP_SCAN_STATUS_ERROR == -1

--------------------------------------------------------------------------------
(***************************************************************************)
(* From an answer to a return value.                                       *)
(***************************************************************************)
\* osp_delete_scan compares the status with "200".
DeleteScanResult(r) == IF r.status = "200" THEN 0 ELSE 1

\* osp_get_version and osp_get_scanner_details look for elements, not at the
\* status; the latter only if the caller wants the parameters.
ElementResult(r, wants) == IF wants /\ ~r.child THEN 1 ELSE 0

\* osp_check_feed and the two version functions: a 400 fails, anything else
\* must hold the element.
FeedResult(r) == IF r.status = "400" \/ ~r.child THEN 1 ELSE 0

\* osp_start_scan, osp_start_scan_ext and osp_stop_scan.
ScanCommandResult(r) == IF r.status = "200" THEN 0 ELSE -1

\* osp_get_performance_ext takes the text of the answer.
PerformanceResult(r) == IF r.child THEN 0 ELSE -1

\* osp_get_scan_status_ext: the status of the scan; osp_get_scan_pop: its
\* progress.  Both fail without a scan element.
ScanElementResult(r) == IF r.child THEN 1 ELSE OSP_SCAN_STATUS_ERROR

--------------------------------------------------------------------------------
(***************************************************************************)
(* The functions.  osp_send_command goes on to read when the peer has      *)
(* closed the connection, as only -1 of the send functions ends it.        *)
(***************************************************************************)
OspRow == [GmpRow EXCEPT !.osp = TRUE, !.onsend = "ignore_closed",
                         !.connection = TRUE, !.checks = TRUE]

osp_check_feed == [OspRow EXCEPT !.answer = "feed"]
osp_get_version == [OspRow EXCEPT !.answer = "element", !.wants = TRUE]
osp_get_vts_version == [OspRow EXCEPT !.answer = "feed"]
osp_get_vts_feed_info == [OspRow EXCEPT !.answer = "feed"]

\* The answer is given to the caller whatever its status.
osp_get_vts == [OspRow EXCEPT !.answer = "raw"]
osp_get_vts_ext == [OspRow EXCEPT !.answer = "raw"]

\* The text up to the end of the stream is given to the caller.
osp_get_vts_ext_str == [OspRow EXCEPT !.answer = "text"]

osp_delete_scan == [OspRow EXCEPT !.answer = "delete"]
osp_get_performance_ext == [OspRow EXCEPT !.answer = "performance"]
osp_get_scan_status_ext == [OspRow EXCEPT !.answer = "scan"]

\* The request is "details='%d' pop_results='%d'", filled in with pop_results
\* and then details: what the scanner reads as pop_results is details.
osp_get_scan_pop(details, pop_results) ==
  [OspRow EXCEPT !.answer = "scan", !.asked = pop_results, !.pops = details]

osp_get_scan(details) == osp_get_scan_pop(details, FALSE)
osp_stop_scan == [OspRow EXCEPT !.answer = "command"]
osp_start_scan == [OspRow EXCEPT !.answer = "command"]

\* The command is put together in a temporary file, a thousand VTs at a time,
\* read back and sent in one piece.
osp_start_scan_ext == [OspRow EXCEPT !.answer = "command"]

\* An assertion on the connection, no check.
osp_get_scanner_details(wants) ==
  [OspRow EXCEPT !.answer = "element", !.checks = FALSE, !.wants = wants]

OspRows ==
       {osp_check_feed, osp_get_version, osp_get_vts_version,
        osp_get_vts_feed_info, osp_get_vts, osp_get_vts_ext,
        osp_get_vts_ext_str, osp_delete_scan, osp_get_performance_ext,
        osp_get_scan_status_ext, osp_stop_scan, osp_start_scan,
        osp_start_scan_ext}
  \cup {osp_get_scanner_details(w) : w \in BOOLEAN}
  \cup {osp_get_scan_pop(d, p) : d, p \in BOOLEAN}
  \cup {osp_get_scan(d) : d \in BOOLEAN}

--------------------------------------------------------------------------------
(***************************************************************************)
(* What function c returns when osp_send_command fails, and for answer r.  *)
(***************************************************************************)
OspFailure(c) ==
  IF c.answer \in {"command", "performance", "scan"} THEN -1 ELSE 1

OspReturn(c, r) ==
  CASE c.answer = "feed" -> FeedResult(r)
    [] c.answer = "element" -> ElementResult(r, c.wants)
    [] c.answer \in {"raw", "text"} -> 0
    [] c.answer = "delete" -> DeleteScanResult(r)
    [] c.answer = "performance" -> PerformanceResult(r)
    [] c.answer = "scan" -> ScanElementResult(r)
    [] c.answer = "command" -> ScanCommandResult(r)
================================================================================
