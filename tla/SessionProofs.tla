---------------------------- MODULE SessionProofs ----------------------------
(***************************************************************************)
(* Proofs about Session for any subset of the functions and of the         *)
(* answers, any length of requests and answers, any timeout and any number *)
(* of calls and connections.                                               *)
(***************************************************************************)
EXTENDS Session, TLAPS

\* Two sequences one after the other.
LEMMA Concatenated ==
  ASSUME NEW S, NEW s \in Seq(S), NEW t \in Seq(S)
  PROVE  /\ s \o t \in Seq(S) /\ Len(s \o t) = Len(s) + Len(t)
         /\ \A i \in 1 .. Len(s) + Len(t) :
              (s \o t)[i] = IF i <= Len(s) THEN s[i] ELSE t[i - Len(s)]
OBVIOUS

-----------------------------------------------------------------------------
(* Rows.                                                                   *)

\* The functions of the two protocols, and of both.
GmpRowType == RowsOf({FALSE}, GmpKinds)
OspRowType == RowsOf({TRUE}, OspKinds)
RowType == RowsOf(BOOLEAN, GmpKinds \cup OspKinds)

\* The rows of the GMP functions.
LEMMA GmpRowFacts == GmpRows \subseteq GmpRowType
<1>1. GmpRow \in GmpRowType
  BY DEF GmpRowType, RowsOf, GmpKinds, GmpRow
<1> USE DEF GmpRowType, RowsOf, GmpKinds
<1>2. gmp_ping \in GmpRowType
  BY <1>1, Zenon DEF gmp_ping
<1>3. gmp_authenticate \in GmpRowType
  BY <1>1, Zenon DEF gmp_authenticate
<1>4. gmp_authenticate_info_ext \in GmpRowType
  BY <1>1, Zenon DEF gmp_authenticate_info_ext
<1>5. gmp_authenticate_info_ext_c \in GmpRowType
  BY <1>1, Zenon DEF gmp_authenticate_info_ext_c
<1>6. gmp_start_task_ext_c \in GmpRowType
  BY <1>1, Zenon DEF gmp_start_task_ext_c
<1>7. gmp_stop_task \in GmpRowType
  BY <1>1, Zenon DEF gmp_stop_task
<1>8. gmp_stop_task_c \in GmpRowType
  BY <1>1, Zenon DEF gmp_stop_task_c
<1>9. gmp_delete_task_ext \in GmpRowType
  BY <1>1, Zenon DEF gmp_delete_task_ext
<1>10. gmp_get_tasks \in GmpRowType
  BY <1>1, Zenon DEF gmp_get_tasks
<1>11. gmp_get_task_ext \in GmpRowType
  BY <1>1, Zenon DEF gmp_get_task_ext
<1>12. gmp_get_tasks_ext \in GmpRowType
  BY <1>1, Zenon DEF gmp_get_tasks_ext
<1>13. gmp_delete_task \in GmpRowType
  BY <1>1, Zenon DEF gmp_delete_task
<1>14. gmp_get_targets \in GmpRowType
  BY <1>1, Zenon DEF gmp_get_targets
<1>15. gmp_get_report_ext \in GmpRowType
  BY <1>1, Zenon DEF gmp_get_report_ext
<1>16. gmp_delete_port_list_ext \in GmpRowType
  BY <1>1, Zenon DEF gmp_delete_port_list_ext
<1>17. gmp_delete_report \in GmpRowType
  BY <1>1, Zenon DEF gmp_delete_report
<1>18. gmp_delete_target_ext \in GmpRowType
  BY <1>1, Zenon DEF gmp_delete_target_ext
<1>19. gmp_delete_config_ext \in GmpRowType
  BY <1>1, Zenon DEF gmp_delete_config_ext
<1>20. gmp_delete_lsc_credential_ext \in GmpRowType
  BY <1>1, Zenon DEF gmp_delete_lsc_credential_ext
<1>21. gmp_get_system_reports \in GmpRowType
  BY <1>1, Zenon DEF gmp_get_system_reports
<1>22. gmp_get_system_reports_ext \in GmpRowType
  BY <1>1, Zenon DEF gmp_get_system_reports_ext
<1>23. \A w \in BOOLEAN : gmp_create_task_ext(w) \in GmpRowType
  BY <1>1, Zenon DEF gmp_create_task_ext
<1>24. \A w \in BOOLEAN : gmp_create_task(w) \in GmpRowType
  BY <1>1, Zenon DEF gmp_create_task
<1>25. \A w \in BOOLEAN : gmp_start_task_report(w) \in GmpRowType
  BY <1>1, Zenon DEF gmp_start_task_report
<1>26. \A w \in BOOLEAN : gmp_start_task_report_c(w) \in GmpRowType
  BY <1>1, Zenon DEF gmp_start_task_report_c
<1>27. \A w \in BOOLEAN : gmp_resume_task_report(w) \in GmpRowType
  BY <1>1, Zenon DEF gmp_resume_task_report
<1>28. \A w \in BOOLEAN : gmp_resume_task_report_c(w) \in GmpRowType
  BY <1>1, Zenon DEF gmp_resume_task_report_c
<1>29. \A w \in BOOLEAN : gmp_create_target_ext(w) \in GmpRowType
  BY <1>1, Zenon DEF gmp_create_target_ext
<1>30. \A w \in BOOLEAN : gmp_create_lsc_credential(w) \in GmpRowType
  BY <1>1, Zenon DEF gmp_create_lsc_credential
<1>31. \A w \in BOOLEAN : gmp_create_lsc_credential_key(w) \in GmpRowType
  BY <1>1, Zenon DEF gmp_create_lsc_credential_key
<1>32. \A w \in BOOLEAN : gmp_create_lsc_credential_ext(w) \in GmpRowType
  BY <1>1, Zenon DEF gmp_create_lsc_credential_ext
<1>33. \A w \in BOOLEAN : gmp_ping_c(w) \in GmpRowType
  BY <1>2, Zenon DEF gmp_ping_c
<1> HIDE DEF GmpRowType, RowsOf, GmpKinds
<1>34. \A c \in {"NULL", "empty", "given"} : gmp_modify_task_file(c) \in GmpRowType
  <2> TAKE c \in {"NULL", "empty", "given"}
  <2> DEFINE n == CASE c = "NULL" -> 3 [] c = "empty" -> 4 [] OTHER -> 5
  <2>1. n \in 1..5
    OBVIOUS
  <2>2. gmp_modify_task_file(c) = [GmpRow EXCEPT !.checks = TRUE, !.sends = n]
    BY Zenon DEF gmp_modify_task_file
  <2> HIDE DEF n
  <2> QED
    BY <1>1, <2>1, <2>2, Zenon DEF GmpRowType, RowsOf
<1> QED
  BY <1>1, <1>2, <1>3, <1>4, <1>5, <1>6, <1>7, <1>8, <1>9, <1>10, <1>11, <1>12, <1>13,
     <1>14, <1>15, <1>16, <1>17, <1>18, <1>19, <1>20, <1>21, <1>22, <1>23, <1>24,
     <1>25, <1>26, <1>27, <1>28, <1>29, <1>30, <1>31, <1>32, <1>33, <1>34, ZenonT(40)
     DEF GmpRows

\* The rows of the OSP functions.
LEMMA OspRowFacts == OspRows \subseteq OspRowType
<1>1. OspRow \in RowsOf({TRUE}, GmpKinds)
  <2>1. GmpRow \in RowsOf({FALSE}, GmpKinds)
    BY DEF RowsOf, GmpKinds, GmpRow
  <2> QED
    BY <2>1, Zenon DEF RowsOf, OspRow
<1> USE DEF OspRowType, RowsOf, OspKinds
<1>2. osp_check_feed \in OspRowType
  BY <1>1, Zenon DEF osp_check_feed
<1>3. osp_get_version \in OspRowType
  BY <1>1, Zenon DEF osp_get_version
<1>4. osp_get_vts_version \in OspRowType
  BY <1>1, Zenon DEF osp_get_vts_version
<1>5. osp_get_vts_feed_info \in OspRowType
  BY <1>1, Zenon DEF osp_get_vts_feed_info
<1>6. osp_get_vts \in OspRowType
  BY <1>1, Zenon DEF osp_get_vts
<1>7. osp_get_vts_ext \in OspRowType
  BY <1>1, Zenon DEF osp_get_vts_ext
<1>8. osp_get_vts_ext_str \in OspRowType
  BY <1>1, Zenon DEF osp_get_vts_ext_str
<1>9. osp_delete_scan \in OspRowType
  BY <1>1, Zenon DEF osp_delete_scan
<1>10. osp_get_performance_ext \in OspRowType
  BY <1>1, Zenon DEF osp_get_performance_ext
<1>11. osp_get_scan_status_ext \in OspRowType
  BY <1>1, Zenon DEF osp_get_scan_status_ext
<1>12. osp_stop_scan \in OspRowType
  BY <1>1, Zenon DEF osp_stop_scan
<1>13. osp_start_scan \in OspRowType
  BY <1>1, Zenon DEF osp_start_scan
<1>14. osp_start_scan_ext \in OspRowType
  BY <1>1, Zenon DEF osp_start_scan_ext
<1>15. \A w \in BOOLEAN : osp_get_scanner_details(w) \in OspRowType
  BY <1>1, Zenon DEF osp_get_scanner_details
<1>16. \A d, p \in BOOLEAN : osp_get_scan_pop(d, p) \in OspRowType
  BY <1>1, Zenon DEF osp_get_scan_pop
<1>17. \A d \in BOOLEAN : osp_get_scan(d) \in OspRowType
  BY <1>16, Zenon DEF osp_get_scan
<1> HIDE DEF OspRowType, RowsOf, OspKinds
<1> QED
  BY <1>1, <1>2, <1>3, <1>4, <1>5, <1>6, <1>7, <1>8, <1>9, <1>10, <1>11, <1>12, <1>13,
     <1>14, <1>15, <1>16, <1>17
     DEF OspRows

\* A row is one of either kind.
LEMMA RowFacts ==
  ASSUME NEW c \in AllRows
  PROVE  c \in RowType /\ (c \in GmpRowType \/ c \in OspRowType)
<1>1. c \in GmpRowType \/ c \in OspRowType
  BY GmpRowFacts, OspRowFacts, Zenon DEF AllRows
<1> QED
  BY <1>1, Zenon DEF GmpRowType, OspRowType, RowType, RowsOf
-----------------------------------------------------------------------------
(* From an answer to a return value.                                       *)

\* gmp_check_response.
LEMMA CheckResponse ==
  ASSUME NEW r, NEW e
  PROVE  /\ gmp_check_response(r, e) \in {-1, 0, 200, 201, 400}
         /\ gmp_check_response(r, e) = 0 => Success(r)
         /\ Success(r) => gmp_check_response(r, e) = 0
BY DEF gmp_check_response, Code, Success, NoStatus

\* A GMP function returns 0 for a request that was carried out only, and never
\* reports a refusal for one.
LEMMA GmpJudges ==
  ASSUME NEW c \in GmpRowType, NEW r, NEW e
  PROVE  /\ GmpReturn(c, r, e) \in Int
         /\ GmpReturn(c, r, e) = 0 => Success(r)
         /\ GmpReturn(c, r, e) \in {1, 2, 99, 400} => ~Success(r)
<1>1. c.answer \in GmpKinds
  BY DEF GmpRowType, RowsOf
<1>2. CASE c.answer \in {"check", "check_c", "give"}
  <2>1. GmpReturn(c, r, e) = gmp_check_response(r, e)
    BY <1>2, Zenon DEF GmpReturn
  <2> QED
    BY <2>1, CheckResponse
<1>3. CASE c.answer = "check_99"
  <2>1. GmpReturn(c, r, e) = check_response_c(r, e, TRUE)
    BY <1>3, Zenon DEF GmpReturn
  <2> QED
    BY <2>1, CheckResponse DEF check_response_c
<1>4. CASE c.answer = "ping"
  BY <1>4 DEF GmpReturn, PingResult
<1>5. CASE c.answer = "authenticate"
  <2>1. GmpReturn(c, r, e) = AuthenticateResult(r, e)
    BY <1>5 DEF GmpReturn
  <2> QED
    BY <2>1, CheckResponse DEF AuthenticateResult
<1>6. CASE c.answer = "info"
  BY <1>6 DEF GmpReturn, AuthenticateInfoResult, NoStatus, Success
<1>7. CASE c.answer = "create"
  <2>1. GmpReturn(c, r, e) = CreateResult(r, c.wants)
    BY <1>7, Zenon DEF GmpReturn
  <2> QED
    BY <2>1 DEF CreateResult, gmp_read_create_response, Code, Success, NoStatus
<1>8. CASE c.answer = "report"
  <2>1. GmpReturn(c, r, e) = TaskReportResult(r, e, c.wants)
    BY <1>8 DEF GmpReturn
  <2> QED
    BY <2>1, CheckResponse DEF TaskReportResult
<1>9. CASE c.answer = "report_c"
  BY <1>9 DEF GmpReturn, TaskReportResultC, NoStatus, Success
<1> QED
  BY <1>1, <1>2, <1>3, <1>4, <1>5, <1>6, <1>7, <1>8, <1>9 DEF GmpKinds

\* An OSP function that looks at the answer reports success for a command that
\* was carried out only.
LEMMA OspJudges ==
  ASSUME NEW c \in OspRowType, NEW r \in OspAnswers
  PROVE  /\ OspReturn(c, r) \in Int
         /\ Judges(c) /\ Succeeded(c, OspReturn(c, r)) => Success(r)
<1>1. c.answer \in OspKinds /\ c.wants \in BOOLEAN
  BY DEF OspRowType, RowsOf
<1>2. (r.status = "200" \/ (r.status = "400" /\ ~r.child)) /\ r.child \in BOOLEAN
  <2>1. PICK s \in {"200", "400"}, d \in BOOLEAN :
          r = GmpAnswer(s, "absent", d, FALSE) /\ (s = "400" => ~d)
    BY Zenon DEF OspAnswers
  <2>2. r.status = s /\ r.child = d
    BY <2>1 DEF GmpAnswer
  <2> QED
    BY <2>1, <2>2, Zenon
<1>3. CASE c.answer = "feed"
  BY <1>2, <1>3 DEF OspReturn, FeedResult, Succeeded, Success
<1>4. CASE c.answer = "element"
  BY <1>1, <1>2, <1>4 DEF OspReturn, ElementResult, Succeeded, Success, Judges
<1>5. CASE c.answer \in {"raw", "text"}
  BY <1>5 DEF OspReturn, Judges
<1>6. CASE c.answer = "delete"
  BY <1>2, <1>6 DEF OspReturn, DeleteScanResult, Succeeded, Success
<1>7. CASE c.answer = "performance"
  BY <1>2, <1>7 DEF OspReturn, PerformanceResult, Succeeded, Success
<1>8. CASE c.answer = "scan"
  BY <1>2, <1>8 DEF OspReturn, ScanElementResult, OSP_SCAN_STATUS_ERROR, Succeeded, Success
<1>9. CASE c.answer = "command"
  BY <1>2, <1>9 DEF OspReturn, ScanCommandResult, Succeeded, Success
<1> QED
  BY <1>1, <1>3, <1>4, <1>5, <1>6, <1>7, <1>8, <1>9, Zenon DEF OspKinds

\* What a function makes of an answer.
Value(c, r, e) == IF c.osp THEN OspReturn(c, r) ELSE GmpReturn(c, r, e)

\* What a function makes of an answer of its protocol is right about whether the
\* request was carried out.
LEMMA ValueJudges ==
  ASSUME NEW c \in AllRows, NEW r \in IF c.osp THEN OspAnswers ELSE GmpAnswers, NEW e
  PROVE  /\ Value(c, r, e) \in Int
         /\ Judges(c) /\ Succeeded(c, Value(c, r, e)) => Success(r)
         /\ ~c.osp /\ Value(c, r, e) \in {1, 2, 99, 400} => ~Success(r)
<1>1. CASE c \in GmpRowType
  <2>1. ~c.osp /\ c.answer # "scan"
    BY <1>1, Zenon DEF GmpRowType, RowsOf, GmpKinds
  <2> QED
    BY <1>1, <2>1, GmpJudges DEF Value, Succeeded
<1>2. CASE c \in OspRowType
  <2>1. c.osp
    BY <1>2, Zenon DEF OspRowType, RowsOf
  <2> QED
    BY <1>2, <2>1, OspJudges DEF Value
<1> QED
  BY <1>1, <1>2, RowFacts

\* Every function makes a number of every answer.
LEMMA ValueIsInt ==
  ASSUME NEW c \in AllRows, NEW r \in GmpAnswers \cup OspAnswers, NEW e
  PROVE  Value(c, r, e) \in Int
<1>1. CASE c \in GmpRowType
  <2>1. ~c.osp
    BY <1>1, Zenon DEF GmpRowType, RowsOf
  <2>2. r \in GmpAnswers
    BY Zenon DEF GmpAnswers, OspAnswers
  <2> QED
    BY <1>1, <2>1, <2>2, GmpJudges DEF Value
<1>2. CASE c \in OspRowType
  <2>1. c.osp /\ c.answer \in OspKinds
    BY <1>2, Zenon DEF OspRowType, RowsOf
  <2>2. OspReturn(c, r) \in Int
    BY <2>1 DEF OspKinds, OspReturn, FeedResult, ElementResult, DeleteScanResult,
                PerformanceResult, ScanElementResult, OSP_SCAN_STATUS_ERROR, ScanCommandResult
  <2> QED
    BY <2>1, <2>2 DEF Value
<1> QED
  BY <1>1, <1>2, RowFacts, Zenon
-----------------------------------------------------------------------------
(* Types.                                                                  *)

\* Types, and that a call is one of a function of the library, on a connection.
Typed ==
  /\ TypeOK
  /\ pc # "idle" => call.row \in AllRows
  /\ link = "none" => pc = "idle"

\* The bounds are numbers.
LEMMA Numbers ==
  /\ Units \in Nat /\ Units > 0 /\ Timeout \in Nat /\ Timeout > 0
  /\ MaxCalls \in Nat /\ MaxOpens \in Nat /\ Retries \in Nat
BY SessionAssumption

\* The values functions return when they cannot send or read.
LEMMA Failures ==
  ASSUME NEW c
  PROVE  OspFailure(c) \in {-1, 1} /\ \A rc : ReadFailure(c, rc) \in {-1, 1, 2, 3}
BY Zenon DEF OspFailure, ReadFailure

\* The reader gives up, for the reason rc.
FailStep(rc) ==
  /\ pc = "read" /\ ReadFails(rc)
  /\ rc = -4 => Timed
  /\ down' \in Seq(Pieces)
  /\ UNCHANGED <<link, fd, tls, opens, enotconn, peer, up, pending, call, left,
                 performed, popped, asked>>

\* The units a read with result doc has taken in.
Doc(n) == parsed \o SubSeq(down, 1, n)
Rest(n) == SubSeq(down, n + 1, Len(down))

\* The answer is not complete.
MoreStep(n) ==
  /\ pc = "read" /\ n \in 1 .. Len(down)
  /\ parsed' = Doc(n) /\ down' = Rest(n) /\ idle' = 0 /\ retries' = Retries
  /\ ReadsText \/ Len(Doc(n)) < Units
  /\ tree' = IF ReadsText THEN tree ELSE "building"
  /\ UNCHANGED <<link, fd, blocking, tls, opens, enotconn, peer, up, pending, call,
                 pc, left, ret, from, errno, performed, popped, asked, tainted>>

\* The read is tried again.
AgainStep ==
  /\ pc = "read" /\ retries' \in 0 .. Retries
  /\ UNCHANGED <<transport, peer, up, pending, down, call, pc, left, parsed, idle,
                 outcome, errno, scanner, asked, tainted>>

\* The answer is complete.
AnswerStep(n) ==
  /\ pc = "read" /\ n \in 1 .. Len(down) /\ ~ReadsText
  /\ Len(Doc(n)) >= Units
  /\ down' = Rest(n)
  /\ Answered(Doc(n)[1])
  /\ UNCHANGED <<link, fd, tls, opens, enotconn, peer, up, pending, call, left,
                 performed, popped, asked>>

\* The first n entries of d, the rest of it, and the first ones behind a.
LEMMA Chunks ==
  ASSUME NEW P, NEW d \in Seq(P), NEW a \in Seq(P), NEW n \in 1 .. Len(d)
  PROVE  /\ SubSeq(d, 1, n) \in Seq(P) /\ Len(SubSeq(d, 1, n)) = n
         /\ \A i \in 1 .. n : SubSeq(d, 1, n)[i] = d[i]
         /\ SubSeq(d, n + 1, Len(d)) \in Seq(P)
         /\ Len(SubSeq(d, n + 1, Len(d))) = Len(d) - n
         /\ \A i \in 1 .. Len(d) - n : SubSeq(d, n + 1, Len(d))[i] = d[n + i]
         /\ a \o SubSeq(d, 1, n) \in Seq(P)
         /\ Len(a \o SubSeq(d, 1, n)) = Len(a) + n
         /\ \A i \in 1 .. Len(a) : (a \o SubSeq(d, 1, n))[i] = a[i]
         /\ \A i \in 1 .. n : (a \o SubSeq(d, 1, n))[Len(a) + i] = d[i]
<1> DEFINE b == SubSeq(d, 1, n)
<1>1. b \in Seq(P) /\ Len(b) = n /\ \A i \in 1 .. n : b[i] = d[i]
  OBVIOUS
<1>2. /\ SubSeq(d, n + 1, Len(d)) \in Seq(P)
      /\ Len(SubSeq(d, n + 1, Len(d))) = Len(d) - n
      /\ \A i \in 1 .. Len(d) - n : SubSeq(d, n + 1, Len(d))[i] = d[n + i]
  OBVIOUS
<1> HIDE DEF b
<1>3. /\ a \o b \in Seq(P) /\ Len(a \o b) = Len(a) + Len(b)
      /\ \A i \in 1 .. Len(a) + Len(b) :
           (a \o b)[i] = IF i <= Len(a) THEN a[i] ELSE b[i - Len(a)]
  BY <1>1, Concatenated, Zenon
<1>4. \A i \in 1 .. Len(a) : (a \o b)[i] = a[i]
  BY <1>1, <1>3
<1>5. ASSUME NEW i \in 1 .. n PROVE (a \o b)[Len(a) + i] = d[i]
  <2>1. Len(a) + i \in 1 .. Len(a) + Len(b) /\ ~(Len(a) + i <= Len(a))
        /\ (Len(a) + i) - Len(a) = i
    BY <1>1
  <2> QED
    BY <1>1, <1>3, <2>1
<1> QED
  BY <1>1, <1>2, <1>3, <1>4, <1>5, Zenon DEF b

\* The steps of the reader.
LEMMA ReaderSteps ==
  ASSUME TypeOK
  PROVE  /\ \A n \in 1 .. Len(down) :
              Read(n) => MoreStep(n) \/ FailStep(-2) \/ AnswerStep(n)
         /\ \A n \in 1 .. Len(down) : ReadString(n) => MoreStep(n)
         /\ ReadTimesOut => FailStep(-4)
         /\ ReadEndOfFile => FailStep(-3)
         /\ ReadError => FailStep(-1)
         /\ ReadAgain => FailStep(-1) \/ AgainStep
<1>1. parsed \in Seq(Pieces) /\ down \in Seq(Pieces)
  BY DEF TypeOK
<1>2. ASSUME NEW n \in 1 .. Len(down), Read(n)
      PROVE  MoreStep(n) \/ FailStep(-2) \/ AnswerStep(n)
  <2>1. /\ Doc(n) \in Seq(Pieces) /\ Rest(n) \in Seq(Pieces) /\ Len(Doc(n)) \in Nat
    BY <1>1, Chunks DEF Doc, Rest
  <2>2. /\ Parse(Doc(n)) = "more" => Len(Doc(n)) < Units
        /\ Parse(Doc(n)) = "done" => Len(Doc(n)) >= Units
        /\ Parse(Doc(n)) \in {"more", "done", "error"}
    BY <2>1, Numbers DEF Parse
  <2>3. CASE Parse(Doc(n)) = "more"
    BY <1>2, <2>2, <2>3, Zenon DEF Read, MoreStep, Doc, Rest, scanner
  <2>4. CASE Parse(Doc(n)) = "error"
    BY <1>2, <2>1, <2>4 DEF Read, FailStep, Doc, Rest, scanner
  <2>5. CASE Parse(Doc(n)) = "done"
    BY <1>2, <2>2, <2>5, Zenon DEF Read, AnswerStep, Doc, Rest, scanner
  <2> QED
    BY <2>2, <2>3, <2>4, <2>5, Zenon
<1>3. ASSUME NEW n \in 1 .. Len(down), ReadString(n) PROVE MoreStep(n)
  BY <1>3, Zenon DEF ReadString, MoreStep, Doc, Rest, scanner, outcome
<1>4. ReadTimesOut => FailStep(-4)
  BY <1>1, Zenon DEF ReadTimesOut, FailStep, scanner
<1>5. ReadEndOfFile => FailStep(-3)
  BY <1>1 DEF ReadEndOfFile, FailStep, scanner
<1>6. ReadError => FailStep(-1)
  BY <1>1 DEF ReadError, FailStep, scanner
<1>7. ReadAgain => FailStep(-1) \/ AgainStep
  BY <1>1, Numbers DEF ReadAgain, FailStep, AgainStep, scanner, transport, TypeOK
<1> QED
  BY <1>2, <1>3, <1>4, <1>5, <1>6, <1>7, Zenon

\* The types hold before the first connection is opened.
LEMMA TypedInit == Init => Typed
<1> SUFFICES ASSUME Init PROVE Typed
  BY Zenon
<1>1. GmpRow \in RowsOf(BOOLEAN, GmpKinds \cup OspKinds)
  BY DEF GmpRow, RowsOf, GmpKinds
<1>2. call \in Calls
  BY <1>1 DEF Init, NoCall, Calls
<1>3. <<>> \in Seq(Requests) /\ <<>> \in Seq(Pieces)
  OBVIOUS
<1>4. left \in 0..Units /\ idle \in 0..Timeout /\ retries \in 0..Retries
  BY Numbers DEF Init
<1>5. up \in Seq(Requests) /\ pending \in Seq(Pieces) /\ down \in Seq(Pieces)
      /\ parsed \in Seq(Pieces)
  BY <1>3 DEF Init
<1>6. ret \in Int /\ from \in Nat /\ opens \in Nat
  BY DEF Init
<1> QED
  BY <1>2, <1>4, <1>5, <1>6, Zenon DEF Init, Typed, TypeOK

\* NoCall, and the call behind Return.
LEMMA NoCallType ==
  /\ NoCall \in Calls
  /\ \A n \in Nat, o \in BOOLEAN :
       [NoCall EXCEPT !.id = n, !.row.osp = o]
         \in Calls
<1>1. GmpRow \in RowType
  BY DEF GmpRow, RowType, RowsOf, GmpKinds
<1>2. \A o \in BOOLEAN : [GmpRow EXCEPT !.osp = o] \in RowType
  BY <1>1 DEF RowType, RowsOf
<1>3. NoCall \in Calls /\ NoCall.row = GmpRow
  BY <1>1 DEF NoCall, Calls, RowType
<1>4. ASSUME NEW n \in Nat, NEW o \in BOOLEAN
      PROVE  [NoCall EXCEPT !.id = n, !.row.osp = o]
               \in Calls
  BY <1>2, <1>3, Zenon DEF Calls, RowType
<1> QED
  BY <1>3, <1>4, Zenon

\* osp_connection_new keeps the types, whether it succeeds or not.
LEMMA TypedOpen == Typed /\ osp_connection_new => Typed'
<1> SUFFICES ASSUME Typed, osp_connection_new PROVE Typed'
  BY Zenon
<1>1. /\ link = "none" /\ pc = "idle" /\ opens' \in Nat
      /\ UNCHANGED <<pc, left, parsed, idle, retries, ret, from, tree, errno, popped, asked>>
  BY DEF osp_connection_new, Typed, TypeOK, reader, outcome
<1>2. fd' \in {"none", "open", "closed"} /\ tls' \in {"none", "live", "freed"}
  BY Zenon DEF osp_connection_new, gvm_server_open_verify, OpenUnix, SocketAfter, SessionAfter,
         Typed, TypeOK
<1>3. NotConnected \/ \E l \in {"tls", "unix"} : Connected(l)
  BY DEF osp_connection_new, gvm_server_open_verify, OpenUnix
<1>4. /\ link' \in {"none", "tls", "unix"} /\ peer' \in {"up", "closed", "reset"}
      /\ blocking' \in BOOLEAN /\ up' \in Seq(Requests) /\ pending' \in Seq(Pieces)
      /\ down' \in Seq(Pieces) /\ performed' \subseteq Nat /\ tainted' \in BOOLEAN
      /\ enotconn' \in BOOLEAN
      /\ call' \in Calls
  <2>1. <<>> \in Seq(Requests) /\ <<>> \in Seq(Pieces)
    OBVIOUS
  <2>2. CASE NotConnected
    BY <2>2 DEF NotConnected, Typed, TypeOK
  <2>3. ASSUME NEW l \in {"tls", "unix"}, Connected(l)
        PROVE  /\ link' = l /\ peer' = "up" /\ blocking' = TRUE
               /\ up' \in Seq(Requests) /\ pending' \in Seq(Pieces) /\ down' \in Seq(Pieces)
               /\ call' \in Calls /\ performed' = {} /\ tainted' = FALSE /\ enotconn' = FALSE
    BY <2>1, <2>3, NoCallType, Zenon DEF Connected
  <2> QED
    BY <1>3, <2>2, <2>3, Zenon
<1> QED
  BY <1>1, <1>2, <1>4 DEF Typed, TypeOK

\* So does closing the connection.
LEMMA TypedClose == Typed /\ Close => Typed'
<1> SUFFICES ASSUME Typed, Close PROVE Typed'
  OBVIOUS
<1>1. /\ pc = "idle"
      /\ UNCHANGED <<opens, pc, left, parsed, idle, retries, ret, from, tree, errno, popped,
                     asked>>
  BY Zenon DEF Close, reader, outcome
<1>2. /\ fd' \in {"none", "open", "closed"} /\ tls' \in {"none", "live", "freed"}
      /\ enotconn' \in BOOLEAN
  BY Zenon DEF Close, osp_connection_close, close_unix, gvm_server_free, Typed, TypeOK
<1>3. /\ link' = "none" /\ peer' = "closed" /\ blocking' = TRUE
      /\ up' = <<>> /\ pending' = <<>> /\ down' = <<>>
      /\ performed' = {} /\ tainted' = FALSE /\ call' = NoCall
  BY Zenon DEF Close, Disconnected
<1>4. up' \in Seq(Requests) /\ pending' \in Seq(Pieces) /\ down' \in Seq(Pieces)
  BY <1>3
<1>5. call' \in Calls
  BY <1>3, NoCallType, Zenon
<1> QED
  BY <1>1, <1>2, <1>3, <1>4, <1>5, Zenon DEF Typed, TypeOK

\* So does calling a function.
LEMMA TypedBegin ==
  ASSUME Typed, NEW c \in Rows, NEW t \in {0, Timeout}, NEW valid \in BOOLEAN, Begin(c, t, valid)
  PROVE  Typed'
<1>1. c \in AllRows /\ c \in RowType /\ c.sends \in Nat /\ t \in Nat
  BY SessionAssumption, RowFacts, Numbers DEF RowType, RowsOf
<1>2. call.id \in Nat
  BY SMTT(30) DEF Typed, TypeOK, Calls
<1>3. /\ call' \in Calls /\ call'.row = c
  BY <1>1, <1>2 DEF Begin, Calls, RowType
<1>4. asked' \in BOOLEAN /\ pc' \in {"send", "done"} /\ left' \in 0..Units /\ ret' \in Int
  BY <1>1, Failures, Numbers, SMTT(30) DEF Begin, Typed, TypeOK, RowType, RowsOf
<1>5. /\ link # "none"
      /\ UNCHANGED <<link, fd, blocking, tls, opens, enotconn, peer, up, pending, down,
                     parsed, idle, retries, from, tree, errno, performed, popped, tainted>>
  BY DEF Begin, transport, reader, scanner
<1> QED
  BY <1>1, <1>3, <1>4, <1>5 DEF Typed, TypeOK

\* The units of one write.
Sent(n) ==
  [k \in 1..n |-> [id |-> call.id, last |-> (n = left /\ ~(call.sends > 1)) /\ k = n,
                   osp |-> call.row.osp, pops |-> call.row.pops]]

\* A write appends request units.
LEMMA SentType ==
  ASSUME TypeOK, NEW n \in 1 .. left
  PROVE  /\ Sent(n) \in Seq(Requests) /\ Len(Sent(n)) = n
         /\ up \o Sent(n) \in Seq(Requests)
<1>1. /\ call.id \in Nat /\ call.row.osp \in BOOLEAN /\ call.row.pops \in BOOLEAN
      /\ n \in Nat /\ up \in Seq(Requests)
  BY Numbers DEF TypeOK, Calls, RowsOf
<1>2. \A k \in 1..n : [id |-> call.id, last |-> (n = left /\ ~(call.sends > 1)) /\ k = n,
                       osp |-> call.row.osp, pops |-> call.row.pops] \in Requests
  BY <1>1, Zenon DEF Requests
<1>3. Sent(n) \in Seq(Requests) /\ Len(Sent(n)) = n
  BY <1>1, <1>2, SMTT(30) DEF Sent
<1> QED
  BY <1>1, <1>3

\* A write is followed by another one, by the next send call or by the reader.
LEMMA WriteSteps ==
  ASSUME TypeOK, NEW n, Write(n)
  PROVE  /\ pc = "send" /\ n \in 1 .. left
         /\ up' = IF peer = "up" THEN up \o Sent(n) ELSE up
         /\ UNCHANGED <<link, fd, tls, opens, enotconn, peer, pending, down, ret, from, tree,
                        errno, performed, popped, asked, tainted>>
         /\ \/ /\ n < left /\ left' = left - n
               /\ UNCHANGED <<call, pc, parsed, idle, retries, blocking>>
            \/ /\ n = left /\ call.sends > 1 /\ left' = Units
               /\ call' = [call EXCEPT !.sends = @ - 1]
               /\ UNCHANGED <<pc, parsed, idle, retries, blocking>>
            \/ /\ n = left /\ ~(call.sends > 1) /\ left' = 0 /\ call' = call /\ EnterRead
<1>1. pc = "send" /\ n \in 1 .. left /\ left \in Nat /\ n \in Nat /\ n <= left
  BY Numbers, SMTT(30) DEF Write, TypeOK
<1>2. up' = IF peer = "up" THEN up \o Sent(n) ELSE up
  BY DEF Write, Sent
<1>3. UNCHANGED <<link, fd, tls, opens, enotconn, peer, pending, down, ret, from, tree,
                  errno, performed, popped, asked, tainted>>
  BY DEF Write, outcome, scanner
<1>4. CASE n < left
  BY <1>1, <1>2, <1>3, <1>4, Zenon DEF Write, reader
<1>5. CASE n = left
  BY <1>1, <1>2, <1>3, <1>5, Zenon DEF Write, reader
<1> QED
  BY <1>1, <1>4, <1>5

\* The reader starts with nothing read and all its tries.
LEMMA EnterReadType ==
  ASSUME Typed, EnterRead
  PROVE  /\ pc' = "read" /\ parsed' = <<>> /\ parsed' \in Seq(Pieces)
         /\ idle' \in 0..Timeout /\ retries' \in 0..Retries /\ blocking' \in BOOLEAN
BY Numbers DEF EnterRead

\* A write keeps the types.
LEMMA TypedWrite ==
  ASSUME Typed, NEW n, Write(n)
  PROVE  Typed'
<1>1. TypeOK
  BY DEF Typed
<1>2. up' \in Seq(Requests)
  BY <1>1, WriteSteps, SentType, Zenon DEF TypeOK
<1>3. /\ link # "none" /\ pc = "send"
      /\ UNCHANGED <<link, fd, tls, opens, enotconn, peer, pending, down, ret, from, tree,
                     errno, performed, popped, asked, tainted>>
  BY <1>1, WriteSteps DEF Typed
<1>4. CASE n < left /\ left' = left - n /\ UNCHANGED <<call, pc, parsed, idle, retries, blocking>>
  <2>1. left' \in 0..Units
    <3>1. n \in 1 .. left /\ left \in 0..Units
      BY <1>1, WriteSteps, Zenon DEF TypeOK
    <3> QED
      BY <1>4, <3>1, Numbers
  <2> QED
    BY <1>2, <1>3, <1>4, <2>1 DEF Typed, TypeOK
<1>5. CASE /\ n = left /\ call.sends > 1 /\ left' = Units /\ call' = [call EXCEPT !.sends = @ - 1]
           /\ UNCHANGED <<pc, parsed, idle, retries, blocking>>
  <2>1. call' \in Calls /\ call'.row = call.row
    <3>1. call \in Calls /\ call.sends \in Nat /\ call.sends > 1
      BY <1>1, <1>5, Zenon DEF TypeOK, Calls
    <3> QED
      BY <1>5, <3>1 DEF Calls
  <2>2. left' \in 0..Units
    BY <1>5, Numbers
  <2> QED
    BY <1>2, <1>3, <1>5, <2>1, <2>2 DEF Typed, TypeOK
<1>6. CASE n = left /\ left' = 0 /\ call' = call /\ EnterRead
  <2>1. left' \in 0..Units
    BY <1>6, Numbers
  <2> QED
    BY <1>2, <1>3, <1>6, <2>1, EnterReadType DEF Typed, TypeOK
<1> QED
  BY <1>1, <1>4, <1>5, <1>6, WriteSteps

\* So does a write that fails.
LEMMA TypedSendFails ==
  ASSUME Typed, NEW rc \in {1, -1}, SendFails(rc)
  PROVE  Typed'
<1>1. /\ pc = "send" /\ link # "none" /\ call.row \in AllRows /\ left' \in 0..Units
      /\ UNCHANGED <<link, fd, tls, opens, enotconn, peer, up, pending, down, call, from,
                     tree, errno, performed, popped, asked>>
  BY Numbers DEF SendFails, Typed, scanner
<1>2. CASE EnterRead /\ UNCHANGED <<ret, tainted>>
  BY <1>1, <1>2, EnterReadType DEF Typed, TypeOK
<1>3. CASE pc' = "done" /\ tainted' = TRUE /\ ret' \in Int /\ UNCHANGED <<reader, blocking>>
  BY <1>1, <1>3 DEF Typed, TypeOK, reader
<1>4. CASE /\ pc' = "done" /\ tainted' = TRUE /\ UNCHANGED <<reader, blocking>>
           /\ ret' = CASE call.row.osp -> OspFailure(call.row)
                       [] ~call.row.osp /\ call.row.onsend = "return" -> rc
                       [] ~call.row.osp /\ call.row.onsend = "fail2" -> -2
                       [] OTHER -> -1
  <2>1. ret' \in Int
    BY <1>4, Failures
  <2> QED
    BY <1>3, <1>4, <2>1, Zenon
<1> QED
  BY <1>2, <1>4, Zenon DEF SendFails

\* What every way out of the reader leaves.
LEMMA ReaderReturnsType ==
  ASSUME ReaderReturns
  PROVE  /\ pc' = "done" /\ blocking' = TRUE /\ parsed' \in Seq(Pieces)
         /\ idle' \in 0..Timeout /\ retries' \in 0..Retries
BY Numbers DEF ReaderReturns

\* Giving up keeps the types.
LEMMA TypedFailStep ==
  ASSUME Typed, NEW rc \in {-1, -2, -3, -4}, FailStep(rc)
  PROVE  Typed'
<1>1. /\ pc = "read" /\ ReaderReturns /\ ret' = ReadFailure(call.row, rc)
      /\ tainted' = TRUE /\ UNCHANGED <<from, errno>>
      /\ tree' \in {"none", "lost", "freed"}
  BY DEF FailStep, ReadFails
<1>2. ret' \in Int
  BY <1>1, Failures
<1>3. /\ down' \in Seq(Pieces)
      /\ UNCHANGED <<link, fd, tls, opens, enotconn, peer, up, pending, call, left,
                     performed, popped, asked>>
  BY DEF FailStep
<1> QED
  BY <1>1, <1>2, <1>3, ReaderReturnsType, SMTT(30) DEF Typed, TypeOK

\* A read moves the first n units that have arrived behind those read before.
LEMMA DocParts ==
  ASSUME TypeOK, NEW n \in 1 .. Len(down)
  PROVE  /\ Doc(n) \in Seq(Pieces) /\ Rest(n) \in Seq(Pieces)
         /\ Len(Doc(n)) = Len(parsed) + n /\ Len(Rest(n)) = Len(down) - n
         /\ Doc(n)[1] \in Pieces
         /\ \A i \in 1 .. Len(parsed) : Doc(n)[i] = parsed[i]
         /\ \A i \in 1 .. n : Doc(n)[Len(parsed) + i] = down[i]
         /\ \A i \in 1 .. Len(down) - n : Rest(n)[i] = down[n + i]
<1>1. parsed \in Seq(Pieces) /\ down \in Seq(Pieces)
  BY DEF TypeOK
<1>2. /\ Doc(n) \in Seq(Pieces) /\ Rest(n) \in Seq(Pieces)
      /\ Len(Doc(n)) = Len(parsed) + n /\ Len(Rest(n)) = Len(down) - n
      /\ \A i \in 1 .. Len(parsed) : Doc(n)[i] = parsed[i]
      /\ \A i \in 1 .. n : Doc(n)[Len(parsed) + i] = down[i]
      /\ \A i \in 1 .. Len(down) - n : Rest(n)[i] = down[n + i]
  BY <1>1, Chunks, SMTT(30) DEF Doc, Rest
<1>3. Doc(n)[1] \in Pieces
  BY <1>1, <1>2, SMTT(30)
<1> QED
  BY <1>2, <1>3, Zenon

\* Reading a part of the answer keeps the types.
LEMMA TypedMoreStep ==
  ASSUME Typed, NEW n, MoreStep(n)
  PROVE  Typed'
<1>1. n \in 1 .. Len(down) /\ TypeOK
  BY Zenon DEF MoreStep, Typed
<1>2. parsed' \in Seq(Pieces) /\ down' \in Seq(Pieces) /\ idle' \in 0..Timeout
      /\ retries' \in 0..Retries
  BY <1>1, DocParts, Numbers DEF MoreStep
<1>3. tree' \in {"none", "building", "freed", "given", "lost"}
  BY <1>1, Zenon DEF MoreStep, TypeOK
<1> QED
  BY <1>1, <1>2, <1>3 DEF MoreStep, Typed, TypeOK

\* So does reading the end of it.
LEMMA TypedAnswerStep ==
  ASSUME Typed, NEW n, AnswerStep(n)
  PROVE  Typed'
<1>1. n \in 1 .. Len(down) /\ TypeOK /\ pc = "read" /\ call.row \in AllRows
  BY DEF AnswerStep, Typed
<1>2. Doc(n)[1] \in Pieces /\ down' \in Seq(Pieces)
  BY <1>1, DocParts, Zenon DEF AnswerStep
<1>3. ret' = Value(call.row, Doc(n)[1].answer, errno)
  BY Zenon DEF AnswerStep, Answered, Value
<1>4. ret' \in Int
  BY <1>1, <1>2, <1>3, ValueIsInt, Zenon DEF Pieces
<1>5. from' \in Nat /\ tree' \in {"given", "freed"}
  BY <1>2, SMTT(30) DEF AnswerStep, Answered, Pieces
<1>6. errno' \in {"ERANGE", "other"}
  BY <1>1, SMTT(30) DEF AnswerStep, Answered, GmpErrno, AfterStrtol, TypeOK
<1>7. ReaderReturns /\ UNCHANGED <<tainted, link, fd, tls, opens, enotconn, peer, up, pending,
                                   call, left, performed, popped, asked>>
  BY Zenon DEF AnswerStep, Answered
<1> QED
  BY <1>1, <1>2, <1>4, <1>5, <1>6, <1>7, ReaderReturnsType, SMTT(30) DEF Typed, TypeOK

\* So does the end of a text.
LEMMA TypedReadStringEnd == Typed /\ ReadStringEnd => Typed'
<1> SUFFICES ASSUME Typed, ReadStringEnd PROVE Typed'
  OBVIOUS
<1>1. from' \in Nat
  <2>1. parsed \in Seq(Pieces) /\ from' = IF parsed = <<>> THEN 0 ELSE parsed[1].id
    BY Zenon DEF ReadStringEnd, Typed, TypeOK
  <2>2. CASE parsed # <<>>
    <3>1. parsed[1] \in Pieces
      BY <2>1, <2>2
    <3> QED
      BY <2>1, <2>2, <3>1, Zenon DEF Pieces
  <2> QED
    BY <2>1, <2>2, Zenon
<1>2. /\ pc = "read" /\ ReaderReturns /\ ret' = 0 /\ tree' = "none"
      /\ UNCHANGED <<link, fd, tls, opens, enotconn, peer, up, pending, down, call, left,
                     errno, performed, popped, asked, tainted>>
  BY Zenon DEF ReadStringEnd, scanner
<1> QED
  BY <1>1, <1>2, ReaderReturnsType DEF Typed, TypeOK

\* So does trying again.
LEMMA TypedAgainStep == Typed /\ AgainStep => Typed'
BY DEF AgainStep, Typed, TypeOK, transport, outcome, scanner

\* So does returning to the caller.
LEMMA TypedReturn == Typed /\ Return => Typed'
<1> SUFFICES ASSUME Typed, Return PROVE Typed'
  OBVIOUS
<1>1. call.id \in Nat /\ call.row.osp \in BOOLEAN
  BY DEF Typed, TypeOK, Calls, RowsOf
<1>2. call' \in Calls /\ left' \in 0..Units
  <2>1. call' = [NoCall EXCEPT !.id = call.id, !.row.osp = call.row.osp] /\ left' = 0
    BY DEF Return
  <2>2. call' \in Calls
    BY <1>1, <2>1, NoCallType, Zenon
  <2> QED
    BY <2>1, <2>2, Numbers
<1>3. /\ pc' = "idle" /\ ret' \in Int /\ from' \in Nat /\ tree' = "none" /\ performed' = {}
      /\ UNCHANGED <<link, fd, blocking, tls, opens, enotconn, peer, up, pending, down, parsed,
                     idle, retries, errno, popped, asked, tainted>>
  BY DEF Return, transport, reader
<1> QED
  BY <1>2, <1>3 DEF Typed, TypeOK

\* So does the clock.
LEMMA TypedTick == Typed /\ Tick => Typed'
<1> SUFFICES ASSUME Typed, Tick PROVE Typed'
  OBVIOUS
<1>1. idle' \in 0..Timeout
  BY Numbers DEF Typed, TypeOK, Tick
<1>2. UNCHANGED <<link, fd, blocking, tls, opens, enotconn, peer, up, pending, down, call, pc,
                  left, parsed, retries, ret, from, tree, errno, performed, popped, asked,
                  tainted>>
  BY Zenon DEF Tick, transport, outcome, scanner
<1> QED
  BY <1>1, <1>2 DEF Typed, TypeOK

\* The answer r to the call with the number id, in its units.
Reply(id, r) == [i \in 1..Units |-> [id |-> id, k |-> i, answer |-> r]]

\* An answer is a sequence of units, numbered from 1.
LEMMA ReplyType ==
  ASSUME NEW id \in Nat, NEW r \in GmpAnswers \cup OspAnswers
  PROVE  /\ Reply(id, r) \in Seq(Pieces) /\ Len(Reply(id, r)) = Units
         /\ \A i \in 1..Units : Reply(id, r)[i] = [id |-> id, k |-> i, answer |-> r]
<1>1. \A i \in 1..Units : [id |-> id, k |-> i, answer |-> r] \in Pieces
  BY Numbers, Zenon DEF Pieces
<1> QED
  BY <1>1, Numbers DEF Reply

\* The peer takes the k-th unit, the last one of a request, and answers r.
Answers1(k, r) ==
  /\ peer = "up" /\ pending = <<>> /\ k \in 1 .. Len(up) /\ Complete(k)
  /\ r \in IF up[k].osp THEN OspAnswers ELSE GmpAnswers
  /\ up' = SubSeq(up, k + 1, Len(up))
  /\ pending' = Reply(up[k].id, r)
  /\ performed' = IF Success(r) THEN performed \cup {up[k].id} ELSE performed
  /\ popped' = (popped \/ (up[k].pops /\ Success(r)))
  /\ UNCHANGED <<link, fd, blocking, tls, opens, enotconn, peer, down, call, pc, left, parsed,
                 idle, retries, ret, from, tree, errno, asked, tainted>>

\* An answer of the peer is one to a request that has arrived completely.
LEMMA PeerAnswersStep == PeerAnswers => \E k \in 1 .. Len(up) : \E r : Answers1(k, r)
<1> SUFFICES ASSUME PeerAnswers PROVE \E k \in 1 .. Len(up) : \E r : Answers1(k, r)
  OBVIOUS
<1>1. PICK k \in 1 .. Len(up) :
        /\ Complete(k)
        /\ \E r \in IF up[k].osp THEN OspAnswers ELSE Answers :
             /\ up' = SubSeq(up, k + 1, Len(up))
             /\ pending' = [i \in 1..Units |-> [id |-> up[k].id, k |-> i, answer |-> r]]
             /\ performed' = IF Success(r) THEN performed \cup {up[k].id} ELSE performed
             /\ popped' = (popped \/ (up[k].pops /\ Success(r)))
  BY Zenon DEF PeerAnswers
<1>2. PICK r \in IF up[k].osp THEN OspAnswers ELSE Answers :
             /\ up' = SubSeq(up, k + 1, Len(up))
             /\ pending' = [i \in 1..Units |-> [id |-> up[k].id, k |-> i, answer |-> r]]
             /\ performed' = IF Success(r) THEN performed \cup {up[k].id} ELSE performed
             /\ popped' = (popped \/ (up[k].pops /\ Success(r)))
  BY <1>1, Zenon
<1>3. r \in IF up[k].osp THEN OspAnswers ELSE GmpAnswers
  BY SessionAssumption, Zenon
<1>4. /\ peer = "up" /\ pending = <<>>
      /\ UNCHANGED <<link, fd, blocking, tls, opens, enotconn, peer, down, call, pc, left, parsed,
                     idle, retries, ret, from, tree, errno, asked, tainted>>
  BY DEF PeerAnswers, transport, reader, outcome
<1>5. Answers1(k, r)
  BY <1>1, <1>2, <1>3, <1>4, Zenon DEF Answers1, Reply
<1> QED
  BY <1>5, Zenon

\* Answering keeps the types.
LEMMA TypedPeerAnswers ==
  ASSUME Typed, NEW k, NEW r, Answers1(k, r)
  PROVE  Typed'
<1>1. k \in 1 .. Len(up) /\ up \in Seq(Requests)
  BY Zenon DEF Answers1, Typed, TypeOK
<1>2. up[k].id \in Nat /\ up[k].pops \in BOOLEAN /\ r \in GmpAnswers \cup OspAnswers
  <2>1. up[k] \in Requests
    BY <1>1
  <2>2. r \in GmpAnswers \cup OspAnswers
    BY ZenonT(40) DEF Answers1
  <2> QED
    BY <2>1, <2>2 DEF Requests
<1>3. pending' \in Seq(Pieces) /\ up' \in Seq(Requests)
  BY <1>1, <1>2, ReplyType, SMTT(30) DEF Answers1
<1>4. performed' \subseteq Nat /\ popped' \in BOOLEAN
  BY <1>2, Zenon DEF Answers1, Typed, TypeOK
<1> QED
  BY <1>3, <1>4, SMTT(30) DEF Answers1, Typed, TypeOK

\* So does sending a unit of an answer.
LEMMA TypedPeerSends == Typed /\ PeerSends => Typed'
<1> SUFFICES ASSUME Typed, PeerSends PROVE Typed'
  OBVIOUS
<1>1. down' \in Seq(Pieces) /\ pending' \in Seq(Pieces)
  BY DEF PeerSends, Typed, TypeOK
<1>2. UNCHANGED <<link, fd, blocking, tls, opens, enotconn, peer, up, call, pc, left, parsed,
                  idle, retries, ret, from, tree, errno, performed, popped, asked, tainted>>
  BY SMTT(30) DEF PeerSends, transport, reader, outcome, scanner
<1> QED
  BY <1>1, <1>2 DEF Typed, TypeOK

\* So does a peer that leaves.
LEMMA TypedPeerLeaves == Typed /\ PeerLeaves => Typed'
<1> SUFFICES ASSUME Typed, PeerLeaves PROVE Typed'
  OBVIOUS
<1>1. <<>> \in Seq(Requests) /\ <<>> \in Seq(Pieces)
  OBVIOUS
<1>2. down' \in Seq(Pieces) /\ pending' \in Seq(Pieces) /\ up' \in Seq(Requests)
      /\ peer' \in {"up", "closed", "reset"}
  BY <1>1, Zenon DEF PeerLeaves, Typed, TypeOK
<1>3. UNCHANGED <<link, fd, blocking, tls, opens, enotconn, call, pc, left, parsed,
                  idle, retries, ret, from, tree, errno, performed, popped, asked, tainted>>
  BY Zenon DEF PeerLeaves, transport, reader, outcome, scanner
<1> QED
  BY <1>2, <1>3 DEF Typed, TypeOK

\* Every step is one of these.
LEMMA AnyStep ==
  ASSUME TypeOK, Next
  PROVE  \/ osp_connection_new
         \/ Close
         \/ \E c \in Rows, t \in {0, Timeout}, valid \in BOOLEAN : Begin(c, t, valid)
         \/ \E n \in 1..Units : Write(n)
         \/ \E rc \in {1, -1} : SendFails(rc)
         \/ \E n \in 1 .. Len(down) : MoreStep(n)
         \/ \E n \in 1 .. Len(down) : AnswerStep(n)
         \/ \E rc \in {-1, -2, -3, -4} : FailStep(rc)
         \/ AgainStep
         \/ ReadStringEnd
         \/ Return
         \/ Tick
         \/ \E k \in 1 .. Len(up) : \E r : Answers1(k, r)
         \/ PeerSends
         \/ PeerLeaves
<1>1. CASE Client
  <2>1. CASE \E n \in 1..Len(down) : Read(n) \/ ReadString(n)
    BY <2>1, ReaderSteps, Zenon
  <2>2. CASE ReadTimesOut
    BY <2>2, ReaderSteps, Zenon
  <2>3. CASE ReadEndOfFile
    BY <2>3, ReaderSteps, Zenon
  <2>4. CASE ReadError
    BY <2>4, ReaderSteps, Zenon
  <2> QED
    BY <1>1, <2>1, <2>2, <2>3, <2>4 DEF Client
<1>2. CASE ReadAgain
  BY <1>2, ReaderSteps
<1>3. CASE Peer
  BY <1>3, PeerAnswersStep DEF Peer
<1> QED
  BY <1>1, <1>2, <1>3, Zenon DEF Next

\* Every step keeps the types.
LEMMA TypedNext == Typed /\ [Next]_vars => Typed'
<1> SUFFICES ASSUME Typed, [Next]_vars PROVE Typed'
  BY Zenon
<1>1. CASE UNCHANGED vars
  BY <1>1 DEF vars, transport, reader, outcome, scanner, Typed, TypeOK
<1>2. CASE Next
  <2>1. TypeOK
    BY Zenon DEF Typed
  <2>2. ASSUME NEW n \in 1..Units, Write(n) PROVE Typed'
    BY <2>2, TypedWrite, Zenon
  <2>3. ASSUME NEW n \in 1 .. Len(down), MoreStep(n) PROVE Typed'
    BY <2>3, TypedMoreStep, Zenon
  <2>4. ASSUME NEW n \in 1 .. Len(down), AnswerStep(n) PROVE Typed'
    BY <2>4, TypedAnswerStep, Zenon
  <2>5. ASSUME NEW k \in 1 .. Len(up), NEW r, Answers1(k, r) PROVE Typed'
    BY <2>5, TypedPeerAnswers, Zenon
  <2> QED
    BY <1>2, <2>1, <2>2, <2>3, <2>4, <2>5, AnyStep, TypedOpen, TypedClose, TypedBegin,
       TypedSendFails, TypedFailStep, TypedAgainStep, TypedReadStringEnd, TypedReturn, TypedTick,
       TypedPeerSends, TypedPeerLeaves, Zenon
<1> QED
  BY <1>1, <1>2

\* Every variable has its type, the running call is one of a function of the library,
\* and there is no call without a connection.
THEOREM TypesHold == Spec => []Typed
BY TypedInit, TypedNext, PTL DEF Spec
-----------------------------------------------------------------------------
(* The socket, its mode and what was parsed.                               *)

\* The mode of the socket and the tree, by where the call is.
Disposal ==
  /\ pc # "read" => blocking
  /\ pc \in {"idle", "send"} => tree = "none" /\ from = 0
  /\ pc = "read" => tree \in {"none", "building"} /\ from = 0
  /\ TreeDisposed

\* Every step keeps the mode of the socket and the tree as the call needs them.
LEMMA DisposalNext == Typed /\ Disposal /\ [Next]_vars => Disposal'
<1> SUFFICES ASSUME Typed, Disposal, [Next]_vars PROVE Disposal'
  BY Zenon
<1> USE DEF TreeDisposed, Disposal
<1>1. CASE UNCHANGED vars
  BY <1>1, Zenon DEF vars, transport, outcome, Timed, EffectiveTimeout
<1>2. CASE osp_connection_new
  <2>1. pc = "idle" /\ UNCHANGED <<pc, tree, from>> /\ blocking'
    BY <1>2, Zenon DEF osp_connection_new, gvm_server_open_verify, OpenUnix, Connected, NotConnected,
                outcome, Typed
  <2> QED
    BY <2>1, Zenon
<1>3. CASE Close
  BY <1>3, Zenon DEF Close, Disconnected, outcome
<1>4. ASSUME NEW c \in Rows, NEW t \in {0, Timeout}, NEW valid \in BOOLEAN, Begin(c, t, valid)
      PROVE  Disposal'
  BY <1>4, Zenon DEF Begin, transport
<1>5. ASSUME NEW n \in 1..Units, Write(n) PROVE Disposal'
  BY <1>5, Zenon DEF Write, EnterRead, outcome
<1>6. ASSUME NEW rc \in {1, -1}, SendFails(rc) PROVE Disposal'
  BY <1>6, ZenonT(40) DEF SendFails, EnterRead
<1>7. ASSUME NEW n \in 1 .. Len(down), MoreStep(n) PROVE Disposal'
  BY <1>7, Zenon DEF MoreStep
<1>8. ASSUME NEW n \in 1 .. Len(down), AnswerStep(n) PROVE Disposal'
  BY <1>8, Zenon DEF AnswerStep, Answered, ReaderReturns
<1>9. ASSUME NEW rc \in {-1, -2, -3, -4}, FailStep(rc) PROVE Disposal'
  BY <1>9, Zenon DEF FailStep, ReadFails, ReaderReturns, Timed, EffectiveTimeout
<1>10. CASE AgainStep
  BY <1>10, Zenon DEF AgainStep, transport, outcome
<1>11. CASE ReadStringEnd
  BY <1>11, Zenon DEF ReadStringEnd, ReaderReturns
<1>12. CASE Return
  BY <1>12, Zenon DEF Return, transport
<1>13. CASE Tick
  BY <1>13, Zenon DEF Tick, transport, outcome
<1>14. ASSUME NEW k \in 1 .. Len(up), NEW r, Answers1(k, r) PROVE Disposal'
  BY <1>14, Zenon DEF Answers1, Timed, EffectiveTimeout
<1>15. CASE PeerSends
  BY <1>15, Zenon DEF PeerSends, transport, outcome, Timed, EffectiveTimeout
<1>16. CASE PeerLeaves
  BY <1>16, Zenon DEF PeerLeaves, transport, outcome, Timed, EffectiveTimeout
<1>17. TypeOK
  BY Zenon DEF Typed
<1> QED
  BY <1>1, <1>2, <1>3, <1>4, <1>5, <1>6, <1>7, <1>8, <1>9, <1>10, <1>11, <1>12, <1>13, <1>14,
     <1>15, <1>16, <1>17, AnyStep, ZenonT(40)

\* Every step keeps the socket with the connection.
LEMMA SocketNext == Typed /\ SocketReleased /\ [Next]_vars => SocketReleased'
<1> SUFFICES ASSUME Typed, SocketReleased, [Next]_vars PROVE SocketReleased'
  BY Zenon
<1> USE DEF SocketReleased
<1>1. CASE osp_connection_new
  <2>1. PICK stage \in IF "open" \in Faults THEN OpenStages ELSE {"ok"} :
          gvm_server_open_verify(stage) \/ OpenUnix(stage)
    BY <1>1, Zenon DEF osp_connection_new
  <2>2. link = "none"
    BY <1>1 DEF osp_connection_new
  <2>3. CASE stage = "ok"
    BY <2>1, <2>3 DEF gvm_server_open_verify, OpenUnix, Connected, SocketAfter
  <2>4. CASE stage # "ok"
    BY <2>1, <2>2, <2>4, Zenon DEF gvm_server_open_verify, OpenUnix, NotConnected, SocketAfter
  <2> QED
    BY <2>3, <2>4, Zenon
<1>2. CASE Close
  BY <1>2, Zenon DEF Close, Disconnected, osp_connection_close, gvm_server_free, close_unix
<1>3. CASE UNCHANGED <<link, fd, enotconn>>
  BY <1>3, SMTT(30)
<1>4. Next => osp_connection_new \/ Close \/ UNCHANGED <<link, fd, enotconn>>
  BY AnyStep, ZenonT(40) DEF Typed, Begin, Write, SendFails, MoreStep, AnswerStep, FailStep, AgainStep,
     ReadStringEnd, Return, Tick, Answers1, PeerSends, PeerLeaves, transport
<1>5. UNCHANGED vars => UNCHANGED <<link, fd, enotconn>>
  BY DEF vars, transport
<1> QED
  BY <1>1, <1>2, <1>3, <1>4, <1>5, Zenon

\* Every reader leaves the socket blocking, whatever made it return.
THEOREM BlockingRestoredHolds == Spec => []BlockingRestored
<1>1. Init => Disposal
  BY DEF Init, Disposal, TreeDisposed
<1>2. Disposal => BlockingRestored
  BY DEF Disposal, BlockingRestored
<1> QED
  BY <1>1, <1>2, DisposalNext, TypesHold, PTL DEF Spec

\* What a call parsed is freed or given to the caller, except after a timeout.
THEOREM TreeDisposedHolds == Spec => []TreeDisposed
<1>1. Init => Disposal
  BY DEF Init, Disposal, TreeDisposed
<1>2. Disposal => TreeDisposed
  BY DEF Disposal
<1> QED
  BY <1>1, <1>2, DisposalNext, TypesHold, PTL DEF Spec

\* No way of opening or closing a connection leaves its socket behind, except
\* for close_unix on a socket that is not connected.
THEOREM SocketReleasedHolds == Spec => []SocketReleased
<1>1. Init => SocketReleased
  BY Zenon DEF Init, SocketReleased
<1> QED
  BY <1>1, SocketNext, TypesHold, PTL DEF Spec
-----------------------------------------------------------------------------
(* Requests and answers.                                                   *)

\* A unit of the request of the current call, and of the answer r to it.
Own(u) == u.id = call.id /\ u.osp = call.row.osp
Piece(i, r) == [id |-> call.id, k |-> i, answer |-> r]
AnswersTo(c) == IF c.osp THEN OspAnswers ELSE GmpAnswers

\* The request is on its way, and only as a whole has a last unit.
Sending ==
  /\ pending = <<>> /\ down = <<>> /\ performed = {}
  /\ \A i \in 1 .. Len(up) : Own(up[i]) /\ ~up[i].last

\* The peer has not answered yet.
Waiting ==
  /\ parsed = <<>> /\ pending = <<>> /\ down = <<>> /\ performed = {}
  /\ \A i \in 1 .. Len(up) : Own(up[i]) /\ (up[i].last => i = Len(up))

\* The peer has answered r.  What was read of the answer, what has arrived and
\* what the peer still has to send are its units in order, and there is nothing
\* else.
Answering(r) ==
  /\ up = <<>>
  /\ Len(parsed) + Len(down) + Len(pending) <= Units
  /\ \A i \in 1 .. Len(parsed) : parsed[i] = Piece(i, r)
  /\ \A i \in 1 .. Len(down) : down[i] = Piece(Len(parsed) + i, r)
  /\ \A i \in 1 .. Len(pending) : pending[i] = Piece(Len(parsed) + Len(down) + i, r)
  /\ performed = IF Success(r) THEN {call.id} ELSE {}

\* Client and peer are in step on a connection on which every call has read its
\* answer.
Untainted ==
  /\ pc \in {"idle", "done"} => up = <<>> /\ pending = <<>> /\ down = <<>>
  /\ pc = "idle" => performed = {}
  /\ pc = "send" => Sending
  /\ pc = "read" => Waiting \/ \E r \in AnswersTo(call.row) : Answering(r)

\* The inductive invariant: in step until a call is given up with its answer
\* unread, and what was read is the answer to the call.
InStep ==
  /\ parsed # <<>> => pc = "read"
  /\ peer # "up" => up = <<>> /\ pending = <<>>
  /\ ~tainted => Untainted
  /\ ReplyIsOwn /\ Faithful

\* Before the first connection nothing is out of step.
LEMMA InStepInit == Init => InStep
BY Zenon DEF Init, InStep, Untainted, ReplyIsOwn, Faithful

\* A new connection has nothing on it.
LEMMA InStepOpen == Typed /\ Disposal /\ InStep /\ osp_connection_new => InStep'
<1> SUFFICES ASSUME Typed, Disposal, InStep, osp_connection_new PROVE InStep'
  BY Zenon
<1>1. pc = "idle" /\ UNCHANGED <<pc, parsed, from>>
  BY DEF osp_connection_new, Typed, reader, outcome
<1>2. NotConnected \/ \E l \in {"tls", "unix"} : Connected(l)
  BY Zenon DEF osp_connection_new, gvm_server_open_verify, OpenUnix
<1>3. CASE NotConnected
  BY <1>1, <1>3, SMTT(30) DEF NotConnected, InStep, Untainted, ReplyIsOwn, Faithful
<1>4. CASE \E l \in {"tls", "unix"} : Connected(l)
  BY <1>1, <1>4, SMTT(30) DEF Connected, InStep, Untainted, ReplyIsOwn, Faithful
<1> QED
  BY <1>2, <1>3, <1>4, Zenon

\* A closed connection has nothing on it.
LEMMA InStepClose == InStep /\ Close => InStep'
BY SMTT(30) DEF Close, Disconnected, reader, InStep, Untainted, ReplyIsOwn, Faithful

\* A call starts on an empty connection.
LEMMA InStepBegin ==
  ASSUME Typed, Disposal, InStep, NEW c, NEW t, NEW valid \in BOOLEAN, Begin(c, t, valid)
  PROVE  InStep'
<1>1. /\ pc = "idle" /\ from = 0 /\ parsed = <<>>
      /\ pc' \in {"send", "done"}
      /\ UNCHANGED <<peer, up, pending, down, parsed, from, performed, tainted>>
  BY Zenon DEF Begin, Disposal, InStep, reader, scanner
<1>2. ~tainted => up = <<>> /\ pending = <<>> /\ down = <<>> /\ performed = {}
  BY <1>1, Zenon DEF InStep, Untainted
<1>3. ~tainted' => Untainted'
  BY <1>1, <1>2 DEF Untainted, Sending
<1> QED
  BY <1>1, <1>3, SMTT(30) DEF InStep, ReplyIsOwn, Faithful

\* Units of the call behind those of the call, the last one at the end.
LEMMA SentOwn ==
  ASSUME TypeOK, Sending, NEW n \in 1 .. left
  PROVE  /\ \A i \in 1 .. Len(up \o Sent(n)) : Own((up \o Sent(n))[i])
         /\ \A i \in 1 .. Len(up \o Sent(n)) :
              (up \o Sent(n))[i].last =>
                n = left /\ ~(call.sends > 1) /\ i = Len(up \o Sent(n))
<1> DEFINE s == Sent(n)
           a == up
<1>1. s \in Seq(Requests) /\ a \in Seq(Requests) /\ Len(s) = n
  BY SentType, SMTT(30) DEF TypeOK
<1>2. ASSUME NEW k \in 1 .. Len(s)
      PROVE  Own(s[k]) /\ (s[k].last => n = left /\ ~(call.sends > 1) /\ k = Len(s))
  BY <1>1, Zenon DEF Sent, Own
<1>3. \A i \in 1 .. Len(a) : Own(a[i]) /\ ~a[i].last
  BY DEF Sending
<1> HIDE DEF s, a
<1>4. /\ a \o s \in Seq(Requests) /\ Len(a \o s) = Len(a) + Len(s)
      /\ \A i \in 1 .. Len(a) + Len(s) :
           (a \o s)[i] = IF i <= Len(a) THEN a[i] ELSE s[i - Len(a)]
  BY <1>1, Concatenated, Zenon
<1>5. ASSUME NEW i \in 1 .. Len(a \o s)
      PROVE  /\ Own((a \o s)[i])
             /\ (a \o s)[i].last => n = left /\ ~(call.sends > 1) /\ i = Len(a \o s)
  <2>1. CASE i <= Len(a)
    BY <1>1, <1>3, <1>4, <2>1, SMTT(30)
  <2>2. CASE ~(i <= Len(a))
    <3>1. i - Len(a) \in 1 .. Len(s) /\ (i - Len(a) = Len(s) => i = Len(a \o s))
      BY <1>1, <1>4, <2>2
    <3>2. (a \o s)[i] = s[i - Len(a)]
      BY <1>1, <1>4, <2>2, SMTT(30)
    <3> QED
      BY <1>2, <3>1, <3>2, Zenon
  <2> QED
    BY <2>1, <2>2, Zenon
<1> QED
  BY <1>5, Zenon DEF s, a

\* A write adds units of the call; the last one ends the request.
LEMMA InStepWrite ==
  ASSUME Typed, Disposal, InStep, NEW n, Write(n)
  PROVE  InStep'
<1>1. TypeOK
  BY Zenon DEF Typed
<1>2. /\ pc = "send" /\ n \in 1 .. left
      /\ up' = IF peer = "up" THEN up \o Sent(n) ELSE up
      /\ UNCHANGED <<peer, pending, down, from, performed, tainted>>
  BY <1>1, WriteSteps, Zenon
<1>3. \/ pc' = "send" /\ parsed' = parsed /\ (n < left \/ call.sends > 1)
      \/ pc' = "read" /\ parsed' = <<>>
  BY <1>1, WriteSteps DEF EnterRead
<1>4. call'.id = call.id /\ call'.row = call.row
  BY <1>1, WriteSteps, Zenon DEF TypeOK, Calls
<1>5. parsed' = <<>>
  BY <1>2, <1>3, Zenon DEF InStep
<1>6. ASSUME ~tainted PROVE Untainted'
  <2>1. Sending
    BY <1>2, <1>6, Zenon DEF InStep, Untainted
  <2>2. /\ \A i \in 1 .. Len(up') : Own(up'[i])
        /\ \A i \in 1 .. Len(up') : up'[i].last =>
             n = left /\ ~(call.sends > 1) /\ i = Len(up')
    <3>1. CASE peer = "up"
      BY <1>1, <1>2, <2>1, <3>1, SentOwn, Zenon
    <3>2. CASE peer # "up"
      BY <1>2, <2>1, <3>2, Zenon DEF Sending
    <3> QED
      BY <3>1, <3>2, Zenon
  <2>4. \A i \in 1 .. Len(up') : Own(up[i])'
    BY <1>4, <2>2, Zenon DEF Own
  <2>5. CASE pc' = "send"
    <3>1. n < left \/ call.sends > 1
      BY <1>3, <2>5, Zenon
    <3>2. \A i \in 1 .. Len(up') : ~up'[i].last
      <4>1. n < left => n # left
        BY <1>1, <1>2, Numbers DEF TypeOK
      <4> QED
        BY <2>2, <3>1, <4>1, Zenon
    <3> QED
      BY <1>2, <2>1, <2>4, <2>5, <3>2 DEF Untainted, Sending
  <2>6. CASE pc' = "read"
    <3>1. Waiting'
      BY <1>2, <1>5, <2>1, <2>2, <2>4 DEF Waiting, Sending
    <3> QED
      BY <2>6, <3>1, Zenon DEF Untainted
  <2> QED
    BY <1>3, <2>5, <2>6, Zenon
<1> QED
  BY <1>2, <1>3, <1>5, <1>6, Zenon DEF InStep, ReplyIsOwn, Faithful

\* A call that cannot send taints the connection, or reads from a peer that is gone.
LEMMA InStepSendFails ==
  ASSUME Typed, InStep, NEW rc, SendFails(rc)
  PROVE  InStep'
<1>1. /\ pc = "send" /\ peer # "up" /\ parsed = <<>>
      /\ UNCHANGED <<peer, up, pending, down, call, performed, from>>
  BY Zenon DEF SendFails, InStep, scanner
<1>2. up = <<>> /\ pending = <<>>
  BY <1>1, Zenon DEF InStep
<1>3. CASE EnterRead /\ tainted' = tainted
  <2>1. parsed' = <<>> /\ pc' = "read"
    BY <1>3, Zenon DEF EnterRead
  <2>2. ~tainted => Sending
    BY <1>1, Zenon DEF InStep, Untainted
  <2>3. ~tainted => Waiting'
    BY <1>1, <1>2, <2>1, <2>2, SMTT(30) DEF Sending, Waiting
  <2> QED
    BY <1>1, <1>2, <1>3, <2>1, <2>3 DEF InStep, Untainted, ReplyIsOwn, Faithful
<1>4. CASE pc' = "done" /\ tainted' = TRUE /\ parsed' = parsed
  BY <1>1, <1>2, <1>4 DEF InStep, ReplyIsOwn, Faithful
<1> QED
  BY <1>3, <1>4, Zenon DEF SendFails, reader

\* A reader that gives up taints the connection.
LEMMA InStepFailStep ==
  ASSUME InStep, NEW rc, FailStep(rc)
  PROVE  InStep'
BY SMTT(30) DEF FailStep, ReadFails, ReaderReturns, InStep, ReplyIsOwn, Faithful

\* A read moves units from what has arrived to what was read.
LEMMA AnsweringRead ==
  ASSUME TypeOK, NEW r, Answering(r), NEW n \in 1 .. Len(down)
  PROVE  /\ \A i \in 1 .. Len(Doc(n)) : Doc(n)[i] = Piece(i, r)
         /\ \A i \in 1 .. Len(Rest(n)) : Rest(n)[i] = Piece(Len(Doc(n)) + i, r)
         /\ Len(Doc(n)) + Len(Rest(n)) = Len(parsed) + Len(down)
<1>1. parsed \in Seq(Pieces) /\ down \in Seq(Pieces) /\ Len(parsed) \in Nat /\ Len(down) \in Nat
  BY SMTT(30) DEF TypeOK
<1>2. /\ Len(Doc(n)) = Len(parsed) + n /\ Len(Rest(n)) = Len(down) - n
      /\ \A i \in 1 .. Len(parsed) : Doc(n)[i] = parsed[i]
      /\ \A i \in 1 .. n : Doc(n)[Len(parsed) + i] = down[i]
      /\ \A i \in 1 .. Len(down) - n : Rest(n)[i] = down[n + i]
  BY DocParts, Zenon
<1>3. /\ \A i \in 1 .. Len(parsed) : parsed[i] = Piece(i, r)
      /\ \A i \in 1 .. Len(down) : down[i] = Piece(Len(parsed) + i, r)
  BY Zenon DEF Answering
<1>4. ASSUME NEW i \in 1 .. Len(Doc(n)) PROVE Doc(n)[i] = Piece(i, r)
  <2>1. CASE i <= Len(parsed)
    BY <1>1, <1>2, <1>3, <2>1, SMTT(30)
  <2>2. CASE ~(i <= Len(parsed))
    <3> DEFINE j == i - Len(parsed)
    <3>1. j \in 1 .. n /\ j \in 1 .. Len(down) /\ i = Len(parsed) + j
      BY <1>1, <1>2, <2>2, SMTT(30)
    <3> HIDE DEF j
    <3> QED
      BY <1>2, <1>3, <3>1, Zenon
  <2> QED
    BY <2>1, <2>2, SMTT(30)
<1>5. ASSUME NEW i \in 1 .. Len(Rest(n)) PROVE Rest(n)[i] = Piece(Len(Doc(n)) + i, r)
  <2>1. i \in 1 .. Len(down) - n /\ n + i \in 1 .. Len(down)
        /\ Len(parsed) + (n + i) = Len(Doc(n)) + i
    BY <1>1, <1>2, SMTT(30)
  <2>2. Rest(n)[i] = down[n + i] /\ down[n + i] = Piece(Len(parsed) + (n + i), r)
    BY <1>2, <1>3, <2>1, Zenon
  <2> QED
    BY <2>1, <2>2, Zenon
<1>6. Len(Doc(n)) + Len(Rest(n)) = Len(parsed) + Len(down)
  BY <1>1, <1>2
<1> QED
  BY <1>4, <1>5, <1>6, Zenon

\* On an untainted connection, something can be read of an answer to the call only.
LEMMA ReadsAnswer ==
  ASSUME InStep, ~tainted, pc = "read", NEW n \in 1 .. Len(down)
  PROVE  \E r \in AnswersTo(call.row) : Answering(r)
<1>1. CASE Waiting
  BY <1>1 DEF Waiting
<1> QED
  BY <1>1, Zenon DEF InStep, Untainted

\* Reading a part of the answer leaves the rest in order.
LEMMA InStepMoreStep ==
  ASSUME Typed, InStep, NEW n, MoreStep(n)
  PROVE  InStep'
<1>1. /\ pc = "read" /\ n \in 1 .. Len(down) /\ parsed' = Doc(n) /\ down' = Rest(n)
      /\ UNCHANGED <<peer, up, pending, call, pc, ret, from, performed, tainted>>
  BY Zenon DEF MoreStep
<1>2. ASSUME ~tainted PROVE Untainted'
  <2>1. PICK r \in AnswersTo(call.row) : Answering(r)
    BY <1>1, <1>2, ReadsAnswer, SMTT(30)
  <2>2. /\ \A i \in 1 .. Len(parsed') : parsed'[i] = Piece(i, r)
        /\ \A i \in 1 .. Len(down') : down'[i] = Piece(Len(parsed') + i, r)
        /\ Len(parsed') + Len(down') = Len(parsed) + Len(down)
    BY <1>1, <2>1, AnsweringRead, Zenon DEF Typed
  <2>3. Answering(r)'
    BY <1>1, <2>1, <2>2, Zenon DEF Answering, Piece
  <2> QED
    BY <1>1, <2>1, <2>3, Zenon DEF Untainted, AnswersTo
<1> QED
  BY <1>1, <1>2, Zenon DEF InStep, ReplyIsOwn, Faithful

\* Reading the end of the answer leaves nothing behind, and the function is right
\* about it.
LEMMA InStepAnswerStep ==
  ASSUME Typed, InStep, NEW n, AnswerStep(n)
  PROVE  InStep'
<1>1. /\ pc = "read" /\ n \in 1 .. Len(down) /\ Len(Doc(n)) >= Units /\ down' = Rest(n)
      /\ pc' = "done" /\ parsed' = <<>>
      /\ from' = Doc(n)[1].id /\ ret' = Value(call.row, Doc(n)[1].answer, errno)
      /\ UNCHANGED <<peer, up, pending, call, performed, tainted>>
  BY ZenonT(40) DEF AnswerStep, Answered, ReaderReturns, Value
<1>2. CASE tainted
  BY <1>1, <1>2, SMTT(30) DEF InStep, ReplyIsOwn, Faithful
<1>3. CASE ~tainted
  <2>1. PICK r \in AnswersTo(call.row) : Answering(r)
    BY <1>1, <1>3, ReadsAnswer, SMTT(30)
  <2>2. /\ \A i \in 1 .. Len(Doc(n)) : Doc(n)[i] = Piece(i, r)
        /\ Len(Doc(n)) + Len(Rest(n)) = Len(parsed) + Len(down)
    BY <1>1, <2>1, AnsweringRead, ZenonT(40) DEF Typed
  <2>3. /\ Doc(n) \in Seq(Pieces) /\ Rest(n) \in Seq(Pieces) /\ pending \in Seq(Pieces)
        /\ Len(Doc(n)) \in Nat /\ Len(Rest(n)) \in Nat /\ Len(pending) \in Nat
    BY <1>1, DocParts, SMTT(30) DEF Typed, TypeOK
  <2>4. Len(Rest(n)) = 0 /\ Len(pending) = 0 /\ 1 \in 1 .. Len(Doc(n))
    <3>1. Len(parsed) + Len(down) + Len(pending) <= Units
      BY <2>1, Zenon DEF Answering
    <3>2. /\ Len(Doc(n)) >= Units /\ Len(Doc(n)) + Len(Rest(n)) = Len(parsed) + Len(down)
          /\ Len(Doc(n)) \in Nat /\ Len(Rest(n)) \in Nat /\ Len(pending) \in Nat
      BY <1>1, <2>2, <2>3, Zenon
    <3> QED BY <3>1, <3>2, Numbers
  <2>5. down' = <<>> /\ pending = <<>> /\ up = <<>>
    <3>1. Rest(n) = <<>> /\ pending = <<>>
      BY <2>3, <2>4
    <3> QED BY <1>1, <2>1, <3>1, Zenon DEF Answering
  <2>6. from' = call.id /\ ret' = Value(call.row, r, errno)
    <3>1. Doc(n)[1] = Piece(1, r)
      BY <2>2, <2>4, Zenon
    <3>2. Doc(n)[1].id = call.id /\ Doc(n)[1].answer = r
      <4>1. Piece(1, r).id = call.id /\ Piece(1, r).answer = r
        BY DEF Piece
      <4> QED BY <3>1, <4>1, Zenon
    <3> QED
      BY <1>1, <3>2, Zenon
  <2>7. /\ Judges(call.row) /\ Succeeded(call.row, ret') => Success(r)
        /\ ~call.row.osp /\ ret' \in {1, 2, 99, 400} => ~Success(r)
    <3>1. call.row \in AllRows
      BY <1>1, Zenon DEF Typed
    <3>2. r \in IF call.row.osp THEN OspAnswers ELSE GmpAnswers
      BY Zenon DEF AnswersTo
    <3> QED
      BY <2>6, <3>1, <3>2, ValueJudges
  <2>8. call.id \in performed <=> Success(r)
    BY <2>1, SMTT(30) DEF Answering
  <2>9. Faithful'
    BY <1>1, <2>7, <2>8, ZenonT(40) DEF Faithful, Succeeded, Judges
  <2> QED
    BY <1>1, <2>5, <2>6, <2>9, Zenon DEF InStep, Untainted, ReplyIsOwn
<1> QED
  BY <1>2, <1>3, SMTT(30)

\* Waiting and Answering depend on these variables only.
LEMMA SameStream ==
  ASSUME InStep, UNCHANGED <<peer, up, pending, down, call, pc, parsed, ret, from, performed,
                             tainted>>
  PROVE  InStep'
<1>1. (Sending' <=> Sending) /\ (Waiting' <=> Waiting)
  BY Zenon DEF Sending, Waiting, Own
<1>2. ASSUME NEW r PROVE Answering(r)' <=> Answering(r)
  BY Zenon DEF Answering, Piece
<1>3. Untainted' <=> Untainted
  BY <1>1, <1>2, Zenon DEF Untainted, AnswersTo
<1>4. ReplyIsOwn' <=> ReplyIsOwn
  BY Zenon DEF ReplyIsOwn
<1>5. Faithful'
  <2>1. /\ Judges(call.row)' <=> Judges(call.row)
        /\ Succeeded(call.row, ret)' <=> Succeeded(call.row, ret)
    BY Zenon DEF Succeeded, Judges
  <2>2. Faithful
    BY Zenon DEF InStep
  <2> SUFFICES ASSUME pc = "done", ~tainted, from # 0
               PROVE  /\ Judges(call.row) /\ Succeeded(call.row, ret) => call.id \in performed
                      /\ ~call.row.osp /\ ret \in {1, 2, 99, 400} => call.id \notin performed
    BY <2>1, ZenonT(40) DEF Faithful
  <2> QED BY <2>2, Zenon DEF Faithful
<1> QED BY <1>3, <1>4, <1>5, Zenon DEF InStep

\* A text that ends with the connection is the answer to the call.
LEMMA InStepReadStringEnd ==
  ASSUME Typed, InStep, ReadStringEnd
  PROVE  InStep'
<1>1. /\ pc = "read" /\ ReadsText /\ down = <<>> /\ peer = "closed" /\ pc' = "done"
      /\ parsed' = <<>> /\ ret' = 0 /\ from' = IF parsed = <<>> THEN 0 ELSE parsed[1].id
      /\ UNCHANGED <<peer, up, pending, down, call, performed, tainted>>
  BY Zenon DEF ReadStringEnd, ReaderReturns, scanner
<1>2. up = <<>> /\ pending = <<>>
  BY <1>1 DEF InStep
<1>3. ASSUME ~tainted, from' # 0 PROVE from' = call.id
  <2>1. parsed # <<>> /\ parsed \in Seq(Pieces)
    BY <1>1, <1>3, SMTT(30) DEF Typed, TypeOK
  <2>2. PICK r \in AnswersTo(call.row) : Answering(r)
    BY <1>1, <1>3, <2>1 DEF InStep, Untainted, Waiting
  <2>3. parsed[1] = Piece(1, r)
    BY <2>1, <2>2, SMTT(30) DEF Answering
  <2> QED
    BY <1>1, <1>3, <2>3, SMTT(30) DEF Piece
<1>4. Faithful'
  BY <1>1, SMTT(30) DEF Faithful, Judges, ReadsText
<1> QED
  BY <1>1, <1>2, <1>3, <1>4 DEF InStep, Untainted, ReplyIsOwn

\* Returning to the caller leaves an empty connection empty.
LEMMA InStepReturn ==
  ASSUME InStep, Return
  PROVE  InStep'
<1>1. /\ pc = "done" /\ pc' = "idle" /\ from' = 0 /\ performed' = {}
      /\ UNCHANGED <<peer, up, pending, down, parsed, tainted>>
  BY Zenon DEF Return, reader
<1> QED
  BY <1>1, Zenon DEF InStep, Untainted, ReplyIsOwn, Faithful

\* The peer answers the request of the call, once it is complete.
LEMMA InStepPeerAnswers ==
  ASSUME Typed, InStep, NEW k, NEW r, Answers1(k, r)
  PROVE  InStep'
<1>1. /\ peer = "up" /\ pending = <<>> /\ k \in 1 .. Len(up) /\ up[k].last
      /\ r \in IF up[k].osp THEN OspAnswers ELSE GmpAnswers
      /\ up' = SubSeq(up, k + 1, Len(up)) /\ pending' = Reply(up[k].id, r)
      /\ performed' = IF Success(r) THEN performed \cup {up[k].id} ELSE performed
      /\ UNCHANGED <<peer, down, call, pc, parsed, ret, from, tainted>>
  BY SMTT(30) DEF Answers1, Complete
<1>2. up \in Seq(Requests) /\ up[k] \in Requests
  BY <1>1, SMTT(30) DEF Typed, TypeOK
<1>3. CASE tainted
  BY <1>1, <1>3, SMTT(30) DEF InStep, ReplyIsOwn, Faithful
<1>4. CASE ~tainted
  <2>1. pc \notin {"idle", "done"}
    BY <1>1, <1>4, SMTT(30) DEF InStep, Untainted
  <2>2. pc # "send"
    BY <1>1, <1>4, SMTT(30) DEF InStep, Untainted, Sending
  <2>3. pc = "read"
    BY <2>1, <2>2, SMTT(30) DEF Typed, TypeOK
  <2>4. Waiting
    BY <1>1, <1>4, <2>3, SMTT(30) DEF InStep, Untainted, Answering
  <2>5. k = Len(up) /\ Own(up[k])
    BY <1>1, <2>4, SMTT(30) DEF Waiting
  <2>6. up' = <<>>
    BY <1>1, <1>2, <2>5, SMTT(30)
  <2>7. up[k].id = call.id /\ r \in AnswersTo(call.row) /\ up[k].id \in Nat
    BY <1>1, <1>2, <2>5, ZenonT(40) DEF Own, AnswersTo, Requests
  <2>8. /\ Len(pending') = Units
        /\ \A i \in 1..Units : pending'[i] = Piece(i, r)
    <3>1. r \in GmpAnswers \cup OspAnswers
      BY <2>7, Zenon DEF AnswersTo
    <3> QED
      BY <1>1, <2>7, <3>1, ReplyType DEF Piece
  <2>9. parsed' = <<>> /\ down' = <<>> /\ performed' = IF Success(r) THEN {call.id} ELSE {}
    BY <1>1, <2>4, <2>7, Zenon DEF Waiting
  <2>10. Answering(r)'
    <3>1. Len(parsed') = 0 /\ Len(down') = 0
      BY <2>9, Zenon
    <3>2. ASSUME NEW i \in 1 .. Len(pending')
          PROVE  pending'[i] = Piece(Len(parsed') + Len(down') + i, r)
      <4>1. i \in 1..Units /\ Len(parsed') + Len(down') + i = i
        BY <2>8, <3>1, Numbers
      <4> QED
        BY <2>8, <4>1, Zenon
    <3>3. Len(parsed') + Len(down') + Len(pending') <= Units
      BY <2>8, <3>1, Numbers
    <3>4. \A i : i \notin 1 .. Len(parsed') /\ i \notin 1 .. Len(down')
      BY <3>1, SMTT(30)
    <3>5. (\A i \in 1 .. Len(pending) : pending[i] = Piece(Len(parsed) + Len(down) + i, r))'
      BY <1>1, <3>2, Zenon DEF Piece
    <3>6. (\A i \in 1 .. Len(parsed) : parsed[i] = Piece(i, r))'
      BY <3>4, Zenon
    <3>7. (\A i \in 1 .. Len(down) : down[i] = Piece(Len(parsed) + i, r))'
      BY <3>4, Zenon
    <3> QED
      BY <1>1, <2>6, <2>9, <3>3, <3>5, <3>6, <3>7, ZenonT(40) DEF Answering
  <2> QED
    BY <1>1, <2>3, <2>7, <2>10, ZenonT(40) DEF InStep, Untainted, ReplyIsOwn, Faithful, AnswersTo
<1> QED
  BY <1>3, <1>4, SMTT(30)

\* The peer sends the units of its answer in order.
LEMMA InStepPeerSends ==
  ASSUME Typed, InStep, PeerSends
  PROVE  InStep'
<1>1. /\ peer = "up" /\ pending # <<>> /\ down' = Append(down, Head(pending))
      /\ pending' = Tail(pending)
      /\ UNCHANGED <<peer, up, call, pc, parsed, ret, from, performed, tainted>>
  BY SMTT(30) DEF PeerSends, reader, outcome, scanner
<1>2. pending \in Seq(Pieces) /\ down \in Seq(Pieces) /\ parsed \in Seq(Pieces)
  BY Zenon DEF Typed, TypeOK
<1>3. CASE tainted
  BY <1>1, <1>3, SMTT(30) DEF InStep, ReplyIsOwn, Faithful
<1>4. CASE ~tainted
  <2>1. pc = "read"
    BY <1>1, <1>4, Zenon DEF InStep, Untainted, Sending, Typed, TypeOK
  <2>2. PICK r \in AnswersTo(call.row) : Answering(r)
    BY <1>1, <1>4, <2>1, SMTT(30) DEF InStep, Untainted, Waiting
  <2>3. /\ Len(down') = Len(down) + 1 /\ Len(pending') = Len(pending) - 1
        /\ Len(down) \in Nat /\ Len(pending) \in Nat /\ Len(parsed) \in Nat /\ Len(pending) > 0
        /\ \A i \in 1 .. Len(down) : down'[i] = down[i]
        /\ down'[Len(down) + 1] = pending[1]
        /\ \A i \in 1 .. Len(pending) - 1 : pending'[i] = pending[i + 1]
    BY <1>1, <1>2, SMTT(30)
  <2>4. /\ \A i \in 1 .. Len(down) : down[i] = Piece(Len(parsed) + i, r)
        /\ \A i \in 1 .. Len(pending) : pending[i] = Piece(Len(parsed) + Len(down) + i, r)
    BY <2>2, SMTT(30) DEF Answering
  <2>5. ASSUME NEW i \in 1 .. Len(down') PROVE down'[i] = Piece(Len(parsed) + i, r)
    <3>1. CASE i \in 1 .. Len(down)
      BY <2>3, <2>4, <3>1, SMTT(30)
    <3>2. CASE i = Len(down) + 1
      <4>1. pending[1] = Piece(Len(parsed) + Len(down) + 1, r)
            /\ Len(parsed) + i = Len(parsed) + Len(down) + 1
        BY <2>3, <2>4, <3>2, SMTT(30)
      <4> QED
        BY <2>3, <3>2, <4>1, SMTT(30)
    <3> QED
      BY <2>3, <3>1, <3>2, SMTT(30)
  <2>6. ASSUME NEW i \in 1 .. Len(pending')
        PROVE  pending'[i] = Piece(Len(parsed) + Len(down') + i, r)
    <3>1. /\ i \in 1 .. Len(pending) - 1 /\ i + 1 \in 1 .. Len(pending)
          /\ Len(parsed) + Len(down) + (i + 1) = Len(parsed) + Len(down') + i
      BY <2>3, SMTT(30)
    <3>2. /\ pending'[i] = pending[i + 1]
          /\ pending[i + 1] = Piece(Len(parsed) + Len(down) + (i + 1), r)
      BY <2>3, <2>4, <3>1, ZenonT(40)
    <3> QED
      BY <3>1, <3>2, SMTT(30)
  <2>7. Len(parsed) + Len(down') + Len(pending') <= Units
    BY <2>2, <2>3, Numbers, SMTT(30) DEF Answering
  <2>8. Answering(r)'
    BY <1>1, <2>2, <2>5, <2>6, <2>7, Zenon DEF Answering, Piece
  <2> QED
    BY <1>1, <2>1, <2>2, <2>8, SMTT(30) DEF InStep, Untainted, ReplyIsOwn, Faithful, AnswersTo
<1> QED
  BY <1>3, <1>4, SMTT(30)

\* A peer that leaves takes units away, from the end.
LEMMA InStepPeerLeaves ==
  ASSUME Typed, InStep, PeerLeaves
  PROVE  InStep'
<1>1. /\ up' = <<>> /\ pending' = <<>> /\ (down' = down \/ down' = <<>>)
      /\ UNCHANGED <<call, pc, parsed, ret, from, performed, tainted>>
  BY Zenon DEF PeerLeaves, reader, outcome, scanner
<1>2. ASSUME ~tainted PROVE Untainted'
  <2>1. CASE pc \in {"idle", "done"}
    BY <1>1, <1>2, <2>1, SMTT(30) DEF InStep, Untainted
  <2>2. CASE pc = "send"
    BY <1>1, <1>2, <2>2, SMTT(30) DEF InStep, Untainted, Sending
  <2>3. CASE pc = "read"
    <3>1. CASE Waiting
      <4>1. Waiting'
        BY <1>1, <3>1 DEF Waiting
      <4> QED
        BY <1>1, <2>3, <4>1, Zenon DEF Untainted
    <3>2. ASSUME NEW r \in AnswersTo(call.row), Answering(r) PROVE Untainted'
      <4>1. parsed \in Seq(Pieces) /\ down \in Seq(Pieces) /\ pending \in Seq(Pieces)
        BY Zenon DEF Typed, TypeOK
      <4>2. Len(down') <= Len(down) /\ Len(pending') = 0 /\ Len(down') \in Nat
        BY <1>1, <4>1, SMTT(30)
      <4>3. Len(parsed) + Len(down') + Len(pending') <= Units
        BY <3>2, <4>1, <4>2, Numbers, SMTT(30) DEF Answering
      <4>4. \A i \in 1 .. Len(down') : down'[i] = Piece(Len(parsed) + i, r)
        BY <1>1, <3>2, SMTT(30) DEF Answering
      <4>5. Answering(r)'
        BY <1>1, <3>2, <4>2, <4>3, <4>4 DEF Answering, Piece
      <4> QED
        BY <1>1, <2>3, <4>5, SMTT(30) DEF Untainted, AnswersTo
    <3> QED
      BY <1>2, <2>3, <3>1, <3>2, Zenon DEF InStep, Untainted
  <2> QED
    BY <2>1, <2>2, <2>3, SMTT(30) DEF Typed, TypeOK
<1> QED
  BY <1>1, <1>2, SMTT(30) DEF InStep, ReplyIsOwn, Faithful

\* Every step keeps client and peer in step.
LEMMA InStepNext == Typed /\ Disposal /\ InStep /\ [Next]_vars => InStep'
<1> SUFFICES ASSUME Typed, Disposal, InStep, [Next]_vars PROVE InStep'
  BY Zenon
<1>1. CASE UNCHANGED vars
  BY <1>1, SameStream, SMTT(30) DEF vars, reader, outcome, scanner
<1>2. CASE Next
  <2>1. TypeOK
    BY Zenon DEF Typed
  <2>2. ASSUME NEW c \in Rows, NEW t \in {0, Timeout}, NEW valid \in BOOLEAN, Begin(c, t, valid)
        PROVE  InStep'
    BY <2>2, InStepBegin, Zenon
  <2>3. ASSUME NEW n \in 1..Units, Write(n) PROVE InStep'
    BY <2>3, InStepWrite, Zenon
  <2>4. ASSUME NEW rc \in {1, -1}, SendFails(rc) PROVE InStep'
    BY <2>4, InStepSendFails, Zenon
  <2>5. ASSUME NEW n \in 1 .. Len(down), MoreStep(n) PROVE InStep'
    BY <2>5, InStepMoreStep, Zenon
  <2>6. ASSUME NEW n \in 1 .. Len(down), AnswerStep(n) PROVE InStep'
    BY <2>6, InStepAnswerStep, Zenon
  <2>7. ASSUME NEW rc \in {-1, -2, -3, -4}, FailStep(rc) PROVE InStep'
    BY <2>7, InStepFailStep
  <2>8. ASSUME NEW k \in 1 .. Len(up), NEW r, Answers1(k, r) PROVE InStep'
    BY <2>8, InStepPeerAnswers, SMTT(30)
  <2>9. CASE AgainStep
    BY <2>9, SameStream, SMTT(30) DEF AgainStep, outcome, scanner
  <2>10. CASE Tick
    BY <2>10, SameStream DEF Tick, outcome, scanner
  <2> QED
    BY <1>2, <2>1, <2>2, <2>3, <2>4, <2>5, <2>6, <2>7, <2>8, <2>9, <2>10, AnyStep, InStepOpen,
       InStepClose, InStepReadStringEnd, InStepReturn, InStepPeerSends, InStepPeerLeaves, SMTT(30)
<1> QED
  BY <1>1, <1>2

\* Client and peer stay in step on a connection on which every call has read its
\* answer, over any number of calls, chunks and retries.
THEOREM StaysInStep == Spec => []InStep
<1>1. Init => Disposal
  BY DEF Init, Disposal, TreeDisposed
<1> QED
  BY <1>1, InStepInit, InStepNext, DisposalNext, TypesHold, PTL DEF Spec

\* On a connection on which every call has read its answer, a call takes the
\* answer to its own request.
THEOREM ReplyIsOwnHolds == Spec => []ReplyIsOwn
<1>1. InStep => ReplyIsOwn
  BY DEF InStep
<1> QED
  BY <1>1, StaysInStep, PTL

\* There, success is reported for what the peer carried out only, and a refusal
\* for what it did not.
THEOREM FaithfulHolds == Spec => []Faithful
<1>1. InStep => Faithful
  BY DEF InStep
<1> QED
  BY <1>1, StaysInStep, PTL
=============================================================================
