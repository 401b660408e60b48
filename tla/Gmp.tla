---------------------------------- MODULE Gmp ----------------------------------
(***************************************************************************)
(* The GMP client library, src/gmp/gmp.c.                                  *)
(*                                                                         *)
(* Every gmp_* function has the same course: check the arguments, send the *)
(* request with one or more calls of gvm_server_sendf, read one answer and *)
(* turn it into a return value.  What tells the functions apart is a       *)
(* record, a "row":                                                        *)
(*   sends      how many send calls the request takes                      *)
(*   onsend     what a send call that does not return 0 leads to:          *)
(*              "return" its value, "fail" with -1, "fail2" with -2,       *)
(*              "ignore_closed": only -1 ends the function                 *)
(*   timed      whether the caller passes a timeout for the answer         *)
(*   connection whether it takes a gvm_connection_t (TLS or UNIX) rather   *)
(*              than a TLS session                                         *)
(*   checks     whether it checks its arguments and returns -1 unsent      *)
(*   answer     how the answer is turned into the return value             *)
(*   wants      whether the caller asked for the value in the answer       *)
(* The text of a request is of no consequence to any of this and is left   *)
(* out.  The course itself is in module Session.                           *)
(***************************************************************************)
EXTENDS Integers

--------------------------------------------------------------------------------
(***************************************************************************)
(* Answers, as far as the client looks into them: the status attribute of  *)
(* the root element, its id attribute, the child element the command is    *)
(* after, and whether the status text is "Permission denied".  A status    *)
(* "huge" is a number strtol cannot represent.                             *)
(***************************************************************************)
GmpAnswer(status, id, child, denied) ==
  [status |-> status, id |-> id, child |-> child, denied |-> denied]

GmpAnswers ==
       {GmpAnswer(s, "absent", FALSE, FALSE) : s \in {"absent", "empty", "huge"}}
  \cup {GmpAnswer("200", "absent", c, FALSE) : c \in BOOLEAN}
  \cup {GmpAnswer("201", i, FALSE, FALSE) : i \in {"absent", "empty", "given"}}
  \cup {GmpAnswer("400", "absent", FALSE, d) : d \in BOOLEAN}

\* The number strtol and atoi find in a status.
Code(r) == CASE r.status = "200" -> 200
             [] r.status = "201" -> 201
             [] r.status = "400" -> 400
             [] OTHER -> -1

NoStatus(r) == r.status \in {"absent", "empty"}

\* status[0] == '2'
Success(r) == r.status \in {"200", "201"}

\* errno behind a strtol of the status: strtol sets it and never clears it.
AfterStrtol(r, errno) == IF r.status = "huge" THEN "ERANGE" ELSE errno

--------------------------------------------------------------------------------
(***************************************************************************)
(* From an answer to a return value.  errno is examined without having     *)
(* been cleared before strtol, so the value it had before counts.          *)
(***************************************************************************)
Mutant_gmp_check_response(r, errno) ==
  IF NoStatus(r) \/ Success(r) THEN 0
  ELSE IF AfterStrtol(r, errno) = "ERANGE" THEN -1
  ELSE Code(r)

gmp_check_response(r, errno) ==
  IF NoStatus(r) THEN -1
  ELSE IF Success(r) THEN 0
  ELSE IF AfterStrtol(r, errno) = "ERANGE" THEN -1
  ELSE Code(r)

check_response_c(r, errno, convert_99) ==
  LET ret == gmp_check_response(r, errno)
  IN IF ret > 0 /\ convert_99 /\ r.denied THEN 99 ELSE ret

gmp_read_create_response(r, wants) ==
  IF NoStatus(r) \/ (wants /\ r.id # "given") THEN -1 ELSE Code(r)

\* The ending of every create function: only 201 is success.
CreateResult(r, wants) ==
  LET ret == gmp_read_create_response(r, wants) IN IF ret = 201 THEN 0 ELSE ret

PingResult(r, wants) ==
  IF Success(r) /\ (wants => r.child) THEN 0 ELSE -1

AuthenticateResult(r, errno) ==
  LET ret == gmp_check_response(r, errno) IN IF ret \in {0, -1} THEN ret ELSE 2

AuthenticateInfoResult(r) ==
  IF NoStatus(r) THEN -1 ELSE IF Success(r) THEN 0 ELSE 2

\* gmp_start_task_report and gmp_resume_task_report on a TLS session.
TaskReportResult(r, errno, wants) ==
  LET ret == gmp_check_response(r, errno)
  IN IF ret = 0 THEN (IF wants /\ ~r.child THEN -1 ELSE 0)
     ELSE IF ret = -1 THEN -1 ELSE 1

\* The same on a connection: the status is not converted, errno is not read.
TaskReportResultC(r, wants) ==
  IF NoStatus(r) THEN -1
  ELSE IF Success(r) THEN (IF wants /\ ~r.child THEN -1 ELSE 0)
  ELSE 1

--------------------------------------------------------------------------------
(***************************************************************************)
(* The functions.                                                          *)
(***************************************************************************)
GmpRow == [osp |-> FALSE, sends |-> 1, onsend |-> "fail", timed |-> FALSE,
           connection |-> FALSE, checks |-> FALSE, answer |-> "check",
           wants |-> FALSE, asked |-> FALSE, pops |-> FALSE]

gmp_ping == [GmpRow EXCEPT !.onsend = "return", !.timed = TRUE,
                           !.answer = "ping"]
gmp_ping_c(wants) == [gmp_ping EXCEPT !.connection = TRUE, !.wants = wants]

gmp_authenticate == [GmpRow EXCEPT !.onsend = "return", !.answer = "authenticate"]
gmp_authenticate_info_ext ==
  [GmpRow EXCEPT !.onsend = "return", !.timed = TRUE, !.answer = "info"]
gmp_authenticate_info_ext_c ==
  [GmpRow EXCEPT !.onsend = "return", !.timed = TRUE, !.answer = "info",
                 !.connection = TRUE]

gmp_create_task_ext(wants) ==
  [GmpRow EXCEPT !.checks = TRUE, !.answer = "create", !.wants = wants]
gmp_create_task(wants) == [GmpRow EXCEPT !.answer = "create", !.wants = wants]

gmp_start_task_report(wants) ==
  [GmpRow EXCEPT !.onsend = "ignore_closed", !.answer = "report", !.wants = wants]
gmp_start_task_report_c(wants) ==
  [GmpRow EXCEPT !.onsend = "ignore_closed", !.answer = "report_c",
                 !.wants = wants, !.connection = TRUE]
gmp_start_task_ext_c ==
  [GmpRow EXCEPT !.checks = TRUE, !.answer = "check_99", !.connection = TRUE]
gmp_stop_task == [GmpRow EXCEPT !.onsend = "ignore_closed"]
gmp_stop_task_c ==
  [GmpRow EXCEPT !.onsend = "ignore_closed", !.answer = "check_c",
                 !.connection = TRUE]
gmp_resume_task_report(wants) ==
  [GmpRow EXCEPT !.onsend = "ignore_closed", !.answer = "report", !.wants = wants]
gmp_resume_task_report_c(wants) ==
  [GmpRow EXCEPT !.onsend = "ignore_closed", !.answer = "report_c",
                 !.wants = wants, !.connection = TRUE]
gmp_delete_task_ext == [GmpRow EXCEPT !.onsend = "ignore_closed"]

\* The functions that give the answer itself to the caller.
gmp_get_tasks == [GmpRow EXCEPT !.onsend = "ignore_closed", !.answer = "give"]
gmp_get_task_ext == [GmpRow EXCEPT !.checks = TRUE, !.answer = "give"]
gmp_get_tasks_ext ==
  [GmpRow EXCEPT !.checks = TRUE, !.timed = TRUE, !.answer = "give"]

\* A file that is removed takes three sends, an empty one four, others five.
gmp_modify_task_file(content) ==
  [GmpRow EXCEPT !.checks = TRUE,
                 !.sends = CASE content = "NULL" -> 3
                             [] content = "empty" -> 4
                             [] OTHER -> 5]

gmp_delete_task == [GmpRow EXCEPT !.onsend = "ignore_closed"]
gmp_get_targets == [GmpRow EXCEPT !.onsend = "ignore_closed", !.answer = "give"]
gmp_get_report_ext ==
  [GmpRow EXCEPT !.checks = TRUE, !.timed = TRUE, !.answer = "give"]
gmp_delete_port_list_ext == [GmpRow EXCEPT !.onsend = "ignore_closed"]
gmp_delete_report == GmpRow
gmp_create_target_ext(wants) ==
  [GmpRow EXCEPT !.checks = TRUE, !.onsend = "fail2", !.answer = "create",
                 !.wants = wants]
gmp_delete_target_ext == [GmpRow EXCEPT !.onsend = "ignore_closed"]
gmp_delete_config_ext == [GmpRow EXCEPT !.onsend = "ignore_closed"]
gmp_create_lsc_credential(wants) ==
  [GmpRow EXCEPT !.answer = "create", !.wants = wants]
gmp_create_lsc_credential_key(wants) ==
  [GmpRow EXCEPT !.answer = "create", !.wants = wants]
gmp_create_lsc_credential_ext(wants) ==
  [GmpRow EXCEPT !.checks = TRUE, !.answer = "create", !.wants = wants]
gmp_delete_lsc_credential_ext == [GmpRow EXCEPT !.onsend = "ignore_closed"]
gmp_get_system_reports ==
  [GmpRow EXCEPT !.onsend = "ignore_closed", !.answer = "give"]
gmp_get_system_reports_ext ==
  [GmpRow EXCEPT !.onsend = "ignore_closed", !.answer = "give"]

GmpRows ==
       {gmp_ping, gmp_authenticate, gmp_authenticate_info_ext,
        gmp_authenticate_info_ext_c, gmp_start_task_ext_c, gmp_stop_task,
        gmp_stop_task_c, gmp_delete_task_ext, gmp_get_tasks, gmp_get_task_ext,
        gmp_get_tasks_ext, gmp_delete_task, gmp_get_targets, gmp_get_report_ext,
        gmp_delete_port_list_ext, gmp_delete_report, gmp_delete_target_ext,
        gmp_delete_config_ext, gmp_delete_lsc_credential_ext,
        gmp_get_system_reports, gmp_get_system_reports_ext}
  \cup {gmp_modify_task_file(c) : c \in {"NULL", "empty", "given"}}
  \cup UNION {{gmp_ping_c(w), gmp_create_task_ext(w), gmp_create_task(w),
               gmp_start_task_report(w), gmp_start_task_report_c(w),
               gmp_resume_task_report(w), gmp_resume_task_report_c(w),
               gmp_create_target_ext(w), gmp_create_lsc_credential(w),
               gmp_create_lsc_credential_key(w),
               gmp_create_lsc_credential_ext(w)} : w \in BOOLEAN}

--------------------------------------------------------------------------------
(***************************************************************************)
(* What function c returns for answer r, and what becomes of the parsed    *)
(* answer: "freed", or "given" to the caller.                              *)
(***************************************************************************)
GmpReturn(c, r, errno) ==
  CASE c.answer \in {"check", "check_c", "give"} -> gmp_check_response(r, errno)
    [] c.answer = "check_99" -> check_response_c(r, errno, TRUE)
    [] c.answer = "ping" -> PingResult(r, c.wants)
    [] c.answer = "authenticate" -> AuthenticateResult(r, errno)
    [] c.answer = "info" -> AuthenticateInfoResult(r)
    [] c.answer = "create" -> CreateResult(r, c.wants)
    [] c.answer = "report" -> TaskReportResult(r, errno, c.wants)
    [] c.answer = "report_c" -> TaskReportResultC(r, c.wants)

\* errno behind the call: atoi of a create function is reached with an id only.
GmpErrno(c, r, errno) ==
  IF \/ NoStatus(r)
     \/ c.answer \in {"ping", "info", "report_c"}
     \/ c.answer = "create" /\ c.wants /\ r.id # "given"
    THEN errno
    ELSE AfterStrtol(r, errno)
================================================================================
