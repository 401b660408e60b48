-------------------------------- MODULE Session --------------------------------
(***************************************************************************)
(* A client's connection to a manager (GMP) or a scanner (OSP): how it is  *)
(* opened and closed, how requests are sent (src/util/serverutils.c), how  *)
(* answers are read in pieces with or without a timeout                    *)
(* (src/util/xmlutils.c), and what the functions of modules Gmp and Osp    *)
(* make of them.                                                           *)
(*                                                                         *)
(* The stream in each direction is a sequence of units.  A send call       *)
(* writes Units units, in as many writes as it takes; an answer is Units   *)
(* units long, and a read takes any number of the units that have arrived. *)
(***************************************************************************)
EXTENDS Osp, Sequences

CONSTANTS
  Rows,        \* the functions the client calls, a subset of AllRows
  Answers,     \* the answers of a manager, a subset of GmpAnswers
  Links,       \* the transports, a subset of {"tls", "unix"}
  Units,       \* units of a send call and of an answer
  Timeout,     \* the timeout, in seconds, of a call that has one
  Retries,     \* how often a TLS read without timeout is tried again (10)
  MaxCalls,    \* bound: calls on a connection
  MaxOpens,    \* bound: attempts to open a connection
  Faults       \* which failures of the environment happen

AllRows == GmpRows \cup OspRows

ASSUME SessionAssumption ==
  /\ Rows \subseteq AllRows
  /\ Answers \subseteq GmpAnswers
  /\ Links \subseteq {"tls", "unix"}
  /\ {Units, Timeout, MaxCalls, MaxOpens} \subseteq Nat \ {0}
  /\ Retries \in Nat
  /\ Faults \subseteq {"open", "close", "reset", "again", "shutdown"}

VARIABLES
  link,      \* transport of the open connection, "none" without one
  fd,        \* the descriptor: "none", "open" or "closed"
  blocking,  \* whether O_NONBLOCK is clear
  tls,       \* the GnuTLS session: "none", "live" or "freed"
  opens,     \* number of attempts to open
  enotconn,  \* close_unix was told the socket is not connected
  peer,      \* the other end: "up", "closed" or "reset"
  up,        \* units on their way to the peer
  pending,   \* units of an answer the peer has yet to send
  down,      \* units on their way to the client
  call,      \* the function that runs: its row, number and timeout
  pc,        \* "idle", "send", "read" or "done"
  left,      \* send: units of the current send call not yet written
  parsed,    \* read: units of the answer parsed so far
  idle,      \* read: seconds since the last unit arrived
  retries,   \* read: tries that are left
  ret,       \* done: the return value
  from,      \* done: the call whose answer was read, 0 if none was
  tree,      \* the parsed answer: "none", "building", "freed", "given", "lost"
  errno,     \* "ERANGE" or "other"
  performed, \* peer: numbers of the calls it has carried out, forgotten when
             \* a call returns
  popped,    \* scanner: results were removed
  asked,     \* a caller has asked to pop the results
  tainted    \* a call on this connection ended before its answer was read

transport == <<link, fd, blocking, tls, opens, enotconn>>
reader == <<parsed, idle, retries>>
scanner == <<performed, popped>>
outcome == <<ret, from, tree>>
vars == <<transport, peer, up, pending, down, call, pc, left, reader, outcome,
          errno, scanner, asked, tainted>>

\* What the entries of a row can be.
GmpKinds == {"check", "check_c", "check_99", "give", "ping", "authenticate", "info",
             "create", "report", "report_c"}
OspKinds == {"feed", "element", "raw", "text", "delete", "performance", "scan", "command"}
RowsOf(osp, kinds) ==
  [osp : osp, sends : 1..5, onsend : {"return", "fail", "fail2", "ignore_closed"},
   timed : BOOLEAN, connection : BOOLEAN, checks : BOOLEAN, answer : kinds,
   wants : BOOLEAN, asked : BOOLEAN, pops : BOOLEAN]

NoCall == [row |-> GmpRow, id |-> 0, timeout |-> 0, sends |-> 0]

Init ==
  /\ link = "none" /\ fd = "none" /\ blocking = TRUE /\ tls = "none"
  /\ opens = 0 /\ enotconn = FALSE
  /\ peer = "closed" /\ up = <<>> /\ pending = <<>> /\ down = <<>>
  /\ call = NoCall /\ pc = "idle" /\ left = 0
  /\ parsed = <<>> /\ idle = 0 /\ retries = Retries
  /\ ret = 0 /\ from = 0 /\ tree = "none" /\ errno = "other"
  /\ performed = {} /\ popped = FALSE /\ asked = FALSE /\ tainted = FALSE

--------------------------------------------------------------------------------
(***************************************************************************)
(* Opening.  A stage is where gvm_server_open_verify fails, "ok" if it     *)
(* does not.                                                               *)
(***************************************************************************)
\* The ways in which each function fails.
server_new_gnutls_init == {"init"}
server_new_gnutls_set == {"set"}
gvm_server_new_mem ==
  server_new_gnutls_init \cup {"key", "trust"} \cup server_new_gnutls_set
server_attach_internal == {"handshake"}
gvm_server_verify == {"verify"}
OpenStages ==
  {"args"} \cup gvm_server_new_mem \cup {"resolve", "socket", "connect"}
  \cup server_attach_internal \cup gvm_server_verify \cup {"ok"}

\* The session behind a failure: gnutls_deinit is called on every path but the
\* one on which the peer's certificate is not accepted.
SessionAfter(stage) ==
  IF stage \in {"args"} \cup gvm_server_new_mem THEN "none"
  ELSE IF stage \in {"verify", "ok"} THEN "live" ELSE "freed"

\* The socket behind a failure: there is none before socket(), and every later
\* path closes it (a failed handshake does so twice).
Mutant_SocketAfter(stage) ==
  IF stage \in {"verify", "ok"} THEN "open"
  ELSE IF stage \in {"connect", "handshake"} THEN "closed" ELSE "none"

SocketAfter(stage) ==
  IF stage = "ok" THEN "open"
  ELSE IF stage \in {"connect", "handshake", "verify"} THEN "closed" ELSE "none"

Connected(l) ==
  /\ link' = l /\ peer' = "up" /\ blocking' = TRUE
  /\ up' = <<>> /\ pending' = <<>> /\ down' = <<>>
  /\ call' = NoCall /\ performed' = {} /\ tainted' = FALSE /\ enotconn' = FALSE

NotConnected ==
  UNCHANGED <<link, peer, blocking, up, pending, down, call, performed, tainted,
              enotconn>>

gvm_server_open_verify(stage) ==
  /\ tls' = SessionAfter(stage)
  /\ fd' = SocketAfter(stage)
  /\ IF stage = "ok" THEN Connected("tls") ELSE NotConnected

\* The UNIX branch of osp_connection_new.
OpenUnix(stage) ==
  /\ UNCHANGED tls
  /\ fd' = CASE stage = "ok" -> "open"
             [] stage = "connect" -> "closed"
             [] OTHER -> "none"
  /\ IF stage = "ok" THEN Connected("unix") ELSE NotConnected

osp_connection_new ==
  /\ link = "none" /\ opens < MaxOpens
  /\ opens' = opens + 1
  /\ \E stage \in IF "open" \in Faults THEN OpenStages ELSE {"ok"} :
       \/ "tls" \in Links /\ gvm_server_open_verify(stage)
       \/ /\ "unix" \in Links /\ stage \in {"args", "socket", "connect", "ok"}
          /\ OpenUnix(stage)
  /\ UNCHANGED <<pc, left, reader, outcome, errno, popped, asked>>

--------------------------------------------------------------------------------
(***************************************************************************)
(* Closing, by a caller between two calls.                                 *)
(***************************************************************************)
Disconnected ==
  /\ link' = "none" /\ peer' = "closed" /\ blocking' = TRUE
  /\ up' = <<>> /\ pending' = <<>> /\ down' = <<>>
  /\ performed' = {} /\ tainted' = FALSE /\ call' = NoCall

\* gvm_server_free, also as gvm_server_close: says goodbye, whatever comes of
\* it, and releases the session and the socket.
gvm_server_free ==
  /\ link = "tls"
  /\ tls' = "freed" /\ fd' = "closed" /\ enotconn' = FALSE

\* close_unix gives up on a socket that is not connected without closing it.
close_unix ==
  /\ link = "unix"
  /\ \/ fd' = "closed" /\ enotconn' = FALSE
     \/ /\ "shutdown" \in Faults /\ peer # "up"
        /\ enotconn' = TRUE /\ UNCHANGED fd
  /\ UNCHANGED tls

osp_connection_close ==
  \/ gvm_server_free
  \/ link = "unix" /\ fd' = "closed" /\ enotconn' = FALSE /\ UNCHANGED tls

Close ==
  /\ pc = "idle" /\ link # "none"
  /\ osp_connection_close \/ close_unix
  /\ Disconnected
  /\ UNCHANGED <<opens, pc, left, reader, outcome, errno, popped, asked>>

--------------------------------------------------------------------------------
(***************************************************************************)
(* Calling a function of the library.                                      *)
(***************************************************************************)
\* The timeout that reaches the reader: try_read_entity_c passes 0 for a TLS
\* connection.
EffectiveTimeout(c, timeout) ==
  IF c.connection /\ link = "tls" THEN 0 ELSE timeout

Begin(c, timeout, valid) ==
  /\ pc = "idle" /\ link # "none" /\ call.id < MaxCalls
  /\ c.connection \/ link = "tls"
  /\ call.id > 0 => c.osp = call.row.osp
  /\ timeout > 0 => c.timed
  /\ ~valid => c.checks
  /\ call' = [row |-> c, id |-> call.id + 1, timeout |-> timeout,
              sends |-> c.sends]
  /\ asked' = (asked \/ (valid /\ c.asked))
  /\ IF valid
       THEN pc' = "send" /\ left' = Units /\ UNCHANGED ret
       ELSE /\ pc' = "done" /\ ret' = IF c.osp THEN OspFailure(c) ELSE -1
            /\ UNCHANGED left
  /\ UNCHANGED <<transport, peer, up, pending, down, reader, from, tree, errno,
                 scanner, tainted>>

EnterRead ==
  /\ pc' = "read" /\ parsed' = <<>> /\ idle' = 0 /\ retries' = Retries
  /\ blocking' = (EffectiveTimeout(call.row, call.timeout) = 0)

\* One write of gvm_server_vsendf_internal or unix_vsendf_internal: n of the
\* units that are left.  A peer that has closed may not have been noticed yet;
\* what is written to it is lost.
Write(n) ==
  LET more == call.sends > 1
      last == n = left /\ ~more
      unit(k) == [id |-> call.id, last |-> last /\ k = n, osp |-> call.row.osp,
                  pops |-> call.row.pops]
  IN
  /\ pc = "send" /\ n \in 1..left
  /\ up' = IF peer = "up" THEN up \o [k \in 1..n |-> unit(k)] ELSE up
  /\ IF n < left
       THEN left' = left - n /\ UNCHANGED <<call, pc, reader, blocking>>
     ELSE IF more
       THEN /\ left' = Units /\ call' = [call EXCEPT !.sends = @ - 1]
            /\ UNCHANGED <<pc, reader, blocking>>
     ELSE left' = 0 /\ UNCHANGED call /\ EnterRead
  /\ UNCHANGED <<link, fd, tls, opens, enotconn, peer, pending, down, outcome,
                 errno, scanner, asked, tainted>>

\* A write fails: the send function returns 1 if the TLS peer closed the
\* connection, else -1, and the caller acts on it as its row says.
SendFails(rc) ==
  /\ pc = "send" /\ peer # "up"
  /\ rc = 1 => link = "tls"
  /\ left' = 0
  /\ IF rc = 1 /\ call.row.onsend = "ignore_closed"
       THEN EnterRead /\ UNCHANGED <<ret, tainted>>
       ELSE /\ pc' = "done" /\ tainted' = TRUE
            /\ ret' = CASE call.row.osp -> OspFailure(call.row)
                        [] ~call.row.osp /\ call.row.onsend = "return" -> rc
                        [] ~call.row.osp /\ call.row.onsend = "fail2" -> -2
                        [] OTHER -> -1
            /\ UNCHANGED <<reader, blocking>>
  /\ UNCHANGED <<link, fd, tls, opens, enotconn, peer, up, pending, down, call,
                 from, tree, errno, scanner, asked>>

--------------------------------------------------------------------------------
(***************************************************************************)
(* Reading the answer: try_read_entity_and_string and                      *)
(* try_read_entity_and_string_s, and for the text functions                *)
(* try_read_string and try_read_string_s.                                  *)
(***************************************************************************)
Timed == EffectiveTimeout(call.row, call.timeout) > 0
ReadsText == call.row.answer = "text"

\* What the function returns when the reader returns rc: 0 success, -1 read
\* error, -2 parse error, -3 end of file, -4 timeout.
ReadFailure(c, rc) ==
  CASE c.osp -> OspFailure(c)
    [] ~c.osp /\ rc = -4 -> IF c.answer = "info" THEN 3 ELSE 2
    [] OTHER -> -1

\* Every way out of the reader makes the socket blocking again.
Mutant_ReaderReturns ==
  /\ pc' = "done" /\ UNCHANGED blocking
  /\ parsed' = <<>> /\ idle' = 0 /\ retries' = Retries

ReaderReturns ==
  /\ pc' = "done" /\ blocking' = TRUE
  /\ parsed' = <<>> /\ idle' = 0 /\ retries' = Retries

\* A way out with an error frees what was parsed, except on a timeout.
ReadFails(rc) ==
  /\ ReaderReturns
  /\ ret' = ReadFailure(call.row, rc)
  /\ tree' = CASE parsed = <<>> \/ ReadsText -> "none"
               [] rc = -4 /\ parsed # <<>> /\ ~ReadsText -> "lost"
               [] OTHER -> "freed"
  /\ tainted' = TRUE
  /\ UNCHANGED <<from, errno>>

\* What the calling function does with the answer.
Mutant_Answered(unit) ==
  LET c == call.row
      r == unit.answer
      value == IF c.osp THEN OspReturn(c, r) ELSE GmpReturn(c, r, errno)
  IN
  /\ ReaderReturns
  /\ ret' = value
  /\ from' = unit.id
  /\ tree' = IF c.answer \in {"give", "raw"} THEN "given" ELSE "freed"
  /\ errno' = IF c.osp THEN errno ELSE GmpErrno(c, r, errno)
  /\ UNCHANGED tainted

Answered(unit) ==
  LET c == call.row
      r == unit.answer
      value == IF c.osp THEN OspReturn(c, r) ELSE GmpReturn(c, r, errno)
  IN
  /\ ReaderReturns
  /\ ret' = value
  /\ from' = unit.id
  /\ tree' = IF c.answer \in {"give", "raw"} /\ value = 0 THEN "given" ELSE "freed"
  /\ errno' = IF c.osp THEN errno ELSE GmpErrno(c, r, errno)
  /\ UNCHANGED tainted

\* The units parsed and those of the chunk: an answer starts with its first
\* unit; once it is complete, what the chunk holds behind it must be complete
\* answers too, and is dropped.
Mutant_Parse(doc) == IF Len(doc) < Units - 1 THEN "more" ELSE "done"

Parse(doc) ==
  CASE doc[1].k # 1 -> "error"
    [] doc[1].k = 1 /\ Len(doc) < Units -> "more"
    [] doc[1].k = 1 /\ Len(doc) >= Units ->
         IF Len(doc) % Units = 0 THEN "done" ELSE "error"

\* A read returns n of the units that have arrived.
Read(n) ==
  LET doc == parsed \o SubSeq(down, 1, n) IN
  /\ pc = "read" /\ ~ReadsText /\ n \in 1..Len(down)
  /\ down' = SubSeq(down, n + 1, Len(down))
  /\ IF Parse(doc) = "more"
       THEN /\ parsed' = doc /\ idle' = 0 /\ retries' = Retries
            /\ tree' = "building"
            /\ UNCHANGED <<pc, blocking, ret, from, errno, tainted>>
     ELSE IF Parse(doc) = "error" THEN ReadFails(-2)
     ELSE Answered(doc[1])
  /\ UNCHANGED <<link, fd, tls, opens, enotconn, peer, up, pending, call, left,
                 scanner, asked>>

\* The socket has nothing to read and the time is up.
Mutant_ReadTimesOut ==
  /\ pc = "read" /\ Timed /\ down = <<>> /\ peer = "up"
  /\ idle > Timeout
  /\ ReadFails(-4)
  /\ UNCHANGED <<link, fd, tls, opens, enotconn, peer, up, pending, down, call,
                 left, scanner, asked>>

ReadTimesOut ==
  /\ pc = "read" /\ Timed /\ down = <<>> /\ peer = "up"
  /\ idle >= Timeout
  /\ ReadFails(-4)
  /\ UNCHANGED <<link, fd, tls, opens, enotconn, peer, up, pending, down, call,
                 left, scanner, asked>>

ReadAgain ==
  /\ "again" \in Faults
  /\ pc = "read" /\ ~Timed /\ link = "tls" /\ down = <<>> /\ peer = "up"
  /\ IF retries > 0
       THEN /\ retries' = retries - 1
            /\ UNCHANGED <<blocking, pc, parsed, idle, outcome, errno, tainted>>
       ELSE ReadFails(-1)
  /\ UNCHANGED <<link, fd, tls, opens, enotconn, peer, up, pending, down, call,
                 left, scanner, asked>>

\* The peer has closed the connection before the answer was complete.
Mutant_ReadEndOfFile ==
  /\ pc = "read" /\ ~ReadsText /\ Timed /\ down = <<>> /\ peer = "closed"
  /\ ReadFails(-3)
  /\ UNCHANGED <<link, fd, tls, opens, enotconn, peer, up, pending, down, call,
                 left, scanner, asked>>

ReadEndOfFile ==
  /\ pc = "read" /\ ~ReadsText /\ down = <<>> /\ peer = "closed"
  /\ ReadFails(-3)
  /\ UNCHANGED <<link, fd, tls, opens, enotconn, peer, up, pending, down, call,
                 left, scanner, asked>>

\* try_read_string and try_read_string_s do not look at what they read and go on
\* until the peer closes the connection.
ReadString(n) ==
  /\ pc = "read" /\ ReadsText /\ n \in 1..Len(down)
  /\ down' = SubSeq(down, n + 1, Len(down))
  /\ parsed' = parsed \o SubSeq(down, 1, n) /\ idle' = 0 /\ retries' = Retries
  /\ UNCHANGED <<link, fd, blocking, tls, opens, enotconn, peer, up, pending,
                 call, pc, left, outcome, errno, scanner, asked, tainted>>

ReadStringEnd ==
  /\ pc = "read" /\ ReadsText /\ down = <<>> /\ peer = "closed"
  /\ ReaderReturns /\ ret' = 0 /\ tree' = "none"
  /\ from' = IF parsed = <<>> THEN 0 ELSE parsed[1].id
  /\ UNCHANGED <<link, fd, tls, opens, enotconn, peer, up, pending, down, call,
                 left, errno, scanner, asked, tainted>>

\* The read fails.  The reader of UNIX sockets tries again for ever when it
\* has a timeout: only EAGAIN makes it look at the clock.
ReadError ==
  /\ pc = "read" /\ down = <<>> /\ peer = "reset"
  /\ link = "tls" \/ ~Timed
  /\ ReadFails(-1)
  /\ UNCHANGED <<link, fd, tls, opens, enotconn, peer, up, pending, down, call,
                 left, scanner, asked>>

Return ==
  /\ pc = "done"
  /\ pc' = "idle" /\ ret' = 0 /\ from' = 0 /\ tree' = "none"
  /\ call' = [NoCall EXCEPT !.id = call.id, !.row.osp = call.row.osp]
  /\ left' = 0 /\ performed' = {}
  /\ UNCHANGED <<transport, peer, up, pending, down, reader, errno, popped, asked,
                 tainted>>

Tick ==
  /\ pc = "read" /\ Timed /\ idle < Timeout
  /\ idle' = idle + 1
  /\ UNCHANGED <<transport, peer, up, pending, down, call, pc, left, parsed,
                 retries, outcome, errno, scanner, asked, tainted>>

--------------------------------------------------------------------------------
(***************************************************************************)
(* The peer, a manager or a scanner: takes requests in order, carries out  *)
(* those it accepts, answers, and may close or drop the connection.        *)
(***************************************************************************)
Complete(k) == up[k].last /\ \A j \in 1..k - 1 : ~up[j].last

PeerAnswers ==
  /\ peer = "up" /\ pending = <<>>
  /\ \E k \in 1..Len(up) : Complete(k) /\
       LET u == up[k] IN
       \E r \in IF u.osp THEN OspAnswers ELSE Answers :
         /\ up' = SubSeq(up, k + 1, Len(up))
         /\ pending' = [i \in 1..Units |-> [id |-> u.id, k |-> i, answer |-> r]]
         /\ performed' = IF Success(r) THEN performed \cup {u.id} ELSE performed
         /\ popped' = (popped \/ (u.pops /\ Success(r)))
  /\ UNCHANGED <<transport, peer, down, call, pc, left, reader, outcome, errno,
                 asked, tainted>>

PeerSends ==
  /\ peer = "up" /\ pending # <<>>
  /\ down' = Append(down, Head(pending))
  /\ pending' = Tail(pending)
  /\ UNCHANGED <<transport, peer, up, call, pc, left, reader, outcome, errno,
                 scanner, asked, tainted>>

PeerLeaves ==
  /\ peer = "up"
  /\ \/ "close" \in Faults /\ peer' = "closed" /\ UNCHANGED down
     \/ "reset" \in Faults /\ peer' = "reset" /\ down' = <<>>
  /\ up' = <<>> /\ pending' = <<>>
  /\ UNCHANGED <<transport, call, pc, left, reader, outcome, errno, scanner,
                 asked, tainted>>

--------------------------------------------------------------------------------
Client ==
  \/ \E n \in 1..Units : Write(n)
  \/ \E rc \in {1, -1} : SendFails(rc)
  \/ \E n \in 1..Len(down) : Read(n) \/ ReadString(n)
  \/ ReadTimesOut
  \/ ReadEndOfFile \/ ReadStringEnd
  \/ ReadError
  \/ Return

Peer == PeerAnswers \/ PeerSends

Next ==
  \/ osp_connection_new
  \/ Close
  \/ \E c \in Rows, t \in {0, Timeout}, valid \in BOOLEAN : Begin(c, t, valid)
  \/ Client
  \/ ReadAgain
  \/ Tick
  \/ Peer
  \/ PeerLeaves

Spec == Init /\ [][Next]_vars

\* A call that can go on does, and time passes.
FairSpec == Spec /\ WF_vars(Client) /\ WF_vars(Tick)

--------------------------------------------------------------------------------
(***************************************************************************)
(* Properties.                                                             *)
(***************************************************************************)
\* A call, a unit of a request, and one of an answer.
Calls == [row : RowsOf(BOOLEAN, GmpKinds \cup OspKinds), id : Nat, timeout : Nat,
          sends : Nat]
Requests == [id : Nat, last : BOOLEAN, osp : BOOLEAN, pops : BOOLEAN]
Pieces == [id : Nat, k : 1..Units, answer : GmpAnswers \cup OspAnswers]

\* Type invariant: what each variable can hold.
TypeOK ==
  /\ link \in {"none", "tls", "unix"}
  /\ fd \in {"none", "open", "closed"}
  /\ blocking \in BOOLEAN
  /\ tls \in {"none", "live", "freed"}
  /\ opens \in Nat
  /\ enotconn \in BOOLEAN
  /\ peer \in {"up", "closed", "reset"}
  /\ up \in Seq(Requests)
  /\ pending \in Seq(Pieces)
  /\ down \in Seq(Pieces)
  /\ call \in Calls
  /\ pc \in {"idle", "send", "read", "done"}
  /\ left \in 0..Units
  /\ parsed \in Seq(Pieces)
  /\ idle \in 0..Timeout
  /\ retries \in 0..Retries
  /\ ret \in Int
  /\ from \in Nat
  /\ tree \in {"none", "building", "freed", "given", "lost"}
  /\ errno \in {"ERANGE", "other"}
  /\ performed \subseteq Nat
  /\ popped \in BOOLEAN
  /\ asked \in BOOLEAN
  /\ tainted \in BOOLEAN

\* As long as no call on the connection ended before its answer was read, a
\* call takes the answer to its own request: sending, the chunks of the reader
\* and the answers stay in step over any number of calls.
ReplyIsOwn == pc = "done" /\ ~tainted /\ from # 0 => from = call.id

Succeeded(c, value) == IF c.answer = "scan" THEN value >= 0 ELSE value = 0

\* The functions that look at the answer before they report success.
Judges(c) == c.answer \notin {"raw", "text"} /\ (c.answer = "element" => c.wants)

\* A function reports success only if the peer carried out its request, and
\* reports a refusal (1, 2, 99 or the response code) only if it did not.
Faithful ==
  pc = "done" /\ ~tainted /\ from # 0 =>
    /\ Judges(call.row) /\ Succeeded(call.row, ret) => call.id \in performed
    /\ ~call.row.osp /\ ret \in {1, 2, 99, 400} => call.id \notin performed

\* A reader that made the socket non-blocking for its timeout makes it blocking
\* again on every way out, so that later calls find the mode they rely on.
BlockingRestored == link # "none" /\ pc # "read" => blocking

\* What a call parsed is freed or, on success, given to its caller; only a
\* timeout in the middle of an answer loses it.
TreeDisposed ==
  pc = "done" => \/ tree \in {"none", "freed"}
                 \/ tree = "given" /\ ret = 0
                 \/ tree = "lost" /\ Timed

\* No way of failing to open a connection and no way of closing one leaves the
\* socket open, except that close_unix does not close a socket that is no
\* longer connected.
SocketReleased ==
  /\ link = "none" /\ fd = "open" => enotconn
  /\ link # "none" => fd = "open"

\* A call whose timeout reaches the reader returns, however long the peer is
\* silent, as long as the connection is not reset.
TimedCallReturns ==
  (pc = "read" /\ Timed /\ peer # "reset") ~> (pc # "read" \/ peer = "reset")

\* Every call returns if the peer keeps answering, or leaves; reads with a
\* timeout from a connection that was reset are excepted.
CallsReturn ==
  WF_vars(Peer) =>
    ((pc # "idle") ~> \/ pc = "idle"
                      \/ ReadsText
                      \/ peer = "reset" /\ link = "unix" /\ Timed)

\* The documentation of osp_get_scan_pop: "pop_results 0 to leave results, 1 to
\* pop results from scanner" (src/osp/osp.c:885).  Results leave the scanner
\* only if a caller asked for it.
PopOnlyWhenAsked == popped => asked

\* The documentation of try_read_entity_c and of the functions that call it:
\* "Server idle time before giving up, in seconds.  0 to wait forever"
\* (src/util/xmlutils.c:1445).  A call with a timeout returns.
TimeoutIsHonoured == (pc = "read" /\ call.timeout > 0) ~> (pc # "read")
================================================================================
