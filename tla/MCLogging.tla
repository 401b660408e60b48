------------------------------ MODULE MCLogging -------------------------------
(***************************************************************************)
(* Two threads, a domain "a" with a group of its own, a domain "b" without *)
(* one, and messages without a domain.                                     *)
(***************************************************************************)
EXTENDS Logging

CONSTANTS t1, t2

MCThreads == {t1, t2}

MCMessages == {[domain |-> "a", level |-> 1], [domain |-> "a", level |-> 2],
               [domain |-> "b", level |-> 2], [domain |-> NULL, level |-> 3]}

Group(f, l) == [file |-> f, level |-> l]
Stars == {Group("f", NULL), Group("syslog", 1), Group(NULL, 2)}
Owns == {Group("g", NULL), Group("f", 1), Group("-", 2), Group("", NULL), Group(NULL, 2)}

MCConfigs == UNION {{[g \in {} |-> NULL]},
                    {[g \in {"*"} |-> s] : s \in Stars},
                    {[g \in {"a"} |-> o] : o \in Owns},
                    {[g \in {"*", "a"} |-> IF g = "a" THEN o ELSE s] : s \in Stars, o \in Owns}}

\* A file called "-" is made by the check of the log files.
MCDisks == {[p \in {"f", "g", "-"} |-> IF p = "f" THEN x ELSE y] :
              x \in PathStates, y \in {"ok", "denied"}}

================================================================================
