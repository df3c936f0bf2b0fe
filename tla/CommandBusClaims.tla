--------------------------- MODULE CommandBusClaims ---------------------------
(***************************************************************************)
(* What the comments and design documents of the repository say about      *)
(* commands, and the code does not guarantee.  Each is checked by a run    *)
(* that ends in a counterexample.                                          *)
(***************************************************************************)
EXTENDS CommandBus

\* daemon_common.py:410-413: if the row completes between the GET and the
\* PATCH, "the PATCH is rejected by the server's transition validator", so
\* no terminal status is ever overwritten.  The validator reads and writes
\* without a lock: the row may become terminal after it was read.
TerminalIsFinal ==
    [][\A c \in Cmd : row[c] \in Terminal => row'[c] = row[c]]_vars

\* daemon_common.py:261-263, 288-290: a test that printed neither SUCCESS:
\* nor FAILED: is judged by its exit code, so a test is shown completed only
\* if it succeeded.  Once the SIGCHLD handler has reaped it that code reads 0.
TestCompletedOnlyOnSuccess ==
    \A c \in Test : row[c] = "completed" => c \in succeeded

=============================================================================
