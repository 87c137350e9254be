------------------------------- MODULE TestRun -------------------------------
(***************************************************************************)
(* A compiled test program: the runtime's test framework and its use of    *)
(* the two output streams (stdlib/runtime.c), driven by the dispatcher the *)
(* compiler emits (codegen.kod) and the test main (kodc.kod).              *)
(*                                                                         *)
(* Both streams end up in one log.  A line written to stdout waits in the  *)
(* stream's buffer until it is flushed, by a call or because the buffer is *)
(* full; one written to stderr goes to the log at once.  Lines are         *)
(* <<kind, test>>; test 0 is the program itself.                           *)
(***************************************************************************)
EXTENDS Naturals, Sequences, FiniteSets

CONSTANTS MaxTests,    \* bound: tests in the program
          MaxLines,    \* bound: lines one test writes, failures included
          BufLines     \* stdio's buffer

ASSUME TestConstants == MaxTests \in Nat /\ MaxLines \in Nat /\ BufLines \in Nat

VARIABLES
  tests, run,     \* how many tests there are; the one that runs or has run last
  step,           \* "main", "module" (in a dispatcher), "test" or "exited"
  lines,          \* lines the running test has written
  stdout, log,    \* the buffer; the log
  said,           \* every line but kod_eprint's, in the order they were written
  test_failed, test_total, test_failures,   \* g_kod_test_*
  broken,         \* the tests in which an assertion failed
  code            \* the exit status, 99 while the program runs

testVars == <<tests, run, step, lines, stdout, log, said,
              test_failed, test_total, test_failures, broken, code>>

TestInit ==
  /\ tests \in 0..MaxTests /\ run = 0 /\ step = "main" /\ lines = 0
  /\ stdout = <<>> /\ log = <<>> /\ said = <<>>
  /\ test_failed = FALSE /\ test_total = 0 /\ test_failures = 0
  /\ broken = {} /\ code = 99

-----------------------------------------------------------------------------
(* Output.                                                                   *)

\* fwrite to stdout; a full buffer is written out first.
ToStdout(line) ==
  /\ said' = Append(said, line)
  /\ IF Len(stdout) < BufLines
     THEN stdout' = Append(stdout, line) /\ UNCHANGED log
     ELSE stdout' = <<line>> /\ log' = log \o stdout

\* fwrite to stdout, then fflush(stdout).
ToStdoutFlushed(line) ==
  /\ said' = Append(said, line)
  /\ stdout' = <<>> /\ log' = log \o stdout \o <<line>>

\* Mutant: stdout is not flushed before the detail.
ToStderrInOrder_unflushed(line) ==
  /\ said' = Append(said, line)
  /\ log' = Append(log, line) /\ UNCHANGED stdout

\* fflush(stdout), then fwrite to stderr.
ToStderrInOrder(line) ==
  /\ said' = Append(said, line)
  /\ stdout' = <<>> /\ log' = log \o stdout \o <<line>>

Exit(status) == code' = status /\ step' = "exited"

-----------------------------------------------------------------------------
(* The dispatcher: __run_tests of each module, then the summary.             *)

kod_test_module_begin ==
  /\ step = "main" /\ run < tests
  /\ ToStdoutFlushed(<<"module", 0>>) /\ step' = "module"
  /\ UNCHANGED <<tests, run, lines, test_failed, test_total, test_failures, broken, code>>

ClearFlag == test_failed' = FALSE

kod_test_reset ==
  /\ step = "module"
  /\ ClearFlag /\ run' = run + 1 /\ lines' = 0 /\ step' = "test"
  /\ UNCHANGED <<tests, stdout, log, said, test_total, test_failures, broken, code>>

\* The test prints (print, kod_puts).
kod_puts ==
  /\ step = "test" /\ lines < MaxLines
  /\ ToStdout(<<"print", run>>) /\ lines' = lines + 1
  /\ UNCHANGED <<tests, run, step, test_failed, test_total, test_failures, broken, code>>

\* The test writes to stderr itself: nothing is flushed.
kod_eprint ==
  /\ step = "test" /\ lines < MaxLines
  /\ log' = Append(log, <<"eprint", run>>) /\ lines' = lines + 1
  /\ UNCHANGED <<tests, run, step, stdout, said,
                 test_failed, test_total, test_failures, broken, code>>

\* An assertion of the test fails; the test goes on.
kod_test_fail ==
  /\ step = "test" /\ lines < MaxLines
  /\ test_failed' = TRUE /\ broken' = broken \cup {run}
  /\ ToStderrInOrder(<<"detail", run>>) /\ lines' = lines + 1
  /\ UNCHANGED <<tests, run, step, test_total, test_failures, code>>

\* kod_panic or kod_index_oob, from an assertion outside a test block, `must` or
\* an index: the message, the backtrace, exit(1).
kod_panic ==
  /\ step = "test"
  /\ ToStderrInOrder(<<"panic", run>>) /\ broken' = broken \cup {run} /\ Exit(1)
  /\ UNCHANGED <<tests, run, lines, test_failed, test_total, test_failures>>

\* The test returns: its line, flushed.  The next test is of the same module or
\* of another (a module without tests has no dispatcher).
kod_test_report ==
  /\ step = "test"
  /\ test_total' = test_total + 1
  /\ test_failures' = test_failures + (IF test_failed THEN 1 ELSE 0)
  /\ ToStdoutFlushed(<<IF test_failed THEN "FAIL" ELSE "ok", run>>)
  /\ step' \in IF run < tests THEN {"module", "main"} ELSE {"main"}
  /\ UNCHANGED <<tests, run, lines, test_failed, broken, code>>

\* Mutant: the status of the last test is the program's.
SummaryStatus_last == IF test_failed THEN 1 ELSE 0

SummaryStatus == IF test_failures > 0 THEN 1 ELSE 0

\* The aggregate line, and the exit status main returns; exit flushes stdout.
kod_test_summary ==
  /\ step = "main" /\ run = tests
  /\ ToStdoutFlushed(<<"summary", test_total - test_failures>>)
  /\ Exit(SummaryStatus)
  /\ UNCHANGED <<tests, run, lines, test_failed, test_total, test_failures, broken>>

TestNext ==
  \/ kod_test_module_begin \/ kod_test_reset \/ kod_puts \/ kod_eprint \/ kod_test_fail
  \/ kod_panic \/ kod_test_report \/ kod_test_summary

TestSpec == TestInit /\ [][TestNext]_testVars

-----------------------------------------------------------------------------
(* Properties.                                                               *)

\* How many of the first i lines are not ones a test sent to stderr itself (those
\* may overtake what waits in the buffer).
Place(lines_out, i) == Cardinality({k \in 1..i : lines_out[k][1] # "eprint"})

\* What came out and then what is in the buffer is what was written, in order.
Accounted(lines_out, buffer, written) ==
  LET out == Place(lines_out, Len(lines_out))
  IN  /\ Len(written) = out + Len(buffer)
      /\ \A i \in DOMAIN lines_out :
           lines_out[i][1] # "eprint" => lines_out[i] = written[Place(lines_out, i)]
      /\ \A i \in DOMAIN buffer : buffer[i] = written[out + i]

\* The log has the lines in the order the program wrote them, over both streams
\* and wherever the buffer fills; what is missing is what waits in the buffer,
\* and at the end nothing is.
LogInOrder == Accounted(log, stdout, said) /\ (code # 99 => stdout = <<>>)

\* A test's line says FAIL exactly when an assertion failed in that test, not in
\* one before it.
VerdictRight ==
  \A i \in DOMAIN said :
    /\ said[i][1] = "FAIL" => said[i][2] \in broken
    /\ said[i][1] = "ok" => said[i][2] \notin broken

\* The program exits with 0 exactly when every test ran and none failed, and the
\* summary counts the tests that passed.
ExitTells ==
  code # 99 =>
    /\ code = 0 <=> run = tests /\ broken = {}
    /\ said[Len(said)][1] = "summary" =>
         said[Len(said)][2] = Cardinality({i \in DOMAIN said : said[i][1] = "ok"})

\* Every verdict of a test program: per test, in the summary and in its status.
VerdictsTell == VerdictRight /\ ExitTells
=============================================================================
