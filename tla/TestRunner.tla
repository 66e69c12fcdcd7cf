----------------------------- MODULE TestRunner -----------------------------
(***************************************************************************)
(* The test runner (test_runner/runner.odin): execute_test_suite walks the *)
(* tree of suites, runs the tests that a prefix selects between the        *)
(* suite's setup and teardown, and adds up which of them failed.           *)
(*                                                                         *)
(* A name is a sequence of pieces, no two of which start alike, so that    *)
(* one name is a prefix of another exactly when it is one as a string.     *)
(* What a test or a hook does is abstracted to the number of its failed    *)
(* expectations, at most MaxFails.                                         *)
(***************************************************************************)
EXTENDS Integers, Sequences, FiniteSets

CONSTANTS
  Suites, Tests,
  Main,          \* the suite that main executes
  Name,          \* the name of each suite and test: a sequence of pieces
  TestsOf,       \* the tests of each suite, in order
  Children,      \* its child suites, in order
  Hooked,        \* the suites that have a setup and a teardown
  Prefixes,      \* the prefixes that may be given on the command line
  MaxFails

(* The pieces that names and prefixes are made of. *)
Pieces ==
  UNION {{n[j] : j \in 1 .. Len(n)} : n \in Prefixes \cup {Name[x] : x \in Suites \cup Tests}}

ASSUME TreeAssumption ==
  /\ Main \in Suites
  /\ TestsOf \in [Suites -> Seq(Tests)]
  /\ Children \in [Suites -> Seq(Suites)]
  /\ Hooked \subseteq Suites
ASSUME NameAssumption ==
  /\ Name \in [Suites \cup Tests -> Seq(Pieces)]
  /\ Prefixes \subseteq Seq(Pieces)

(* The suites and tests are where the arrays of the test program put them: *)
(* each in one place, Main in none, and all of them below Main.            *)
ASSUME PlaceAssumption ==
  /\ \A p, q \in Suites : \A c \in DOMAIN Children[p] : \A d \in DOMAIN Children[q] :
       Children[p][c] = Children[q][d] => p = q /\ c = d
  /\ \A p \in Suites : \A c \in DOMAIN Children[p] : Children[p][c] # Main
  /\ \A p, q \in Suites : \A j \in DOMAIN TestsOf[p] : \A k \in DOMAIN TestsOf[q] :
       TestsOf[p][j] = TestsOf[q][k] => p = q /\ j = k
  /\ \A t \in Tests : \E s \in Suites : \E j \in DOMAIN TestsOf[s] : TestsOf[s][j] = t
ASSUME BelowMainAssumption ==
  \A S \in SUBSET Suites :
    Main \in S /\ (\A p \in S : \A c \in DOMAIN Children[p] : Children[p][c] \in S)
      => S = Suites
ASSUME FailsAssumption == MaxFails \in Nat

VARIABLES
  test_prefix,        \* the prefix that was given, <<>> for none
  calls,              \* the activations of execute_test_suite, innermost last
  total_test_count, test_fail_count, assert_fail_count,
  test_sb,            \* who wrote the lines of the message builder
  result,             \* what the outermost call returned
  executed,           \* the tests that ran, in order (ghost)
  failed,             \* those of them that had a failed expectation (ghost)
  printed,            \* the messages that were printed, by test (ghost)
  hooks               \* setups minus teardowns, by suite (ghost)

counters == <<total_test_count, test_fail_count, assert_fail_count>>
ghosts == <<executed, failed, printed, hooks>>
vars == <<test_prefix, calls, counters, test_sb, result, ghosts>>

Call(s, prefix) ==
  [suite |-> s, prefix |-> prefix \o Name[s], at |-> "enter",
   test |-> 1, child |-> 1, ok |-> TRUE]

Init ==
  /\ test_prefix \in Prefixes
  /\ calls = <<Call(Main, <<>>)>>
  /\ total_test_count = 0 /\ test_fail_count = 0 /\ assert_fail_count = 0
  /\ test_sb = <<>>
  /\ result = "none"
  /\ executed = <<>>
  /\ failed = <<>>
  /\ printed = [t \in Tests |-> {}]
  /\ hooks = [s \in Suites |-> 0]

-----------------------------------------------------------------------------
Top == calls[Len(calls)]
At(place) == calls # <<>> /\ Top.at = place
SetTop(f) == calls' = [calls EXCEPT ![Len(calls)] = f]

StartsWith(name, prefix) ==
  Len(prefix) <= Len(name) /\ SubSeq(name, 1, Len(prefix)) = prefix

MutantSkipped(name) == name # <<>> /\ ~StartsWith(name, test_prefix)

(* Both are cut to the shorter one: a suite above the selected tests must  *)
(* not be skipped.  An empty name never is.                                *)
Skipped(name) ==
  LET min_len == IF Len(name) < Len(test_prefix) THEN Len(name)
                                                 ELSE Len(test_prefix)
  IN name # <<>> /\ SubSeq(name, 1, min_len) # SubSeq(test_prefix, 1, min_len)

Verdict(ok) == IF ok THEN "success" ELSE "failure"

MutantReturn(ok) ==
  LET caller == calls[Len(calls) - 1] IN
  IF Len(calls) = 1 THEN calls' = <<>> /\ result' = Verdict(ok)
  ELSE /\ calls' = Append(SubSeq(calls, 1, Len(calls) - 2), [caller EXCEPT !.ok = ok])
       /\ UNCHANGED result

(* A suite's result goes into that of its parent. *)
Return(ok) ==
  LET caller == calls[Len(calls) - 1] IN
  IF Len(calls) = 1 THEN calls' = <<>> /\ result' = Verdict(ok)
  ELSE /\ calls' = Append(SubSeq(calls, 1, Len(calls) - 2),
                          [caller EXCEPT !.ok = @ /\ ok])
       /\ UNCHANGED result

(* expect, failing n times on behalf of a test or of a suite's hook.       *)
Expect(who, n, sb) ==
  /\ assert_fail_count' = assert_fail_count + n
  /\ test_sb' = sb \o [j \in 1 .. n |-> who]

Fails == 0 .. MaxFails

(* A suite outside of the prefix counts as successful. *)
EnterSuite ==
  /\ At("enter")
  /\ \/ Skipped(Top.prefix) /\ Return(TRUE)
     \/ /\ ~Skipped(Top.prefix)
        /\ SetTop([Top EXCEPT !.at = "setup"])
        /\ UNCHANGED result
  /\ UNCHANGED <<test_prefix, counters, test_sb, ghosts>>

(* The suite's setup runs before each test, whether it is selected or not. *)
SetupSuite ==
  /\ At("setup")
  /\ Top.test <= Len(TestsOf[Top.suite])
  /\ SetTop([Top EXCEPT !.at = "test"])
  /\ \E n \in IF Top.suite \in Hooked THEN Fails ELSE {0} :
       Expect(Top.suite, n, test_sb)
  /\ hooks' = [hooks EXCEPT ![Top.suite] = @ + 1]
  /\ UNCHANGED <<test_prefix, total_test_count, test_fail_count, result,
                 executed, failed, printed>>

Test == TestsOf[Top.suite][Top.test]
FullName == Top.prefix \o Name[Test]

MutantSkipTest ==
  /\ At("test")
  /\ Skipped(FullName)
  /\ SetTop([Top EXCEPT !.at = "setup", !.test = @ + 1])
  /\ UNCHANGED <<test_prefix, counters, test_sb, result, ghosts>>

SkipTest ==
  /\ At("test")
  /\ Skipped(FullName)
  /\ SetTop([Top EXCEPT !.at = "teardown"])
  /\ UNCHANGED <<test_prefix, counters, test_sb, result, ghosts>>

MutantReset == test_sb

(* execute_test empties the message builder first. *)
Reset == <<>>

(* execute_test: the test, between its own setup and teardown, has failed  *)
(* if the count of failed assertions has moved.                            *)
ExecuteTest ==
  /\ At("test")
  /\ ~Skipped(FullName)
  /\ total_test_count' = total_test_count + 1
  /\ \E n \in Fails : Expect(Test, n, Reset)
  /\ LET test_ok == assert_fail_count' = assert_fail_count IN
     /\ SetTop([Top EXCEPT !.at = "teardown", !.ok = @ /\ test_ok])
     /\ test_fail_count' = test_fail_count + (IF test_ok THEN 0 ELSE 1)
     /\ printed' = IF test_ok THEN printed
                   ELSE [printed EXCEPT ![Test] = {test_sb'[j] : j \in 1 .. Len(test_sb')}]
     /\ failed' = IF test_ok THEN failed ELSE Append(failed, Test)
  /\ executed' = Append(executed, Test)
  /\ UNCHANGED <<test_prefix, result, hooks>>

TeardownSuite ==
  /\ At("teardown")
  /\ SetTop([Top EXCEPT !.at = "setup", !.test = @ + 1])
  /\ \E n \in IF Top.suite \in Hooked THEN Fails ELSE {0} :
       Expect(Top.suite, n, test_sb)
  /\ hooks' = [hooks EXCEPT ![Top.suite] = @ - 1]
  /\ UNCHANGED <<test_prefix, total_test_count, test_fail_count, result,
                 executed, failed, printed>>

TestsDone == At("setup") /\ Top.test > Len(TestsOf[Top.suite])

ExecuteChild ==
  /\ TestsDone
  /\ Top.child <= Len(Children[Top.suite])
  /\ calls' = Append([calls EXCEPT ![Len(calls)].child = @ + 1],
                     Call(Children[Top.suite][Top.child], Top.prefix))
  /\ UNCHANGED <<test_prefix, counters, test_sb, result, ghosts>>

LeaveSuite ==
  /\ TestsDone
  /\ Top.child > Len(Children[Top.suite])
  /\ Return(Top.ok)
  /\ UNCHANGED <<test_prefix, counters, test_sb, ghosts>>

Terminated == calls = <<>> /\ UNCHANGED vars

Next ==
  \/ EnterSuite \/ SetupSuite \/ SkipTest \/ ExecuteTest \/ TeardownSuite
  \/ ExecuteChild \/ LeaveSuite
  \/ Terminated

Spec == Init /\ [][Next]_vars

-----------------------------------------------------------------------------
(* Properties.                                                             *)

Activation ==
  [suite : Suites, prefix : Seq(Pieces), at : {"enter", "setup", "test", "teardown"},
   test : Nat, child : Nat, ok : BOOLEAN]

(* Types; and no suite is set up twice with no teardown in between, also   *)
(* when the prefix leaves out the tests of the suite.                      *)
TypeOK ==
  /\ calls \in Seq(Activation)
  /\ \A d \in 1 .. Len(calls) :
       /\ calls[d].test \in 1 .. Len(TestsOf[calls[d].suite]) + 1
       /\ calls[d].child \in 1 .. Len(Children[calls[d].suite]) + 1
       /\ calls[d].at \in {"test", "teardown"} =>
            calls[d].test <= Len(TestsOf[calls[d].suite])
  /\ total_test_count \in Nat
  /\ test_fail_count \in 0 .. total_test_count
  /\ assert_fail_count \in Nat
  /\ test_sb \in Seq(Suites \cup Tests)
  /\ result \in {"none", "success", "failure"}
  /\ executed \in Seq(Tests)
  /\ failed \in Seq(Tests)
  /\ printed \in [Tests -> SUBSET (Suites \cup Tests)]
  /\ hooks \in [Suites -> 0 .. 1]

SuiteOf(t) == CHOOSE s \in Suites : \E j \in DOMAIN TestsOf[s] : TestsOf[s][j] = t
Parent(s) == CHOOSE p \in Suites : \E c \in DOMAIN Children[p] : Children[p][c] = s

(* The full name of a test: the names of the suites above it and its own.  *)
Path[s \in Suites] == IF s = Main THEN Name[s] ELSE Path[Parent(s)] \o Name[s]
Selected(t) == StartsWith(Path[SuiteOf(t)] \o Name[t], test_prefix)

Times(t) == Cardinality({j \in 1 .. Len(executed) : executed[j] = t})

(* Every test whose name starts with the prefix is executed exactly once,  *)
(* and no test is executed twice, however deep its suite is.               *)
SelectedTestsRun ==
  calls = <<>> =>
    \A t \in Tests :
      /\ Times(t) <= 1
      /\ Selected(t) => Times(t) = 1

(* What main turns into the exit status and the report: the run is         *)
(* successful exactly when no test of any suite failed, and the counts are *)
(* those of the tests that were executed.                                  *)
ReportIsExact ==
  /\ total_test_count = Len(executed)
  /\ test_fail_count = Len(failed)
  /\ calls = <<>> => result = Verdict(failed = <<>>)

(* The messages printed under a failed test are its own: none of another   *)
(* test, nor of a hook, although all share one builder.                    *)
MessagesAreOwn == \A t \in Tests : printed[t] \subseteq {t}

(* A suite is set up when one of its tests runs, and only then: each setup *)
(* has been torn down before the next one and before any other suite.      *)
HooksAreBalanced ==
  \A s \in Suites :
    hooks[s] = IF calls # <<>> /\ Top.suite = s /\ Top.at \in {"test", "teardown"}
               THEN 1 ELSE 0

(* The usage text of the test program: only tests with this prefix run.    *)
OnlyTestsWithThisPrefix ==
  \A j \in 1 .. Len(executed) : Selected(executed[j])
=============================================================================
