-------------------------- MODULE TestRunnerProofs --------------------------
(***************************************************************************)
(* Proofs about TestRunner, for every tree of suites, every prefix and     *)
(* every outcome of the tests: the report is exact, messages stay with     *)
(* their tests, setups and teardowns are balanced, and each test that the  *)
(* prefix selects runs exactly once.  TInv is the inductive invariant of   *)
(* the first three; WalkInv, inductive relative to it, says which suites   *)
(* were left so far, and with an induction over the tree of suites gives   *)
(* the last.                                                               *)
(***************************************************************************)
EXTENDS TestRunner, SetInduction, SequenceTheorems, FiniteSetTheorems, TLAPS

(* As long as the walk lasts, a failed test is remembered by an activation *)
(* that has not returned yet; one that has just begun remembers nothing.   *)
VerdictInv ==
  /\ calls # <<>> =>
       (failed = <<>> <=> \A d \in 1 .. Len(calls) : calls[d].ok)
  /\ \A d \in 1 .. Len(calls) : calls[d].at = "enter" => calls[d].ok

(* Only the innermost activation is in the middle of anything. *)
CallersInv ==
  \A d \in 1 .. Len(calls) : d < Len(calls) => calls[d].at = "setup"

TInv ==
  /\ TypeOK /\ VerdictInv /\ CallersInv
  /\ ReportIsExact /\ MessagesAreOwn /\ HooksAreBalanced

-----------------------------------------------------------------------------
(* Facts about the operators.                                              *)

(* Replacing the innermost activation. *)
LEMMA SetTopFacts ==
  ASSUME NEW c \in Seq(Activation), c # <<>>, NEW f \in Activation
  PROVE  LET r == [c EXCEPT ![Len(c)] = f] IN
         /\ r \in Seq(Activation) /\ Len(r) = Len(c) /\ r # <<>>
         /\ r[Len(c)] = f
         /\ \A d \in 1 .. Len(c) : d # Len(c) => r[d] = c[d]
<1>. DEFINE r == [c EXCEPT ![Len(c)] = f]
<1>1. Len(c) \in 1 .. Len(c) /\ Len(c) \in Nat
  BY EmptySeq, LenProperties
<1>2. r \in Seq(Activation) /\ Len(r) = Len(c)
  BY <1>1, ExceptSeq
<1>3. r # <<>>
  BY <1>1, <1>2
<1>4. /\ r[Len(c)] = f
      /\ \A d \in 1 .. Len(c) : d # Len(c) => r[d] = c[d]
  BY <1>1, LenProperties
<1>. QED
  BY <1>2, <1>3, <1>4

(* Returning: the innermost activation goes, its caller is replaced. *)
LEMMA PopFacts ==
  ASSUME NEW c \in Seq(Activation), Len(c) > 1, NEW f \in Activation
  PROVE  LET r == Append(SubSeq(c, 1, Len(c) - 2), f) IN
         /\ r \in Seq(Activation) /\ Len(r) = Len(c) - 1 /\ r # <<>>
         /\ r[Len(c) - 1] = f
         /\ \A d \in 1 .. Len(c) - 2 : r[d] = c[d]
<1>. DEFINE s == SubSeq(c, 1, Len(c) - 2)
            r == Append(s, f)
<1>1. Len(c) \in Nat
  BY LenProperties
<1>2. /\ s \in Seq(Activation) /\ Len(s) = Len(c) - 2
      /\ \A d \in 1 .. Len(c) - 2 : s[d] = c[d]
  <2>1. \A d \in 1 .. Len(c) - 2 : c[d] \in Activation
    BY <1>1, ElementOfSeq
  <2>2. 1 \in Int /\ Len(c) - 2 \in Int
    BY <1>1
  <2>3. /\ s \in Seq(Activation)
        /\ Len(s) = IF 1 <= Len(c) - 2 THEN Len(c) - 2 - 1 + 1 ELSE 0
        /\ \A d \in 1 .. Len(c) - 2 - 1 + 1 : s[d] = c[1 + d - 1]
    BY <2>1, <2>2, SubSeqProperties
  <2>. QED
    <3>1. \A d \in 1 .. Len(c) - 2 : d \in 1 .. Len(c) - 2 - 1 + 1 /\ 1 + d - 1 = d
      BY <1>1
    <3>2. \A d \in 1 .. Len(c) - 2 : s[d] = c[d]
      BY <2>3, <3>1
    <3>3. (IF 1 <= Len(c) - 2 THEN Len(c) - 2 - 1 + 1 ELSE 0) = Len(c) - 2
      <4>1. CASE Len(c) = 2
        BY <4>1
      <4>2. CASE Len(c) > 2
        BY <1>1, <4>2
      <4>3. \A k \in Nat : k > 1 => k = 2 \/ k > 2
        OBVIOUS
      <4>. QED
        BY <1>1, <4>1, <4>2, <4>3
    <3>. HIDE DEF s
    <3>. QED
      BY <2>3, <3>2, <3>3
<1>3. /\ r \in Seq(Activation) /\ Len(r) = Len(c) - 1
      /\ r[Len(c) - 1] = f
      /\ \A d \in 1 .. Len(c) - 2 : r[d] = s[d]
  BY <1>1, <1>2, AppendProperties
<1>4. r # <<>>
  BY <1>1, <1>3
<1>. QED
  BY <1>2, <1>3, <1>4

(* The activation that a walk's call begins with. *)
LEMMA CallFacts ==
  ASSUME NEW s \in Suites, NEW prefix \in Seq(Pieces)
  PROVE  /\ Call(s, prefix) \in Activation
         /\ Call(s, prefix).suite = s /\ Call(s, prefix).at = "enter"
         /\ Call(s, prefix).ok
         /\ Call(s, prefix).test = 1 /\ Call(s, prefix).child = 1
<1>1. prefix \o Name[s] \in Seq(Pieces)
  BY NameAssumption, ConcatProperties
<1>. QED
  BY <1>1 DEF Call, Activation

(* expect adds the lines of who it reports for, and counts them. *)
LEMMA ExpectFacts ==
  ASSUME TypeOK, NEW n \in Nat, NEW sb \in Seq(Suites \cup Tests),
         NEW who \in Suites \cup Tests, Expect(who, n, sb)
  PROVE  /\ assert_fail_count' \in Nat
         /\ test_sb' \in Seq(Suites \cup Tests)
         /\ sb = <<>> => \A j \in 1 .. Len(test_sb') : test_sb'[j] = who
<1>. DEFINE new == [j \in 1 .. n |-> who]
<1>1. new \in Seq(Suites \cup Tests) /\ Len(new) = n
  BY DEF Expect
<1>2. test_sb' = sb \o new /\ assert_fail_count' = assert_fail_count + n
  BY DEF Expect
<1>3. test_sb' \in Seq(Suites \cup Tests)
  BY <1>1, <1>2, ConcatProperties
<1>4. sb = <<>> => test_sb' = new
  BY <1>1, <1>2, ConcatEmptySeq
<1>. QED
  BY <1>1, <1>2, <1>3, <1>4 DEF TypeOK

(* The innermost activation, while there is one. *)
LEMMA TopFacts ==
  ASSUME TypeOK, calls # <<>>
  PROVE  /\ Len(calls) \in Nat /\ Len(calls) >= 1
         /\ Top \in Activation
         /\ Top.test \in 1 .. Len(TestsOf[Top.suite]) + 1
         /\ Top.child \in 1 .. Len(Children[Top.suite]) + 1
         /\ Top.at \in {"test", "teardown"} => Top.test <= Len(TestsOf[Top.suite])
<1>1. calls \in Seq(Activation)
  BY DEF TypeOK
<1>2. Len(calls) \in Nat /\ Len(calls) # 0
  BY <1>1, EmptySeq, LenProperties
<1>3. Top \in Activation
  BY <1>1, <1>2, ElementOfSeq DEF Top
<1>. QED
  BY <1>2, <1>3 DEF Top, TypeOK

LEMMA SuiteFacts ==
  ASSUME TypeOK, calls # <<>>
  PROVE  /\ Top.suite \in Suites /\ Top.prefix \in Seq(Pieces)
         /\ Len(TestsOf[Top.suite]) \in Nat /\ Len(Children[Top.suite]) \in Nat
         /\ \A j \in 1 .. Len(TestsOf[Top.suite]) : TestsOf[Top.suite][j] \in Tests
         /\ \A j \in 1 .. Len(Children[Top.suite]) : Children[Top.suite][j] \in Suites
<1>1. Top.suite \in Suites /\ Top.prefix \in Seq(Pieces)
  BY TopFacts DEF Activation
<1>2. TestsOf[Top.suite] \in Seq(Tests) /\ Children[Top.suite] \in Seq(Suites)
  BY <1>1, TreeAssumption
<1>. QED
  BY <1>1, <1>2, ElementOfSeq, LenProperties

-----------------------------------------------------------------------------
(* What the steps do to the activations.                                   *)

(* The loop variables of an activation. *)
LEMMA CursorFacts ==
  ASSUME NEW a \in Activation, NEW k \in Nat
  PROVE  /\ LET f == [a EXCEPT !.child = k] IN
            /\ f \in Activation /\ f.suite = a.suite /\ f.at = a.at
            /\ f.ok = a.ok /\ f.test = a.test /\ f.child = k
         /\ LET f == [a EXCEPT !.at = "setup", !.test = k] IN
            /\ f \in Activation /\ f.suite = a.suite /\ f.at = "setup"
            /\ f.ok = a.ok /\ f.child = a.child /\ f.test = k
BY DEF Activation

CallsOK ==
  /\ calls \in Seq(Activation)
  /\ \A d \in 1 .. Len(calls) :
       /\ calls[d].test \in 1 .. Len(TestsOf[calls[d].suite]) + 1
       /\ calls[d].child \in 1 .. Len(Children[calls[d].suite]) + 1
       /\ calls[d].at \in {"test", "teardown"} =>
            calls[d].test <= Len(TestsOf[calls[d].suite])

(* The innermost activation moves on within its suite. *)
LEMMA SetTopInv ==
  ASSUME TypeOK, CallersInv, calls # <<>>,
         NEW f \in Activation, SetTop(f),
         f.test \in 1 .. Len(TestsOf[f.suite]) + 1,
         f.child \in 1 .. Len(Children[f.suite]) + 1,
         f.at \in {"test", "teardown"} => f.test <= Len(TestsOf[f.suite])
  PROVE  /\ CallsOK' /\ CallersInv' /\ calls' # <<>>
         /\ Len(calls') = Len(calls) /\ Top' = f
         /\ \A d \in 1 .. Len(calls) : d # Len(calls) => calls'[d] = calls[d]
<1>1. calls \in Seq(Activation) /\ Len(calls) \in Nat /\ Len(calls) >= 1
  BY TopFacts DEF TypeOK
<1>2. /\ calls' \in Seq(Activation) /\ Len(calls') = Len(calls) /\ calls' # <<>>
      /\ calls'[Len(calls)] = f
      /\ \A d \in 1 .. Len(calls) : d # Len(calls) => calls'[d] = calls[d]
  BY <1>1, SetTopFacts DEF SetTop
<1>3. Top' = f
  BY <1>2 DEF Top
<1>4. CallsOK'
  BY <1>1, <1>2 DEF CallsOK, TypeOK
<1>5. CallersInv'
  BY <1>1, <1>2 DEF CallersInv
<1>. QED
  BY <1>2, <1>3, <1>4, <1>5

(* The innermost activation returns what it remembers. *)
LEMMA ReturnInv ==
  ASSUME TypeOK, CallersInv, VerdictInv, calls # <<>>, Return(Top.ok), failed' = failed,
         result \in {"none", "success", "failure"}
  PROVE  /\ CallsOK' /\ CallersInv' /\ VerdictInv'
         /\ calls' = <<>> => result' = Verdict(failed = <<>>)
         /\ calls' # <<>> => Top'.at = "setup"
         /\ result' \in {"none", "success", "failure"}
<1>. DEFINE n == Len(calls)
<1>1. /\ calls \in Seq(Activation) /\ n \in Nat /\ n >= 1
      /\ Top \in Activation /\ Top = calls[n]
  BY TopFacts DEF TypeOK, Top
<1>2. failed = <<>> <=> \A d \in 1 .. n : calls[d].ok
  BY DEF VerdictInv
<1>3. CASE n = 1
  <2>1. calls' = <<>> /\ result' = Verdict(Top.ok)
    BY <1>3 DEF Return
  <2>2. Len(calls') = 0 /\ calls' \in Seq(Activation)
    BY <2>1, EmptySeq
  <2>3. Top.ok <=> failed = <<>>
    BY <1>1, <1>2, <1>3
  <2>4. result' = Verdict(failed = <<>>) /\ result' \in {"none", "success", "failure"}
    BY <2>1, <2>3 DEF Verdict
  <2>. QED
    BY <2>1, <2>2, <2>4 DEF CallsOK, CallersInv, VerdictInv
<1>4. CASE n > 1
  <2>. DEFINE caller == calls[n - 1]
              f == [caller EXCEPT !.ok = @ /\ Top.ok]
  <2>1. n # 1 /\ n - 1 \in 1 .. n
    BY <1>1, <1>4
  <2>2. /\ calls' = Append(SubSeq(calls, 1, n - 2), f)
        /\ result' = result
    BY <2>1 DEF Return
  <2>3. caller \in Activation
    BY <1>1, <2>1, ElementOfSeq
  <2>4. /\ f \in Activation /\ f.suite = caller.suite /\ f.test = caller.test
        /\ f.child = caller.child /\ f.at = caller.at
    BY <1>1, <2>3 DEF Activation
  <2>5. f.ok <=> caller.ok /\ Top.ok
    BY <1>1, <2>3 DEF Activation
  <2>. HIDE DEF f, n
  <2>6. caller.at = "setup"
    BY <1>1, <2>1, <1>4 DEF CallersInv, n
  <2>7. /\ calls' \in Seq(Activation) /\ Len(calls') = n - 1 /\ calls' # <<>>
        /\ calls'[n - 1] = f
        /\ \A d \in 1 .. n - 2 : calls'[d] = calls[d]
    BY <1>1, <1>4, <2>2, <2>4, PopFacts DEF n
  <2>8. \A d \in 1 .. n - 1 : d = n - 1 \/ (d \in 1 .. n - 2 /\ d \in 1 .. n)
    BY <1>1
  <2>9. CallsOK'
    <3>1. \A d \in 1 .. n - 1 : LET g == calls'[d] IN
            /\ g.test \in 1 .. Len(TestsOf[g.suite]) + 1
            /\ g.child \in 1 .. Len(Children[g.suite]) + 1
            /\ g.at \in {"test", "teardown"} => g.test <= Len(TestsOf[g.suite])
      BY <2>1, <2>4, <2>7, <2>8 DEF TypeOK, n
    <3>. QED
      BY <2>7, <3>1 DEF CallsOK
  <2>10. CallersInv'
    <3>1. \A d \in 1 .. n - 1 : d < n - 1 => d \in 1 .. n /\ d < n /\ d \in 1 .. n - 2
      BY <1>1
    <3>2. \A d \in 1 .. n - 1 : d < n - 1 => calls'[d].at = "setup"
      BY <2>7, <3>1 DEF CallersInv, n
    <3>. QED
      BY <2>7, <3>2 DEF CallersInv
  <2>11. Top' = f
    BY <2>7 DEF Top
  <2>. HIDE DEF caller
  <2>12. (\A d \in 1 .. n : calls[d].ok) <=> (\A d \in 1 .. n - 1 : calls'[d].ok)
    <3>1. \A d \in 1 .. n : d = n \/ d = n - 1 \/ d \in 1 .. n - 2
      BY <1>1
    <3>2. n \in 1 .. n /\ n - 1 \in 1 .. n - 1
      BY <1>1, <1>4
    <3>3. f.ok <=> calls[n - 1].ok /\ calls[n].ok
      BY <1>1, <2>5 DEF caller
    <3>4. (\A d \in 1 .. n - 1 : calls'[d].ok)
            <=> f.ok /\ \A d \in 1 .. n - 2 : calls[d].ok
      BY <2>7, <2>8, <3>2
    <3>5. (\A d \in 1 .. n : calls[d].ok)
            <=> calls[n].ok /\ calls[n - 1].ok /\ \A d \in 1 .. n - 2 : calls[d].ok
      BY <2>1, <2>8, <3>1, <3>2, <1>1
    <3>. QED
      BY <3>3, <3>4, <3>5
  <2>13. VerdictInv'
    <3>1. \A d \in 1 .. n - 1 : calls'[d].at = "enter" => calls'[d].ok
      <4>1. \A d \in 1 .. n : calls[d].at = "enter" => calls[d].ok
        BY DEF VerdictInv, n
      <4>. QED
        BY <2>4, <2>6, <2>7, <2>8, <4>1
    <3>. QED
      BY <1>2, <2>7, <2>12, <3>1 DEF VerdictInv
  <2>. QED
    BY <2>2, <2>4, <2>6, <2>7, <2>9, <2>10, <2>11, <2>13
<1>5. n = 1 \/ n > 1
  <2>1. \A k \in Nat : k >= 1 => k = 1 \/ k > 1
    OBVIOUS
  <2>. QED
    BY <1>1, <2>1
<1>. QED
  BY <1>3, <1>4, <1>5

(* The verdict so far is the same as long as nothing has failed since.     *)
LEMMA SameVerdict ==
  ASSUME TypeOK, VerdictInv, calls # <<>>, failed' = failed,
         NEW f \in Activation, f.ok = Top.ok, f.at # "enter",
         calls' # <<>>, Len(calls') = Len(calls), Top' = f,
         \A d \in 1 .. Len(calls) : d # Len(calls) => calls'[d] = calls[d]
  PROVE  VerdictInv'
<1>1. calls'[Len(calls)] = f /\ calls[Len(calls)] = Top /\ Len(calls) \in 1 .. Len(calls)
  BY TopFacts DEF Top
<1>2. \A d \in 1 .. Len(calls) : calls'[d].ok = calls[d].ok
  BY <1>1
<1>3. \A d \in 1 .. Len(calls) : calls'[d].at = "enter" => calls'[d].ok
  BY <1>1, <1>2 DEF VerdictInv
<1>. QED
  BY <1>2, <1>3 DEF VerdictInv

-----------------------------------------------------------------------------
(* TInv holds initially, and every step keeps it.                          *)

LEMMA InitInv == Init => TInv
<1>. SUFFICES ASSUME Init PROVE TInv
  OBVIOUS
<1>. DEFINE c == Call(Main, <<>>)
<1>1. /\ c \in Activation /\ c.suite = Main /\ c.at = "enter" /\ c.ok
      /\ c.test = 1 /\ c.child = 1
  <2>1. Main \in Suites /\ <<>> \in Seq(Pieces)
    BY TreeAssumption, EmptySeq
  <2>. QED
    BY <2>1, CallFacts
<1>2. /\ calls = <<c>> /\ calls \in Seq(Activation) /\ Len(calls) = 1 /\ calls[1] = c
      /\ calls # <<>>
  BY <1>1 DEF Init
<1>3. Len(TestsOf[Main]) \in Nat /\ Len(Children[Main]) \in Nat
  BY TreeAssumption, LenProperties
<1>. HIDE DEF c
<1>4. CallsOK
  BY <1>1, <1>2, <1>3 DEF CallsOK
<1>5. TypeOK
  BY <1>4, EmptySeq DEF Init, TypeOK, CallsOK
<1>6. VerdictInv /\ CallersInv
  BY <1>1, <1>2 DEF Init, VerdictInv, CallersInv
<1>7. ReportIsExact /\ MessagesAreOwn /\ HooksAreBalanced
  <2>1. Top = c
    BY <1>2 DEF Top
  <2>. QED
    BY <1>1, <1>2, <2>1, EmptySeq DEF Init, ReportIsExact, MessagesAreOwn, HooksAreBalanced
<1>. QED
  BY <1>5, <1>6, <1>7 DEF TInv

LEMMA EnterSuiteInv == TInv /\ EnterSuite => TInv'
<1>. SUFFICES ASSUME TInv, EnterSuite PROVE TInv'
  OBVIOUS
<1>. USE DEF TInv, EnterSuite, At, ghosts, counters
<1>1. calls # <<>> /\ Top.at = "enter" /\ calls \in Seq(Activation)
  BY DEF TypeOK
<1>2. \A s \in Suites : hooks[s] = 0
  BY <1>1 DEF HooksAreBalanced
<1>3. CASE Skipped(Top.prefix) /\ Return(TRUE)
  <2>1. Top.ok = TRUE
    <3>1. Len(calls) \in 1 .. Len(calls) /\ Top \in Activation
      BY <1>1, TopFacts
    <3>. QED
      BY <1>1, <3>1 DEF VerdictInv, Top, Activation
  <2>2. Return(Top.ok)
    BY <1>3, <2>1
  <2>3. /\ CallsOK' /\ CallersInv' /\ VerdictInv'
        /\ calls' = <<>> => result' = Verdict(failed = <<>>)
        /\ calls' # <<>> => Top'.at = "setup"
        /\ result' \in {"none", "success", "failure"}
    BY <1>1, <2>2, ReturnInv DEF TypeOK
  <2>4. TypeOK'
    BY <2>3 DEF TypeOK, CallsOK
  <2>5. ReportIsExact' /\ MessagesAreOwn'
    BY <2>3 DEF ReportIsExact, MessagesAreOwn
  <2>6. HooksAreBalanced'
    BY <1>2, <2>3 DEF HooksAreBalanced
  <2>. QED
    BY <2>3, <2>4, <2>5, <2>6
<1>4. CASE ~Skipped(Top.prefix)
  <2>. DEFINE f == [Top EXCEPT !.at = "setup"]
  <2>1. /\ f \in Activation /\ f.suite = Top.suite /\ f.at = "setup" /\ f.ok = Top.ok
        /\ f.test = Top.test /\ f.child = Top.child /\ SetTop(f) /\ result' = result
    BY <1>1, <1>4, TopFacts DEF Activation
  <2>. HIDE DEF f
  <2>2. /\ CallsOK' /\ CallersInv' /\ calls' # <<>>
        /\ Len(calls') = Len(calls) /\ Top' = f
        /\ \A d \in 1 .. Len(calls) : d # Len(calls) => calls'[d] = calls[d]
    BY <1>1, <2>1, TopFacts, SetTopInv
  <2>3. TypeOK'
    BY <2>1, <2>2 DEF TypeOK, CallsOK
  <2>4. VerdictInv'
    BY <1>1, <2>1, <2>2, SameVerdict
  <2>5. ReportIsExact' /\ MessagesAreOwn'
    BY <2>1, <2>2 DEF ReportIsExact, MessagesAreOwn
  <2>6. HooksAreBalanced'
    BY <1>2, <2>1, <2>2 DEF HooksAreBalanced
  <2>. QED
    BY <2>2, <2>3, <2>4, <2>5, <2>6
<1>. QED
  BY <1>3, <1>4

(* A hook of the suite ran, before or after a test. *)
LEMMA HookInv == TInv /\ (SetupSuite \/ TeardownSuite) => TInv'
<1>. SUFFICES ASSUME TInv, SetupSuite \/ TeardownSuite PROVE TInv'
  OBVIOUS
<1>. USE DEF TInv, SetupSuite, TeardownSuite, At
<1>. DEFINE f == IF Top.at = "setup" THEN [Top EXCEPT !.at = "test"]
                 ELSE [Top EXCEPT !.at = "setup", !.test = @ + 1]
            h == IF Top.at = "setup" THEN 1 ELSE 0
<1>1. calls # <<>> /\ calls \in Seq(Activation)
  BY DEF TypeOK
<1>2. /\ f \in Activation /\ f.suite = Top.suite /\ f.ok = Top.ok /\ f.child = Top.child
      /\ f.test \in 1 .. Len(TestsOf[f.suite]) + 1
      /\ f.at = IF Top.at = "setup" THEN "test" ELSE "setup"
      /\ f.at \in {"test", "teardown"} => f.test <= Len(TestsOf[f.suite])
      /\ SetTop(f)
  <2>1. /\ Top \in Activation /\ Top.test \in Nat /\ Len(TestsOf[Top.suite]) \in Nat
        /\ Top.test \in 1 .. Len(TestsOf[Top.suite]) + 1
        /\ Top.at = "teardown" => Top.test <= Len(TestsOf[Top.suite])
    BY <1>1, TopFacts, SuiteFacts
  <2>2. CASE SetupSuite
    BY <2>1, <2>2 DEF Activation
  <2>3. CASE TeardownSuite
    <3>1. /\ f = [Top EXCEPT !.at = "setup", !.test = @ + 1] /\ Top.at = "teardown"
          /\ SetTop(f)
      BY <2>3
    <3>2. Top.test + 1 \in Nat /\ Top.test + 1 \in 1 .. Len(TestsOf[Top.suite]) + 1
      BY <2>1, <3>1
    <3>3. /\ f \in Activation /\ f.at = "setup" /\ f.test = Top.test + 1
          /\ f.suite = Top.suite /\ f.ok = Top.ok /\ f.child = Top.child
      BY <2>1, <3>1, <3>2, CursorFacts
    <3>. HIDE DEF f
    <3>. QED
      BY <3>1, <3>2, <3>3
  <2>. QED
    BY <2>2, <2>3
<1>3. /\ hooks' = [hooks EXCEPT ![Top.suite] = h]
      /\ \A s \in Suites : s # Top.suite => hooks[s] = 0
      /\ h \in 0 .. 1 /\ h = (IF f.at = "test" THEN 1 ELSE 0)
  BY <1>1, <1>2, SuiteFacts DEF HooksAreBalanced, TypeOK
<1>4. PICK n \in IF Top.suite \in Hooked THEN Fails ELSE {0} : Expect(Top.suite, n, test_sb)
  OBVIOUS
<1>5. n \in Nat /\ Top.suite \in Suites \cup Tests /\ Top.suite \in Suites
  BY <1>1, SuiteFacts, FailsAssumption DEF Fails
<1>6. assert_fail_count' \in Nat /\ test_sb' \in Seq(Suites \cup Tests)
  BY <1>4, <1>5, ExpectFacts DEF TypeOK
<1>. HIDE DEF f, h
<1>7. /\ CallsOK' /\ CallersInv' /\ calls' # <<>>
      /\ Len(calls') = Len(calls) /\ Top' = f
      /\ \A d \in 1 .. Len(calls) : d # Len(calls) => calls'[d] = calls[d]
  BY <1>1, <1>2, TopFacts, SetTopInv
<1>8. UNCHANGED <<total_test_count, test_fail_count, result, executed, failed, printed>>
  OBVIOUS
<1>9. TypeOK'
  BY <1>3, <1>6, <1>7, <1>8 DEF TypeOK, CallsOK
<1>10. VerdictInv'
  BY <1>1, <1>2, <1>7, <1>8, SameVerdict
<1>11. ReportIsExact' /\ MessagesAreOwn'
  BY <1>7, <1>8 DEF ReportIsExact, MessagesAreOwn
<1>12. HooksAreBalanced'
  BY <1>2, <1>3, <1>5, <1>7 DEF HooksAreBalanced, TypeOK
<1>. QED
  BY <1>7, <1>9, <1>10, <1>11, <1>12

LEMMA SkipTestInv == TInv /\ SkipTest => TInv'
<1>. SUFFICES ASSUME TInv, SkipTest PROVE TInv'
  OBVIOUS
<1>. USE DEF TInv, SkipTest, At, ghosts, counters
<1>. DEFINE f == [Top EXCEPT !.at = "teardown"]
<1>1. calls # <<>> /\ calls \in Seq(Activation) /\ Top.at = "test"
  BY DEF TypeOK
<1>2. /\ f \in Activation /\ f.suite = Top.suite /\ f.ok = Top.ok /\ f.child = Top.child
      /\ f.test = Top.test /\ f.at = "teardown" /\ SetTop(f)
      /\ f.test <= Len(TestsOf[f.suite])
  BY <1>1, TopFacts DEF Activation
<1>. HIDE DEF f
<1>3. /\ CallsOK' /\ CallersInv' /\ calls' # <<>>
      /\ Len(calls') = Len(calls) /\ Top' = f
      /\ \A d \in 1 .. Len(calls) : d # Len(calls) => calls'[d] = calls[d]
  BY <1>1, <1>2, TopFacts, SetTopInv
<1>4. TypeOK'
  BY <1>3 DEF TypeOK, CallsOK
<1>5. VerdictInv'
  BY <1>1, <1>2, <1>3, SameVerdict
<1>6. ReportIsExact' /\ MessagesAreOwn'
  BY <1>3 DEF ReportIsExact, MessagesAreOwn
<1>7. HooksAreBalanced'
  BY <1>1, <1>2, <1>3 DEF HooksAreBalanced
<1>. QED
  BY <1>3, <1>4, <1>5, <1>6, <1>7


LEMMA ExecuteTestInv == TInv /\ ExecuteTest => TInv'
<1>. SUFFICES ASSUME TInv, ExecuteTest PROVE TInv'
  OBVIOUS
<1>. USE DEF TInv, ExecuteTest, At
<1>. DEFINE test_ok == assert_fail_count' = assert_fail_count
            f == [Top EXCEPT !.at = "teardown", !.ok = @ /\ test_ok]
<1>1. calls # <<>> /\ calls \in Seq(Activation) /\ Top.at = "test"
  BY DEF TypeOK
<1>2. /\ f \in Activation /\ f.suite = Top.suite /\ f.child = Top.child
      /\ f.test = Top.test /\ f.at = "teardown" /\ SetTop(f)
      /\ f.test <= Len(TestsOf[f.suite])
  BY <1>1, TopFacts DEF Activation
<1>3. f.ok <=> Top.ok /\ test_ok
  BY <1>1, TopFacts DEF Activation
<1>4. Test \in Tests
  BY <1>1, TopFacts, SuiteFacts DEF Test
<1>5. PICK n \in Fails : Expect(Test, n, Reset)
  OBVIOUS
<1>6. /\ assert_fail_count' \in Nat /\ test_sb' \in Seq(Suites \cup Tests)
      /\ {test_sb'[j] : j \in 1 .. Len(test_sb')} \subseteq {Test}
  <2>1. n \in Nat /\ Test \in Suites \cup Tests /\ Reset \in Seq(Suites \cup Tests)
    BY <1>4, FailsAssumption, EmptySeq DEF Fails, Reset
  <2>. QED
    BY <1>5, <2>1, ExpectFacts DEF Reset
<1>7. /\ executed' \in Seq(Tests) /\ Len(executed') = Len(executed) + 1
      /\ test_ok => failed' = failed
      /\ ~test_ok => failed' = Append(failed, Test)
      /\ failed' \in Seq(Tests)
      /\ Len(failed') = Len(failed) + (IF test_ok THEN 0 ELSE 1)
      /\ Len(failed) \in Nat /\ Len(executed) \in Nat
      /\ failed' = <<>> <=> failed = <<>> /\ test_ok
  <2>1. executed \in Seq(Tests) /\ failed \in Seq(Tests)
    BY DEF TypeOK
  <2>2. /\ executed' \in Seq(Tests) /\ Len(executed') = Len(executed) + 1
        /\ Len(failed) \in Nat /\ Len(executed) \in Nat
    BY <1>4, <2>1, AppendProperties, LenProperties
  <2>3. CASE test_ok
    BY <2>1, <2>2, <2>3
  <2>4. CASE ~test_ok
    BY <1>4, <2>1, <2>2, <2>4, AppendProperties
  <2>. QED
    BY <2>3, <2>4
<1>8. /\ total_test_count' = total_test_count + 1
      /\ test_fail_count' = test_fail_count + (IF test_ok THEN 0 ELSE 1)
      /\ result' = result /\ hooks' = hooks
  OBVIOUS
<1>9. /\ printed' \in [Tests -> SUBSET (Suites \cup Tests)]
      /\ \A t \in Tests : printed'[t] \subseteq {t}
  BY <1>4, <1>6 DEF TypeOK, MessagesAreOwn
<1>. HIDE DEF f, test_ok
<1>10. /\ CallsOK' /\ CallersInv' /\ calls' # <<>>
       /\ Len(calls') = Len(calls) /\ Top' = f
       /\ \A d \in 1 .. Len(calls) : d # Len(calls) => calls'[d] = calls[d]
  BY <1>1, <1>2, TopFacts, SetTopInv
<1>11. TypeOK'
  <2>1. total_test_count' \in Nat /\ test_fail_count' \in 0 .. total_test_count'
    <3>1. total_test_count \in Nat /\ test_fail_count \in 0 .. total_test_count
      BY DEF TypeOK
    <3>2. CASE test_ok
      BY <1>8, <3>1, <3>2
    <3>3. CASE ~test_ok
      BY <1>8, <3>1, <3>3
    <3>. QED
      BY <3>2, <3>3
  <2>. QED
    BY <1>6, <1>7, <1>8, <1>9, <1>10, <2>1 DEF TypeOK, CallsOK
<1>12. VerdictInv'
  <2>1. /\ calls'[Len(calls)] = f /\ calls[Len(calls)] = Top
        /\ Len(calls) \in 1 .. Len(calls)
    BY <1>1, <1>10, TopFacts DEF Top
  <2>2. (\A d \in 1 .. Len(calls) : calls'[d].ok)
          <=> test_ok /\ \A d \in 1 .. Len(calls) : calls[d].ok
    <3>1. \A d \in 1 .. Len(calls) : d # Len(calls) => calls'[d].ok = calls[d].ok
      BY <1>10
    <3>2. calls'[Len(calls)].ok <=> calls[Len(calls)].ok /\ test_ok
      BY <1>3, <2>1
    <3>. QED
      BY <2>1, <3>1, <3>2
  <2>3. \A d \in 1 .. Len(calls) : calls'[d].at = "enter" => calls'[d].ok
    BY <1>2, <1>10, <2>1 DEF VerdictInv
  <2>. QED
    BY <1>1, <1>7, <1>10, <2>2, <2>3 DEF VerdictInv
<1>13. ReportIsExact' /\ MessagesAreOwn'
  BY <1>7, <1>8, <1>9, <1>10 DEF ReportIsExact, MessagesAreOwn
<1>14. HooksAreBalanced'
  BY <1>1, <1>2, <1>8, <1>10 DEF HooksAreBalanced
<1>. QED
  BY <1>10, <1>11, <1>12, <1>13, <1>14

LEMMA ExecuteChildInv == TInv /\ ExecuteChild => TInv'
<1>. SUFFICES ASSUME TInv, ExecuteChild PROVE TInv'
  OBVIOUS
<1>. USE DEF TInv, ExecuteChild, TestsDone, At, ghosts, counters
<1>. DEFINE n == Len(calls)
            f == [Top EXCEPT !.child = @ + 1]
            m == [calls EXCEPT ![n] = f]
            c == Call(Children[Top.suite][Top.child], Top.prefix)
<1>1. /\ calls # <<>> /\ calls \in Seq(Activation) /\ Top.at = "setup"
      /\ n \in Nat /\ n >= 1 /\ Top = calls[n]
  BY TopFacts DEF TypeOK, Top
<1>2. /\ Top \in Activation /\ Top.child \in Nat /\ Top.test \in Nat
      /\ Top.child \in 1 .. Len(Children[Top.suite])
      /\ Top.test \in 1 .. Len(TestsOf[Top.suite]) + 1
      /\ Top.suite \in Suites /\ Top.prefix \in Seq(Pieces)
      /\ Children[Top.suite][Top.child] \in Suites
      /\ Len(Children[Top.suite]) \in Nat
  BY <1>1, TopFacts, SuiteFacts DEF Activation
<1>3. /\ f \in Activation /\ f.suite = Top.suite /\ f.ok = Top.ok /\ f.at = "setup"
      /\ f.test = Top.test /\ f.child = Top.child + 1
  <2>1. Top.child + 1 \in Nat
    BY <1>2
  <2>2. Top \in Activation
    BY <1>2
  <2>3. f = [Top EXCEPT !.child = Top.child + 1]
    OBVIOUS
  <2>4. \A k \in Nat : LET g == [Top EXCEPT !.child = k] IN
          /\ g \in Activation /\ g.suite = Top.suite /\ g.at = Top.at
          /\ g.ok = Top.ok /\ g.test = Top.test /\ g.child = k
    BY <2>2, CursorFacts
  <2>5. LET g == [Top EXCEPT !.child = Top.child + 1] IN
          /\ g \in Activation /\ g.suite = Top.suite /\ g.at = Top.at
          /\ g.ok = Top.ok /\ g.test = Top.test /\ g.child = Top.child + 1
    BY <2>1, <2>4
  <2>. HIDE DEF f
  <2>. QED
    BY <1>1, <2>3, <2>5
<1>4. /\ c \in Activation /\ c.suite \in Suites /\ c.at = "enter" /\ c.ok
      /\ c.test = 1 /\ c.child = 1
  BY <1>2, CallFacts
<1>5. m = [calls EXCEPT ![n].child = @ + 1] /\ calls' = Append(m, c)
  BY <1>1
<1>. HIDE DEF f, c
<1>6. /\ m \in Seq(Activation) /\ Len(m) = n /\ m[n] = f
      /\ \A d \in 1 .. n : d # n => m[d] = calls[d]
  BY <1>1, <1>3, SetTopFacts
<1>. HIDE DEF m
<1>7. /\ calls' \in Seq(Activation) /\ Len(calls') = n + 1 /\ calls' # <<>>
      /\ calls'[n + 1] = c /\ calls'[n] = f
      /\ \A d \in 1 .. n : d # n => calls'[d] = calls[d]
  <2>1. m \in Seq(Activation) /\ c \in Activation
    BY <1>4, <1>6
  <2>2. /\ Append(m, c) \in Seq(Activation) /\ Append(m, c) # <<>>
        /\ Len(Append(m, c)) = Len(m) + 1
        /\ \A d \in 1 .. Len(m) : Append(m, c)[d] = m[d]
        /\ Append(m, c)[Len(m) + 1] = c
    BY <2>1, AppendProperties
  <2>3. /\ calls' = Append(m, c) /\ Len(m) = n
    BY <1>5, <1>6
  <2>4. /\ calls' \in Seq(Activation) /\ Len(calls') = n + 1 /\ calls' # <<>>
        /\ calls'[n + 1] = c /\ \A d \in 1 .. n : calls'[d] = m[d]
    BY <2>2, <2>3
  <2>. HIDE DEF n
  <2>. QED
    BY <1>1, <1>6, <2>4
<1>8. Top' = c
  BY <1>7 DEF Top
<1>. HIDE DEF n
<1>9. \A d \in 1 .. n + 1 : d = n + 1 \/ d = n \/ (d \in 1 .. n /\ d # n /\ d < n)
  BY <1>1
<1>10. CallsOK'
  <2>1. Len(TestsOf[c.suite]) \in Nat /\ Len(Children[c.suite]) \in Nat
    <3>1. TestsOf[c.suite] \in Seq(Tests) /\ Children[c.suite] \in Seq(Suites)
      BY <1>4, TreeAssumption
    <3>. QED
      BY <3>1, LenProperties
  <2>2. \A d \in 1 .. n : LET g == calls[d] IN
          /\ g.test \in 1 .. Len(TestsOf[g.suite]) + 1
          /\ g.child \in 1 .. Len(Children[g.suite]) + 1
          /\ g.at \in {"test", "teardown"} => g.test <= Len(TestsOf[g.suite])
    BY DEF TypeOK, n
  <2>3. /\ f.test \in 1 .. Len(TestsOf[f.suite]) + 1
        /\ f.child \in 1 .. Len(Children[f.suite]) + 1
    BY <1>2, <1>3
  <2>4. /\ c.test \in 1 .. Len(TestsOf[c.suite]) + 1
        /\ c.child \in 1 .. Len(Children[c.suite]) + 1
    BY <1>4, <2>1
  <2>5. \A d \in 1 .. n + 1 : LET g == calls'[d] IN
          /\ g.test \in 1 .. Len(TestsOf[g.suite]) + 1
          /\ g.child \in 1 .. Len(Children[g.suite]) + 1
          /\ g.at \in {"test", "teardown"} => g.test <= Len(TestsOf[g.suite])
    BY <1>3, <1>4, <1>7, <1>9, <2>2, <2>3, <2>4
  <2>. QED
    BY <1>7, <2>5 DEF CallsOK
<1>11. TypeOK'
  BY <1>10 DEF TypeOK, CallsOK
<1>12. CallersInv'
  <2>1. \A d \in 1 .. n : d < n => calls[d].at = "setup"
    BY DEF CallersInv, n
  <2>2. \A d \in 1 .. n + 1 : d < n + 1 => calls'[d].at = "setup"
    BY <1>1, <1>3, <1>7, <1>9, <2>1
  <2>. QED
    BY <1>7, <2>2 DEF CallersInv
<1>13. VerdictInv'
  <2>1. n \in 1 .. n /\ n \in 1 .. n + 1 /\ n + 1 \in 1 .. n + 1
    BY <1>1
  <2>2. /\ failed = <<>> <=> \A d \in 1 .. n : calls[d].ok
        /\ \A d \in 1 .. n : calls[d].at = "enter" => calls[d].ok
    BY <1>1 DEF VerdictInv, n
  <2>3. \A d \in 1 .. n : calls'[d].ok = calls[d].ok
    BY <1>1, <1>3, <1>7
  <2>4. (\A d \in 1 .. n + 1 : calls'[d].ok) <=> (\A d \in 1 .. n : calls[d].ok)
    <3>1. \A d \in 1 .. n + 1 : d = n + 1 \/ d \in 1 .. n
      BY <1>1
    <3>2. \A d \in 1 .. n : d \in 1 .. n + 1
      BY <1>1
    <3>. QED
      BY <1>4, <1>7, <2>3, <3>1, <3>2
  <2>5. \A d \in 1 .. n + 1 : calls'[d].at = "enter" => calls'[d].ok
    BY <1>3, <1>4, <1>7, <1>9, <2>2
  <2>. QED
    BY <1>7, <2>2, <2>4, <2>5 DEF VerdictInv
<1>14. ReportIsExact' /\ MessagesAreOwn'
  BY <1>7 DEF ReportIsExact, MessagesAreOwn
<1>15. HooksAreBalanced'
  BY <1>1, <1>4, <1>8 DEF HooksAreBalanced
<1>. QED
  BY <1>11, <1>12, <1>13, <1>14, <1>15

LEMMA LeaveSuiteInv == TInv /\ LeaveSuite => TInv'
<1>. SUFFICES ASSUME TInv, LeaveSuite PROVE TInv'
  OBVIOUS
<1>. USE DEF TInv, LeaveSuite, TestsDone, At, ghosts, counters
<1>1. /\ CallsOK' /\ CallersInv' /\ VerdictInv'
      /\ calls' = <<>> => result' = Verdict(failed = <<>>)
      /\ calls' # <<>> => Top'.at = "setup"
      /\ result' \in {"none", "success", "failure"}
  BY ReturnInv DEF TypeOK
<1>2. TypeOK'
  BY <1>1 DEF TypeOK, CallsOK
<1>3. ReportIsExact' /\ MessagesAreOwn'
  BY <1>1 DEF ReportIsExact, MessagesAreOwn
<1>4. HooksAreBalanced'
  BY <1>1 DEF HooksAreBalanced
<1>. QED
  BY <1>1, <1>2, <1>3, <1>4

LEMMA StutterInv == TInv /\ UNCHANGED vars => TInv'
BY DEF TInv, vars, counters, ghosts, TypeOK, VerdictInv, CallersInv, ReportIsExact,
   MessagesAreOwn, HooksAreBalanced, Top

LEMMA NextInv == TInv /\ [Next]_vars => TInv'
BY EnterSuiteInv, HookInv, SkipTestInv, ExecuteTestInv, ExecuteChildInv, LeaveSuiteInv,
   StutterInv DEF Next, Terminated

(* The inductive invariant holds in every reachable state. *)
THEOREM Invariance == Spec => []TInv
<1>. QED
  BY InitInv, NextInv, PTL DEF Spec

-----------------------------------------------------------------------------
(* How far the walk has come: a second invariant, relative to the first.   *)

(* How often a test is to run, and how many tests of its suite an          *)
(* activation has passed.                                                  *)
Due(s, t) == IF Skipped(Path[s] \o Name[t]) THEN 0 ELSE 1
Passed(a) == IF a.at = "teardown" THEN a.test ELSE a.test - 1

OnStack(s) == \E d \in 1 .. Len(calls) : calls[d].suite = s

(* The activations go down the tree, from Main. *)
ChainInv ==
  /\ \A d \in 1 .. Len(calls) : calls[d].prefix = Path[calls[d].suite]
  /\ calls # <<>> => calls[1].suite = Main
  /\ \A d \in 1 .. Len(calls) : d < Len(calls) =>
       /\ calls[d].child > 1
       /\ calls[d + 1].suite = Children[calls[d].suite][calls[d].child - 1]
  /\ \A d, e \in 1 .. Len(calls) : calls[d].suite = calls[e].suite => d = e

(* The suites that were left: with their children, if not skipped.         *)
LeftInv(left) ==
  /\ \A s \in left : ~OnStack(s)
  /\ \A s \in left : ~Skipped(Path[s]) =>
       \A c \in DOMAIN Children[s] : Children[s][c] \in left
  /\ \A d \in 1 .. Len(calls) : \A c \in DOMAIN Children[calls[d].suite] :
       Children[calls[d].suite][c] \in left
         <=> c < calls[d].child /\ (d < Len(calls) => c # calls[d].child - 1)
  /\ \A p \in Suites : \A c \in DOMAIN Children[p] :
       Children[p][c] \in left => p \in left \/ OnStack(p)
  /\ calls = <<>> => Main \in left

(* The tests run so far: those due of the suites left, and those due that  *)
(* the activations have passed.                                            *)
RunInv(left) ==
  \A s \in Suites : \A j \in DOMAIN TestsOf[s] :
    /\ s \in left => Times(TestsOf[s][j]) = Due(s, TestsOf[s][j])
    /\ s \notin left /\ ~OnStack(s) => Times(TestsOf[s][j]) = 0
    /\ \A d \in 1 .. Len(calls) : calls[d].suite = s =>
         Times(TestsOf[s][j]) = IF j <= Passed(calls[d]) THEN Due(s, TestsOf[s][j]) ELSE 0

WalkInv ==
  /\ test_prefix \in Prefixes
  /\ ChainInv
  /\ \E left \in SUBSET Suites : LeftInv(left) /\ RunInv(left)

-----------------------------------------------------------------------------
(* Names.                                                                  *)

(* A name is skipped when it and the prefix differ somewhere. *)
LEMMA SkippedFacts ==
  ASSUME test_prefix \in Prefixes, NEW n \in Seq(Pieces)
  PROVE  Skipped(n) <=> \E i \in 1 .. Len(n) : i <= Len(test_prefix) /\ n[i] # test_prefix[i]
<1>. DEFINE p == test_prefix
            k == IF Len(n) < Len(p) THEN Len(n) ELSE Len(p)
            a == SubSeq(n, 1, k)
            b == SubSeq(p, 1, k)
<1>1. p \in Seq(Pieces) /\ Len(p) \in Nat /\ Len(n) \in Nat
  BY NameAssumption, LenProperties
<1>2. k \in Nat /\ k <= Len(n) /\ k <= Len(p)
      /\ \A i : i \in 1 .. k <=> i \in 1 .. Len(n) /\ i <= Len(p)
  BY <1>1
<1>3. Skipped(n) <=> n # <<>> /\ a # b
  BY DEF Skipped
<1>. HIDE DEF k
<1>4. \A i \in 1 .. k : n[i] \in Pieces /\ p[i] \in Pieces
  BY <1>1, <1>2, ElementOfSeq
<1>5. /\ a \in Seq(Pieces) /\ Len(a) = k /\ \A i \in 1 .. k : a[i] = n[i]
      /\ b \in Seq(Pieces) /\ Len(b) = k /\ \A i \in 1 .. k : b[i] = p[i]
  <2>1. \A i \in 1 .. k : i \in 1 .. k - 1 + 1 /\ 1 + i - 1 = i
    BY <1>2
  <2>2. (IF 1 <= k THEN k - 1 + 1 ELSE 0) = k
    BY <1>2
  <2>3. /\ a \in Seq(Pieces) /\ Len(a) = (IF 1 <= k THEN k - 1 + 1 ELSE 0)
        /\ \A i \in 1 .. k - 1 + 1 : a[i] = n[1 + i - 1]
    BY <1>2, <1>4, SubSeqProperties
  <2>4. /\ b \in Seq(Pieces) /\ Len(b) = (IF 1 <= k THEN k - 1 + 1 ELSE 0)
        /\ \A i \in 1 .. k - 1 + 1 : b[i] = p[1 + i - 1]
    BY <1>2, <1>4, SubSeqProperties
  <2>. HIDE DEF a, b
  <2>. QED
    BY <2>1, <2>2, <2>3, <2>4
<1>. HIDE DEF a, b
<1>6. a = b <=> \A i \in 1 .. k : n[i] = p[i]
  BY <1>5, SeqEqual
<1>7. n = <<>> => Len(n) = 0
  OBVIOUS
<1>8. n = <<>> => ~\E i \in 1 .. k : n[i] # p[i]
  BY <1>1, <1>2, <1>7
<1>. QED
  BY <1>2, <1>3, <1>6, <1>8

(* What is below a skipped name is skipped, and a selected name is not. *)
LEMMA SkippedBelow ==
  ASSUME test_prefix \in Prefixes, NEW n \in Seq(Pieces), NEW m \in Seq(Pieces)
  PROVE  /\ Skipped(n) => Skipped(n \o m)
         /\ StartsWith(n, test_prefix) => ~Skipped(n)
<1>1. test_prefix \in Seq(Pieces) /\ Len(test_prefix) \in Nat /\ Len(n) \in Nat /\ Len(m) \in Nat
  BY NameAssumption, LenProperties
<1>2. /\ n \o m \in Seq(Pieces) /\ Len(n \o m) = Len(n) + Len(m)
      /\ \A i \in 1 .. Len(n) + Len(m) :
           (n \o m)[i] = IF i <= Len(n) THEN n[i] ELSE m[i - Len(n)]
  BY ConcatProperties
<1>3. ASSUME Skipped(n)
      PROVE  Skipped(n \o m)
  <2>1. PICK i \in 1 .. Len(n) : i <= Len(test_prefix) /\ n[i] # test_prefix[i]
    BY <1>3, SkippedFacts
  <2>2. i \in 1 .. Len(n \o m) /\ (n \o m)[i] = n[i]
    BY <1>1, <1>2
  <2>. QED
    BY <1>2, <2>1, <2>2, SkippedFacts
<1>4. ASSUME StartsWith(n, test_prefix)
      PROVE  ~Skipped(n)
  <2>. DEFINE k == Len(test_prefix)
  <2>1. k <= Len(n) /\ SubSeq(n, 1, k) = test_prefix
    BY <1>4 DEF StartsWith
  <2>2. \A i \in 1 .. k : n[i] \in Pieces
    BY <1>1, <2>1, ElementOfSeq
  <2>3. \A i \in 1 .. k - 1 + 1 : SubSeq(n, 1, k)[i] = n[1 + i - 1]
    BY <1>1, <2>2, SubSeqProperties
  <2>4. \A i \in 1 .. k : i \in 1 .. k - 1 + 1 /\ 1 + i - 1 = i
    BY <1>1
  <2>5. \A i \in 1 .. k : test_prefix[i] = n[i]
    BY <2>1, <2>3, <2>4
  <2>6. \A i \in 1 .. Len(n) : i <= k => i \in 1 .. k
    BY <1>1
  <2>. QED
    BY <2>5, <2>6, SkippedFacts
<1>. QED
  BY <1>3, <1>4

(* The place of a suite and of a test in the tree. *)
LEMMA PlaceFacts ==
  /\ \A p \in Suites : \A c \in DOMAIN Children[p] :
       /\ Children[p][c] \in Suites /\ Children[p][c] # Main
       /\ Parent(Children[p][c]) = p
  /\ \A s \in Suites : \A j \in DOMAIN TestsOf[s] :
       TestsOf[s][j] \in Tests /\ SuiteOf(TestsOf[s][j]) = s
<1>1. ASSUME NEW p \in Suites, NEW c \in DOMAIN Children[p]
      PROVE  Children[p][c] \in Suites /\ Children[p][c] # Main /\ Parent(Children[p][c]) = p
  <2>1. Children[p] \in Seq(Suites)
    BY TreeAssumption
  <2>2. \A q \in Suites : (\E d \in DOMAIN Children[q] : Children[q][d] = Children[p][c]) <=> q = p
    BY PlaceAssumption
  <2>. QED
    BY <2>1, <2>2, PlaceAssumption DEF Parent
<1>2. ASSUME NEW s \in Suites, NEW j \in DOMAIN TestsOf[s]
      PROVE  TestsOf[s][j] \in Tests /\ SuiteOf(TestsOf[s][j]) = s
  <2>1. TestsOf[s] \in Seq(Tests)
    BY TreeAssumption
  <2>2. \A q \in Suites : (\E d \in DOMAIN TestsOf[q] : TestsOf[q][d] = TestsOf[s][j]) <=> q = s
    BY PlaceAssumption
  <2>. QED
    BY <2>1, <2>2 DEF SuiteOf
<1>. QED
  BY <1>1, <1>2

(* What is true of Main, and of a suite's children if of the suite, is     *)
(* true of all suites.                                                     *)
LEMMA TreeInduction ==
  ASSUME NEW S \in SUBSET Suites, Main \in S,
         \A p \in S : \A c \in DOMAIN Children[p] : Children[p][c] \in S
  PROVE  \A s \in Suites : s \in S
BY BelowMainAssumption

(* The full names of the suites. *)
LEMMA PathFacts ==
  /\ Path[Main] = Name[Main] /\ Path[Main] \in Seq(Pieces)
  /\ \A p \in Suites : \A c \in DOMAIN Children[p] :
       Path[Children[p][c]] = Path[p] \o Name[Children[p][c]]
  /\ \A s \in Suites : Path[s] \in Seq(Pieces)
<1>. DEFINE V == Seq(Pieces)
            Below(h) == [s \in Suites |-> IF s = Main THEN Name[s] ELSE h[Parent(s)] \o Name[s]]
            P(h) == h = Below(h)
<1>1. Main \in Suites /\ \A s \in Suites : Name[s] \in V
  BY TreeAssumption, NameAssumption
<1>2. PICK nowhere : nowhere \notin Suites
  BY NoSetContainsEverything
<1>. DEFINE up == [s \in Suites |-> IF s = Main THEN nowhere ELSE Parent(s)]
            base == [s \in Suites |-> Name[s]]
            step == [w \in Suites \X V |-> w[2] \o Name[w[1]]]
<1>3. /\ up[Main] \notin Suites
      /\ \A p \in Suites : \A c \in DOMAIN Children[p] : up[Children[p][c]] = p
      /\ \A s \in Suites : s # Main => up[s] = Parent(s)
  BY <1>1, <1>2, PlaceFacts
<1>4. base \in [Suites -> V] /\ step \in [Suites \X V -> V]
  BY <1>1, ConcatProperties
<1>5. /\ \A s \in Suites : base[s] = Name[s]
      /\ \A s \in Suites : \A v \in V : step[<<s, v>>] = v \o Name[s]
  OBVIOUS
<1>. HIDE DEF up, base, step
<1>6. ASSUME NEW T \in SUBSET Suites, \A s \in Suites : (up[s] \in Suites => up[s] \in T) => s \in T
      PROVE  T = Suites
  <2>1. Main \in T
    BY <1>1, <1>3, <1>6
  <2>2. \A p \in T : \A c \in DOMAIN Children[p] : Children[p][c] \in T
    BY <1>3, <1>6, PlaceFacts
  <2>. QED
    BY <2>1, <2>2, TreeInduction
<1>7. Rooted(Suites, up)
  BY <1>6 DEF Rooted
<1>8. \A s \in Suites : s # Main => Parent(s) \in Suites
  <2>. DEFINE T == {s \in Suites : s # Main => Parent(s) \in Suites}
  <2>1. Main \in T /\ T \in SUBSET Suites
    BY <1>1
  <2>2. \A p \in T : \A c \in DOMAIN Children[p] : Children[p][c] \in T
    BY PlaceFacts
  <2>. HIDE DEF T
  <2>3. \A s \in Suites : s \in T
    BY <2>1, <2>2, TreeInduction
  <2>. QED
    BY <2>3 DEF T
<1>. HIDE DEF V
<1>9. PICK f \in [Suites -> V] : \A s \in Suites :
         f[s] = IF up[s] \in Suites THEN step[<<s, f[up[s]]>>] ELSE base[s]
  <2>1. \E f : Descends(f, Suites, up, V, base, step)
    BY <1>4, <1>7, TreeRecursion
  <2>. QED
    BY <2>1 DEF Descends
<1>10. \A s \in Suites : f[s] = IF s = Main THEN Name[s] ELSE f[Parent(s)] \o Name[s]
  BY <1>3, <1>5, <1>8, <1>9
<1>11. P(f)
  BY <1>9, <1>10
<1>12. Path = CHOOSE h : P(h)
  BY DEF Path
<1>. HIDE DEF P
<1>13. P(Path)
  BY <1>11, <1>12
<1>14. \A s \in Suites : Path[s] = IF s = Main THEN Name[s] ELSE Path[Parent(s)] \o Name[s]
  BY <1>13 DEF P
<1>15. Path[Main] = Name[Main] /\ \A p \in Suites : \A c \in DOMAIN Children[p] :
         Path[Children[p][c]] = Path[p] \o Name[Children[p][c]]
  BY <1>1, <1>14, PlaceFacts
<1>16. \A s \in Suites : Path[s] \in V
  <2>. DEFINE T == {s \in Suites : Path[s] \in V}
  <2>1. Main \in T /\ T \in SUBSET Suites
    BY <1>1, <1>15
  <2>2. ASSUME NEW p \in T, NEW c \in DOMAIN Children[p]
        PROVE  Children[p][c] \in T
    <3>. DEFINE s == Children[p][c]
    <3>1. s \in Suites /\ Path[s] = Path[p] \o Name[s] /\ Path[p] \in V /\ Name[s] \in V
      BY <1>1, <1>15, PlaceFacts
    <3>2. Path[s] \in V
      BY <3>1, ConcatProperties DEF V
    <3>. QED
      BY <3>1, <3>2
  <2>. HIDE DEF T
  <2>3. \A s \in Suites : s \in T
    BY <2>1, <2>2, TreeInduction
  <2>. QED
    BY <2>3 DEF T
<1>. QED
  BY <1>1, <1>15, <1>16 DEF V

-----------------------------------------------------------------------------
(* What the steps do to the walk.                                          *)

LEMMA SameDue ==
  ASSUME test_prefix' = test_prefix
  PROVE  /\ \A n : Skipped(n)' <=> Skipped(n)
         /\ \A s, t : Due(s, t)' = Due(s, t)
<1>1. \A n : Skipped(n)' <=> Skipped(n)
  BY DEF Skipped
<1>. QED
  BY <1>1 DEF Due

(* How often a test has run, after one more. *)
LEMMA TimesFacts ==
  ASSUME executed \in Seq(Tests)
  PROVE  /\ \A t : Times(t) \in Nat
         /\ executed' = executed => \A t : Times(t)' = Times(t)
         /\ \A u \in Tests : executed' = Append(executed, u) =>
              \A t : Times(t)' = IF t = u THEN Times(t) + 1 ELSE Times(t)
<1>. DEFINE n == Len(executed)
            Of(t) == {j \in 1 .. n : executed[j] = t}
<1>1. n \in Nat
  BY LenProperties
<1>2. \A t : IsFiniteSet(Of(t)) /\ Times(t) = Cardinality(Of(t)) /\ Times(t) \in Nat
  <2>1. IsFiniteSet(1 .. n)
    BY <1>1, FS_Interval
  <2>2. \A t : IsFiniteSet(Of(t))
    BY <2>1, FS_Subset
  <2>. QED
    BY <2>2, FS_CardinalityType DEF Times
<1>3. ASSUME NEW u \in Tests, executed' = Append(executed, u), NEW t
      PROVE  Times(t)' = IF t = u THEN Times(t) + 1 ELSE Times(t)
  <2>1. Len(executed') = n + 1 /\ executed'[n + 1] = u /\ \A j \in 1 .. n : executed'[j] = executed[j]
    BY <1>3, AppendProperties
  <2>2. Times(t)' = Cardinality({j \in 1 .. n + 1 : executed'[j] = t})
    BY <2>1 DEF Times
  <2>3. \A j : j \in 1 .. n + 1 <=> j \in 1 .. n \/ j = n + 1
    BY <1>1
  <2>4. CASE t = u
    <3>1. {j \in 1 .. n + 1 : executed'[j] = t} = Of(t) \cup {n + 1}
      BY <2>1, <2>3, <2>4
    <3>2. n + 1 \notin Of(t)
      BY <1>1
    <3>. HIDE DEF Of
    <3>3. Cardinality(Of(t) \cup {n + 1}) = Cardinality(Of(t)) + 1
      BY <1>2, <3>2, FS_AddElement
    <3>. QED
      BY <1>2, <2>2, <2>4, <3>1, <3>3
  <2>5. CASE t # u
    <3>1. {j \in 1 .. n + 1 : executed'[j] = t} = Of(t)
      BY <2>1, <2>3, <2>5
    <3>. QED
      BY <1>2, <2>2, <2>5, <3>1
  <2>. QED
    BY <2>4, <2>5
<1>4. executed' = executed => \A t : Times(t)' = Times(t)
  BY DEF Times
<1>. QED
  BY <1>2, <1>3, <1>4

(* The innermost activation moves on, to the same child: the suites that   *)
(* were left and those on the way stay.                                    *)
LEMMA MoveFacts ==
  ASSUME TypeOK, ChainInv, calls # <<>>, test_prefix' = test_prefix,
         NEW left \in SUBSET Suites, LeftInv(left),
         NEW f \in Activation, SetTop(f),
         f.suite = Top.suite, f.prefix = Top.prefix, f.child = Top.child
  PROVE  /\ ChainInv' /\ LeftInv(left)'
         /\ Len(calls') = Len(calls) /\ calls'[Len(calls)] = f
         /\ \A d \in 1 .. Len(calls) : d # Len(calls) => calls'[d] = calls[d]
         /\ \A s : OnStack(s)' <=> OnStack(s)
<1>. DEFINE n == Len(calls)
<1>1. calls \in Seq(Activation) /\ n \in Nat /\ n >= 1 /\ n \in 1 .. n /\ 1 \in 1 .. n
  BY TopFacts DEF TypeOK
<1>2. /\ Len(calls') = n /\ calls' # <<>>
      /\ calls'[n] = f
      /\ \A d \in 1 .. n : d # n => calls'[d] = calls[d]
  BY <1>1, SetTopFacts DEF SetTop
<1>3. \A d \in 1 .. n :
        /\ calls'[d].suite = calls[d].suite
        /\ calls'[d].prefix = calls[d].prefix
        /\ calls'[d].child = calls[d].child
  BY <1>2 DEF Top
<1>4. \A s : OnStack(s)' <=> OnStack(s)
  BY <1>2, <1>3 DEF OnStack
<1>5. ChainInv'
  <2>1. \A d \in 1 .. n : d < n => d + 1 \in 1 .. n
    BY <1>1
  <2>2. \A d \in 1 .. n : d < n =>
          calls'[d + 1].suite = Children[calls'[d].suite][calls'[d].child - 1]
    BY <1>3, <2>1 DEF ChainInv
  <2>. QED
    BY <1>1, <1>2, <1>3, <2>2 DEF ChainInv
<1>6. LeftInv(left)'
  <2>1. \A s \in left : ~OnStack(s)'
    BY <1>4 DEF LeftInv
  <2>2. \A s \in left : ~Skipped(Path[s])' =>
          \A c \in DOMAIN Children[s] : Children[s][c] \in left
    BY SameDue DEF LeftInv
  <2>3. \A d \in 1 .. n : \A c \in DOMAIN Children[calls'[d].suite] :
          Children[calls'[d].suite][c] \in left
            <=> c < calls'[d].child /\ (d < n => c # calls'[d].child - 1)
    BY <1>3 DEF LeftInv
  <2>4. \A p \in Suites : \A c \in DOMAIN Children[p] :
          Children[p][c] \in left => p \in left \/ OnStack(p)'
    BY <1>4 DEF LeftInv
  <2>. QED
    BY <1>2, <2>1, <2>2, <2>3, <2>4 DEF LeftInv
<1>. QED
  BY <1>2, <1>4, <1>5, <1>6

(* ... and with that what has run, if it is right for the moved one.       *)
LEMMA MoveInv ==
  ASSUME TypeOK, ChainInv, calls # <<>>, test_prefix' = test_prefix, test_prefix \in Prefixes,
         NEW left \in SUBSET Suites, LeftInv(left), RunInv(left),
         NEW f \in Activation, SetTop(f),
         f.suite = Top.suite, f.prefix = Top.prefix, f.child = Top.child,
         \A s \in Suites : \A j \in DOMAIN TestsOf[s] :
           Times(TestsOf[s][j])' =
             IF s # Top.suite THEN Times(TestsOf[s][j])
             ELSE IF j <= Passed(f) THEN Due(s, TestsOf[s][j]) ELSE 0
  PROVE  WalkInv'
<1>. DEFINE n == Len(calls)
<1>1. /\ ChainInv' /\ LeftInv(left)'
      /\ Len(calls') = n /\ calls'[n] = f
      /\ \A d \in 1 .. n : d # n => calls'[d] = calls[d]
      /\ \A s : OnStack(s)' <=> OnStack(s)
  BY MoveFacts
<1>2. n \in Nat /\ n >= 1 /\ n \in 1 .. n /\ Top = calls[n] /\ Top.suite \in Suites
  BY TopFacts, SuiteFacts DEF Top
<1>3. OnStack(Top.suite) /\ Top.suite \notin left
  BY <1>2 DEF OnStack, LeftInv
<1>4. ASSUME NEW s \in Suites, NEW j \in DOMAIN TestsOf[s]
      PROVE  /\ s \in left => Times(TestsOf[s][j])' = Due(s, TestsOf[s][j])'
             /\ s \notin left /\ ~OnStack(s)' => Times(TestsOf[s][j])' = 0
             /\ \A d \in 1 .. n : calls'[d].suite = s =>
                  Times(TestsOf[s][j])' =
                    IF j <= Passed(calls'[d]) THEN Due(s, TestsOf[s][j])' ELSE 0
  <2>. DEFINE t == TestsOf[s][j]
  <2>1. Due(s, t)' = Due(s, t)
    BY SameDue
  <2>2. /\ s \in left => Times(t) = Due(s, t)
        /\ s \notin left /\ ~OnStack(s) => Times(t) = 0
        /\ \A d \in 1 .. n : calls[d].suite = s =>
             Times(t) = IF j <= Passed(calls[d]) THEN Due(s, t) ELSE 0
    BY DEF RunInv
  <2>3. Times(t)' = IF s # Top.suite THEN Times(t)
                    ELSE IF j <= Passed(f) THEN Due(s, t) ELSE 0
    OBVIOUS
  <2>. HIDE DEF t
  <2>4. \A d \in 1 .. n : calls[d].suite = Top.suite => d = n
    BY <1>2 DEF ChainInv
  <2>5. \A d \in 1 .. n : calls'[d].suite = s =>
          Times(t)' = IF j <= Passed(calls'[d]) THEN Due(s, t) ELSE 0
    BY <1>1, <2>2, <2>3, <2>4
  <2>6. s \in left \/ ~OnStack(s) => s # Top.suite
    BY <1>3
  <2>. QED
    BY <1>1, <2>1, <2>2, <2>3, <2>5, <2>6 DEF t
<1>5. RunInv(left)'
  BY <1>1, <1>4 DEF RunInv, Passed
<1>. QED
  BY <1>1, <1>5 DEF WalkInv

(* The walk begins at Main, with nothing left. *)
LEMMA InitWalk == Init => WalkInv
<1>. SUFFICES ASSUME Init PROVE WalkInv
  OBVIOUS
<1>. DEFINE c == Call(Main, <<>>)
<1>1. c.suite = Main /\ c.at = "enter" /\ c.test = 1 /\ c.child = 1 /\ Main \in Suites
  BY TreeAssumption DEF Call
<1>2. c.prefix = Path[Main]
  <2>1. Name[Main] \in Seq(Pieces)
    BY <1>1, NameAssumption
  <2>2. <<>> \o Name[Main] = Name[Main]
    BY <2>1, ConcatEmptySeq
  <2>3. c.prefix = <<>> \o Name[Main]
    BY DEF Call
  <2>. QED
    BY <2>2, <2>3, PathFacts
<1>. HIDE DEF c
<1>3. calls = <<c>> /\ Len(calls) = 1 /\ calls[1] = c /\ calls # <<>>
  BY DEF Init, c
<1>4. ChainInv
  BY <1>1, <1>2, <1>3 DEF ChainInv
<1>5. LeftInv({})
  <2>1. \A d \in 1 .. 1 : \A j \in DOMAIN Children[calls[d].suite] : ~(j < calls[d].child)
    <3>1. Children[Main] \in Seq(Suites)
      BY <1>1, TreeAssumption
    <3>2. \A j \in DOMAIN Children[Main] : j \in Nat /\ j >= 1
      BY <3>1
    <3>. QED
      BY <1>1, <1>3, <3>2
  <2>. QED
    BY <1>3, <2>1 DEF LeftInv
<1>6. RunInv({})
  <2>1. \A t : Times(t) = 0
    <3>1. \A t : {j \in 1 .. Len(executed) : executed[j] = t} = {}
      BY DEF Init
    <3>. QED
      BY <3>1, FS_EmptySet DEF Times
  <2>2. \A j \in DOMAIN TestsOf[Main] : ~(j <= Passed(c))
    <3>1. TestsOf[Main] \in Seq(Tests)
      BY <1>1, TreeAssumption
    <3>2. \A j \in DOMAIN TestsOf[Main] : j \in Nat /\ j >= 1
      BY <3>1
    <3>. QED
      BY <1>1, <3>2 DEF Passed
  <2>. QED
    BY <1>1, <1>3, <2>1, <2>2 DEF RunInv
<1>7. test_prefix \in Prefixes
  BY DEF Init
<1>. QED
  BY <1>4, <1>5, <1>6, <1>7 DEF WalkInv

(* A step that passes no test leaves what has run as it is. *)
LEMMA SamePlaceWalk ==
  ASSUME TypeOK, WalkInv, calls # <<>>, test_prefix' = test_prefix, executed' = executed,
         NEW f \in Activation, SetTop(f),
         f.suite = Top.suite, f.prefix = Top.prefix, f.child = Top.child,
         Passed(f) = Passed(Top)
  PROVE  WalkInv'
<1>1. PICK left \in SUBSET Suites : LeftInv(left) /\ RunInv(left)
  BY DEF WalkInv
<1>2. \A t : Times(t)' = Times(t)
  BY TimesFacts DEF TypeOK
<1>3. Top = calls[Len(calls)] /\ Len(calls) \in 1 .. Len(calls)
  BY TopFacts DEF Top
<1>4. \A s \in Suites : \A j \in DOMAIN TestsOf[s] :
        Times(TestsOf[s][j])' =
          IF s # Top.suite THEN Times(TestsOf[s][j])
          ELSE IF j <= Passed(f) THEN Due(s, TestsOf[s][j]) ELSE 0
  BY <1>1, <1>2, <1>3 DEF RunInv
<1>. QED
  BY <1>1, <1>4, MoveInv DEF WalkInv

(* The step that passes the next test has run it as often as it is due.    *)
LEMMA PassWalk ==
  ASSUME TypeOK, WalkInv, calls # <<>>, test_prefix' = test_prefix,
         Top.at = "test",
         NEW f \in Activation, SetTop(f),
         f.suite = Top.suite, f.prefix = Top.prefix, f.child = Top.child,
         Passed(f) = Top.test,
         NEW t, t = Test,
         \A u : Times(u)' = IF u = t THEN Times(t) + Due(Top.suite, t) ELSE Times(u)
  PROVE  WalkInv'
<1>1. PICK left \in SUBSET Suites : LeftInv(left) /\ RunInv(left)
  BY DEF WalkInv
<1>2. /\ Top = calls[Len(calls)] /\ Len(calls) \in 1 .. Len(calls)
      /\ Top.suite \in Suites /\ Top.test \in DOMAIN TestsOf[Top.suite]
      /\ Top.test \in Nat
      /\ t = TestsOf[Top.suite][Top.test]
  <2>1. TestsOf[Top.suite] \in Seq(Tests)
    BY SuiteFacts, TreeAssumption
  <2>. QED
    BY <2>1, TopFacts, SuiteFacts DEF Top, Test
<1>3. Passed(Top) = Top.test - 1
  BY DEF Passed
<1>4. ASSUME NEW s \in Suites, NEW j \in DOMAIN TestsOf[s]
      PROVE  Times(TestsOf[s][j])' =
               IF s # Top.suite THEN Times(TestsOf[s][j])
               ELSE IF j <= Passed(f) THEN Due(s, TestsOf[s][j]) ELSE 0
  <2>. DEFINE u == TestsOf[s][j]
  <2>1. Times(u)' = IF u = t THEN Times(t) + Due(Top.suite, t) ELSE Times(u)
    OBVIOUS
  <2>2. u = t <=> s = Top.suite /\ j = Top.test
    BY <1>2, PlaceAssumption
  <2>3. s = Top.suite => Times(u) = IF j <= Top.test - 1 THEN Due(s, u) ELSE 0
    BY <1>1, <1>2, <1>3 DEF RunInv
  <2>4. j \in Nat
    <3>1. TestsOf[s] \in Seq(Tests)
      BY TreeAssumption
    <3>. QED
      BY <3>1
  <2>5. Due(s, u) \in Nat
    BY DEF Due
  <2>. HIDE DEF u
  <2>6. CASE s = Top.suite /\ j = Top.test
    <3>1. Times(u) = 0
      BY <1>2, <2>3, <2>6
    <3>2. u = t
      BY <2>2, <2>6
    <3>. QED
      BY <2>1, <2>5, <2>6, <3>1, <3>2, <1>2 DEF u
  <2>7. CASE ~(s = Top.suite /\ j = Top.test)
    <3>1. Times(u)' = Times(u)
      BY <2>1, <2>2, <2>7
    <3>2. s = Top.suite => (j <= Top.test - 1 <=> j <= Top.test)
      BY <1>2, <2>4, <2>7
    <3>. QED
      BY <2>3, <3>1, <3>2 DEF u
  <2>. QED
    BY <2>6, <2>7
<1>. QED
  BY <1>1, <1>4, MoveInv DEF WalkInv

LEMMA HookWalk == TInv /\ WalkInv /\ (SetupSuite \/ TeardownSuite) => WalkInv'
<1>. SUFFICES ASSUME TInv, WalkInv, SetupSuite \/ TeardownSuite PROVE WalkInv'
  OBVIOUS
<1>. USE DEF TInv, At
<1>1. calls # <<>> /\ test_prefix' = test_prefix /\ executed' = executed
  BY DEF SetupSuite, TeardownSuite
<1>2. Top \in Activation /\ Top.test \in Nat /\ Top.test + 1 \in Nat
  BY <1>1, TopFacts DEF Activation
<1>3. CASE SetupSuite
  <2>. DEFINE f == [Top EXCEPT !.at = "test"]
  <2>1. /\ f \in Activation /\ f.suite = Top.suite /\ f.prefix = Top.prefix
        /\ f.child = Top.child /\ f.at = "test" /\ f.test = Top.test
    BY <1>2 DEF Activation
  <2>2. SetTop(f) /\ Top.at = "setup"
    BY <1>3 DEF SetupSuite
  <2>. HIDE DEF f
  <2>3. Passed(f) = Passed(Top)
    BY <2>1, <2>2 DEF Passed
  <2>. QED
    BY <1>1, <2>1, <2>2, <2>3, SamePlaceWalk
<1>4. CASE TeardownSuite
  <2>. DEFINE f == [Top EXCEPT !.at = "setup", !.test = @ + 1]
  <2>1. /\ f \in Activation /\ f.suite = Top.suite /\ f.prefix = Top.prefix
        /\ f.child = Top.child /\ f.at = "setup" /\ f.test = Top.test + 1
    BY <1>2 DEF Activation
  <2>2. SetTop(f) /\ Top.at = "teardown"
    BY <1>4 DEF TeardownSuite
  <2>. HIDE DEF f
  <2>3. Passed(f) = Passed(Top)
    BY <1>2, <2>1, <2>2 DEF Passed
  <2>. QED
    BY <1>1, <2>1, <2>2, <2>3, SamePlaceWalk
<1>. QED
  BY <1>3, <1>4

(* The test of the innermost activation, and its full name. *)
LEMMA TestFacts ==
  ASSUME TypeOK, WalkInv, calls # <<>>, Top.at = "test"
  PROVE  /\ Test \in Tests /\ Top.prefix = Path[Top.suite]
         /\ Due(Top.suite, Test) = IF Skipped(FullName) THEN 0 ELSE 1
<1>1. Top.test \in 1 .. Len(TestsOf[Top.suite])
  BY TopFacts, SuiteFacts
<1>2. Test \in Tests
  BY <1>1, SuiteFacts DEF Test
<1>3. Top.prefix = Path[Top.suite]
  BY TopFacts DEF Top, WalkInv, ChainInv
<1>. QED
  BY <1>2, <1>3 DEF Due, FullName

LEMMA SkipTestWalk == TInv /\ WalkInv /\ SkipTest => WalkInv'
<1>. SUFFICES ASSUME TInv, WalkInv, SkipTest PROVE WalkInv'
  OBVIOUS
<1>. USE DEF TInv, At
<1>1. calls # <<>> /\ Top.at = "test" /\ test_prefix' = test_prefix /\ executed' = executed
  BY DEF SkipTest, ghosts
<1>. DEFINE f == [Top EXCEPT !.at = "teardown"]
<1>2. Top \in Activation
  BY <1>1, TopFacts
<1>3. /\ f \in Activation /\ f.suite = Top.suite /\ f.prefix = Top.prefix
      /\ f.child = Top.child /\ f.at = "teardown" /\ f.test = Top.test
  BY <1>2 DEF Activation
<1>4. SetTop(f)
  BY DEF SkipTest
<1>. HIDE DEF f
<1>5. Passed(f) = Top.test
  BY <1>3 DEF Passed
<1>6. PICK t : t = Test
  OBVIOUS
<1>7. Due(Top.suite, t) = 0
  BY <1>1, <1>6, TestFacts DEF SkipTest
<1>8. \A u : Times(u)' = Times(u) /\ Times(u) + 0 = Times(u)
  BY <1>1, TimesFacts DEF TypeOK
<1>9. \A u : Times(u)' = IF u = t THEN Times(t) + Due(Top.suite, t) ELSE Times(u)
  BY <1>7, <1>8
<1>. QED
  BY <1>1, <1>3, <1>4, <1>5, <1>6, <1>9, PassWalk

LEMMA ExecuteTestWalk == TInv /\ WalkInv /\ ExecuteTest => WalkInv'
<1>. SUFFICES ASSUME TInv, WalkInv, ExecuteTest PROVE WalkInv'
  OBVIOUS
<1>. USE DEF TInv, At
<1>1. /\ calls # <<>> /\ Top.at = "test" /\ test_prefix' = test_prefix
      /\ executed' = Append(executed, Test)
  BY DEF ExecuteTest
<1>. DEFINE ok == assert_fail_count' = assert_fail_count
            f == [Top EXCEPT !.at = "teardown", !.ok = @ /\ ok]
<1>2. Top \in Activation
  BY <1>1, TopFacts
<1>3. /\ f \in Activation /\ f.suite = Top.suite /\ f.prefix = Top.prefix
      /\ f.child = Top.child /\ f.at = "teardown" /\ f.test = Top.test
  BY <1>2 DEF Activation
<1>4. SetTop(f)
  BY DEF ExecuteTest
<1>. HIDE DEF f
<1>5. Passed(f) = Top.test
  BY <1>3 DEF Passed
<1>6. PICK t : t = Test
  OBVIOUS
<1>7. Due(Top.suite, t) = 1 /\ t \in Tests
  BY <1>1, <1>6, TestFacts DEF ExecuteTest
<1>8. executed' = Append(executed, t)
  BY <1>1, <1>6
<1>9. \A u : Times(u)' = IF u = t THEN Times(u) + 1 ELSE Times(u)
  BY <1>7, <1>8, TimesFacts DEF TypeOK
<1>10. \A u : Times(u)' = IF u = t THEN Times(t) + Due(Top.suite, t) ELSE Times(u)
  BY <1>7, <1>9
<1>. QED
  BY <1>1, <1>3, <1>4, <1>5, <1>6, <1>10, PassWalk

(* Calling a child: it was not left before, nor anything below it.         *)
LEMMA ExecuteChildWalk == TInv /\ WalkInv /\ ExecuteChild => WalkInv'
<1>. SUFFICES ASSUME TInv, WalkInv, ExecuteChild PROVE WalkInv'
  OBVIOUS
<1>. USE DEF TInv, At
<1>. DEFINE n == Len(calls)
            p == Top.suite
            k == Top.child
            s == Children[p][k]
            g == [calls[n] EXCEPT !.child = k + 1]
            new == Call(s, Top.prefix)
<1>1. /\ calls # <<>> /\ Top.at = "setup" /\ test_prefix' = test_prefix
      /\ executed' = executed /\ k <= Len(Children[p])
  BY DEF ExecuteChild, TestsDone, ghosts
<1>2. /\ calls \in Seq(Activation) /\ n \in Nat /\ n >= 1 /\ n \in 1 .. n /\ 1 \in 1 .. n
      /\ Top = calls[n] /\ Top \in Activation /\ p \in Suites /\ k \in Nat
      /\ Top.prefix \in Seq(Pieces)
  BY <1>1, TopFacts, SuiteFacts DEF TypeOK, Top
<1>3. k \in DOMAIN Children[p] /\ Children[p] \in Seq(Suites)
  BY <1>1, <1>2, TopFacts, TreeAssumption
<1>4. s \in Suites /\ s # Main /\ Parent(s) = p /\ Path[s] = Path[p] \o Name[s]
  BY <1>2, <1>3, PlaceFacts, PathFacts
<1>5. PICK left \in SUBSET Suites : LeftInv(left) /\ RunInv(left)
  BY DEF WalkInv
<1>6. /\ new \in Activation /\ new.suite = s /\ new.at = "enter"
      /\ new.test = 1 /\ new.child = 1
  BY <1>2, <1>4, CallFacts
<1>7. new.prefix = Path[s]
  <2>1. new.prefix = Top.prefix \o Name[s]
    BY DEF Call
  <2>2. Top.prefix = Path[p]
    BY <1>2 DEF WalkInv, ChainInv
  <2>. QED
    BY <1>4, <2>1, <2>2
<1>8. /\ g \in Activation /\ g.suite = p /\ g.prefix = Top.prefix
      /\ g.at = Top.at /\ g.test = Top.test /\ g.child = k + 1
  <2>1. ASSUME NEW a \in Activation, NEW i \in Nat
        PROVE  LET b == [a EXCEPT !.child = i] IN
               /\ b \in Activation /\ b.suite = a.suite /\ b.prefix = a.prefix
               /\ b.at = a.at /\ b.test = a.test /\ b.child = i
    BY DEF Activation
  <2>2. k + 1 \in Nat /\ g = [Top EXCEPT !.child = k + 1]
    BY <1>2
  <2>. HIDE DEF g, k
  <2>. QED
    BY <1>2, <2>1, <2>2
<1>9. /\ Len(calls') = n + 1 /\ calls' # <<>> /\ calls'[n + 1] = new /\ calls'[n] = g
      /\ \A d \in 1 .. n : d # n => calls'[d] = calls[d]
  <2>1. calls' = Append([calls EXCEPT ![n] = g], new)
    BY <1>2 DEF ExecuteChild
  <2>. HIDE DEF g, new
  <2>. DEFINE r == [calls EXCEPT ![n] = g]
  <2>2. /\ r \in Seq(Activation) /\ Len(r) = n /\ r[n] = g
        /\ \A d \in 1 .. n : d # n => r[d] = calls[d]
    BY <1>1, <1>2, <1>8, SetTopFacts
  <2>. HIDE DEF r
  <2>3. /\ Append(r, new) \in Seq(Activation) /\ Len(Append(r, new)) = n + 1
        /\ Append(r, new)[n + 1] = new /\ \A d \in 1 .. n : Append(r, new)[d] = r[d]
    BY <1>6, <2>2, AppendProperties
  <2>4. Append(r, new) # <<>> /\ calls' = Append(r, new)
    BY <1>2, <2>1, <2>3 DEF r
  <2>. QED
    BY <1>2, <2>2, <2>3, <2>4
<1>. HIDE DEF g, new
<1>10. \A d \in 1 .. n : /\ calls'[d].suite = calls[d].suite
                         /\ calls'[d].prefix = calls[d].prefix
                         /\ calls'[d].at = calls[d].at
                         /\ calls'[d].test = calls[d].test
                         /\ d # n => calls'[d].child = calls[d].child
  BY <1>2, <1>8, <1>9
<1>11. \A d \in 1 .. n + 1 : d = n + 1 \/ d \in 1 .. n
  BY <1>2
<1>12. \A d \in 1 .. n : d \in 1 .. n + 1 /\ (d < n => d + 1 \in 1 .. n) /\ d < n + 1
                         /\ (d < n <=> d # n) /\ d # n + 1
  BY <1>2
<1>13. ~OnStack(s)
  <2>1. SUFFICES ASSUME NEW d \in 1 .. n, calls[d].suite = s
                 PROVE  FALSE
    BY DEF OnStack
  <2>2. d # 1
    BY <1>1, <1>4, <2>1 DEF WalkInv, ChainInv
  <2>3. d - 1 \in 1 .. n /\ d - 1 < n /\ (d - 1) + 1 = d /\ d - 1 # n
    BY <1>2, <2>2
  <2>. DEFINE q == calls[d - 1].suite
              c == calls[d - 1].child - 1
  <2>4. s = Children[q][c]
    BY <2>1, <2>3 DEF WalkInv, ChainInv
  <2>5. q \in Suites /\ c \in DOMAIN Children[q]
    <3>1. calls[d - 1] \in Activation
      BY <1>2, <2>3, ElementOfSeq
    <3>2. q \in Suites /\ calls[d - 1].child \in Nat
      BY <3>1 DEF Activation
    <3>3. Children[q] \in Seq(Suites)
      BY <3>2, TreeAssumption
    <3>4. calls[d - 1].child > 1 /\ calls[d - 1].child \in 1 .. Len(Children[q]) + 1
      BY <2>3 DEF WalkInv, ChainInv, TypeOK
    <3>5. Len(Children[q]) \in Nat
      BY <3>3, LenProperties
    <3>6. c \in 1 .. Len(Children[q])
      BY <3>2, <3>4, <3>5
    <3>. QED
      BY <3>2, <3>3, <3>6
  <2>6. q = p
    BY <1>4, <2>4, <2>5, PlaceFacts
  <2>7. d - 1 = n
    BY <1>2, <2>3, <2>6 DEF WalkInv, ChainInv
  <2>. QED
    BY <2>3, <2>7
<1>14. s \notin left
  <2>1. ~(k < k)
    BY <1>2
  <2>. QED
    BY <1>2, <1>3, <1>5, <2>1 DEF LeftInv
<1>15. \A c \in DOMAIN Children[s] : Children[s][c] \notin left
  BY <1>4, <1>5, <1>13, <1>14 DEF LeftInv
<1>16. \A u : OnStack(u)' <=> OnStack(u) \/ u = s
  <2>1. \A u : OnStack(u)' <=> \E d \in 1 .. n + 1 : calls'[d].suite = u
    BY <1>9 DEF OnStack
  <2>2. n + 1 \in 1 .. n + 1
    BY <1>2
  <2>. QED
    BY <1>6, <1>9, <1>10, <1>11, <1>12, <2>1, <2>2 DEF OnStack
<1>. HIDE DEF s
<1>17. ChainInv'
  <2>1. \A d \in 1 .. n + 1 : calls'[d].prefix = Path[calls'[d].suite]
    BY <1>6, <1>7, <1>9, <1>10, <1>11 DEF WalkInv, ChainInv
  <2>2. calls'[1].suite = Main
    BY <1>1, <1>2, <1>10 DEF WalkInv, ChainInv
  <2>3. ASSUME NEW d \in 1 .. n + 1, d < n + 1
        PROVE  /\ calls'[d].child > 1
               /\ calls'[d + 1].suite = Children[calls'[d].suite][calls'[d].child - 1]
    <3>1. d \in 1 .. n
      BY <1>2, <2>3
    <3>2. CASE d = n
      <4>1. k + 1 > 1 /\ (k + 1) - 1 = k
        BY <1>2, <1>3
      <4>. QED
        BY <1>6, <1>8, <1>9, <3>2, <4>1 DEF s
    <3>3. CASE d # n
      <4>1. d < n /\ d + 1 \in 1 .. n
        BY <1>12, <3>1, <3>3
      <4>2. /\ calls[d].child > 1
            /\ calls[d + 1].suite = Children[calls[d].suite][calls[d].child - 1]
        BY <3>1, <4>1 DEF WalkInv, ChainInv
      <4>. QED
        BY <1>10, <3>1, <3>3, <4>1, <4>2
    <3>. QED
      BY <3>2, <3>3
  <2>4. ASSUME NEW d \in 1 .. n + 1, NEW e \in 1 .. n + 1, calls'[d].suite = calls'[e].suite
        PROVE  d = e
    <3>1. \A b \in 1 .. n : calls[b].suite # s
      BY <1>13 DEF OnStack
    <3>. QED
      BY <1>6, <1>9, <1>10, <1>11, <2>4, <3>1 DEF WalkInv, ChainInv
  <2>. QED
    BY <1>9, <2>1, <2>2, <2>3, <2>4 DEF ChainInv
<1>18. LeftInv(left)'
  <2>1. \A u \in left : ~OnStack(u)'
    BY <1>5, <1>14, <1>16 DEF LeftInv
  <2>2. \A u \in left : ~Skipped(Path[u])' =>
          \A c \in DOMAIN Children[u] : Children[u][c] \in left
    BY <1>1, <1>5, SameDue DEF LeftInv
  <2>3. ASSUME NEW d \in 1 .. n + 1, NEW c \in DOMAIN Children[calls'[d].suite]
        PROVE  Children[calls'[d].suite][c] \in left
                 <=> c < calls'[d].child /\ (d < n + 1 => c # calls'[d].child - 1)
    <3>1. CASE d = n + 1
      <4>1. calls'[d].suite = s /\ calls'[d].child = 1
        BY <1>6, <1>9, <3>1
      <4>2. ~(c < 1)
        <5>1. Children[s] \in Seq(Suites)
          BY <1>4, TreeAssumption
        <5>2. c \in 1 .. Len(Children[s])
          BY <2>3, <4>1, <5>1
        <5>. QED
          BY <5>2
      <4>. QED
        BY <1>15, <2>3, <4>1, <4>2
    <3>2. CASE d = n
      <4>1. calls'[d].suite = p /\ calls'[d].child = k + 1 /\ c \in DOMAIN Children[p]
        BY <1>8, <1>9, <2>3, <3>2
      <4>2. c \in Nat
        BY <1>3, <4>1
      <4>3. Children[p][c] \in left <=> c < k
        <5>1. ~(n < n)
          BY <1>2
        <5>. QED
          BY <1>2, <1>5, <4>1, <5>1 DEF LeftInv
      <4>4. c < k <=> c < k + 1 /\ c # (k + 1) - 1
        BY <1>2, <4>2
      <4>5. d < n + 1
        BY <1>2, <3>2
      <4>. QED
        BY <4>1, <4>3, <4>4, <4>5
    <3>3. CASE d \in 1 .. n /\ d # n
      <4>1. d < n /\ d < n + 1
        BY <1>12, <3>3
      <4>2. calls'[d] = calls[d]
        BY <1>9, <3>3
      <4>. QED
        BY <1>5, <2>3, <3>3, <4>1, <4>2 DEF LeftInv
    <3>. QED
      BY <1>11, <3>1, <3>2, <3>3
  <2>4. \A q \in Suites : \A c \in DOMAIN Children[q] :
          Children[q][c] \in left => q \in left \/ OnStack(q)'
    BY <1>5, <1>16 DEF LeftInv
  <2>. QED
    BY <1>9, <2>1, <2>2, <2>3, <2>4 DEF LeftInv
<1>19. RunInv(left)'
  <2>1. ASSUME NEW u \in Suites, NEW j \in DOMAIN TestsOf[u]
        PROVE  /\ u \in left => Times(TestsOf[u][j])' = Due(u, TestsOf[u][j])'
               /\ u \notin left /\ ~OnStack(u)' => Times(TestsOf[u][j])' = 0
               /\ \A d \in 1 .. n + 1 : calls'[d].suite = u =>
                    Times(TestsOf[u][j])' =
                      IF j <= Passed(calls'[d]) THEN Due(u, TestsOf[u][j])' ELSE 0
    <3>. DEFINE t == TestsOf[u][j]
    <3>1. Due(u, t)' = Due(u, t) /\ Times(t)' = Times(t)
      BY <1>1, SameDue, TimesFacts DEF TypeOK
    <3>2. /\ u \in left => Times(t) = Due(u, t)
          /\ u \notin left /\ ~OnStack(u) => Times(t) = 0
          /\ \A d \in 1 .. n : calls[d].suite = u =>
               Times(t) = IF j <= Passed(calls[d]) THEN Due(u, t) ELSE 0
      BY <1>5 DEF RunInv
    <3>3. ~(j <= Passed(new))
      <4>1. TestsOf[u] \in Seq(Tests)
        BY TreeAssumption
      <4>2. j \in Nat /\ j >= 1
        BY <2>1, <4>1
      <4>. QED
        BY <1>6, <4>2 DEF Passed
    <3>4. \A d \in 1 .. n : Passed(calls'[d]) = Passed(calls[d])
      BY <1>10 DEF Passed
    <3>. HIDE DEF t
    <3>5. \A d \in 1 .. n + 1 : calls'[d].suite = u =>
            Times(t)' = IF j <= Passed(calls'[d]) THEN Due(u, t) ELSE 0
      BY <1>6, <1>9, <1>10, <1>11, <1>13, <1>14, <3>1, <3>2, <3>3, <3>4
    <3>. QED
      BY <1>16, <3>1, <3>2, <3>5 DEF t
  <2>. QED
    BY <1>9, <2>1 DEF RunInv, Passed
<1>. QED
  BY <1>1, <1>17, <1>18, <1>19 DEF WalkInv

(* Returning: the caller goes on where it was. *)
LEMMA ReturnFacts ==
  ASSUME TypeOK, calls # <<>>, NEW ok \in BOOLEAN, Return(ok)
  PROVE  /\ Len(calls') = Len(calls) - 1
         /\ calls' = <<>> <=> Len(calls) = 1
         /\ \A d \in 1 .. Len(calls) - 1 :
              /\ calls'[d].suite = calls[d].suite
              /\ calls'[d].prefix = calls[d].prefix
              /\ calls'[d].at = calls[d].at
              /\ calls'[d].test = calls[d].test
              /\ calls'[d].child = calls[d].child
<1>. DEFINE n == Len(calls)
<1>1. calls \in Seq(Activation) /\ n \in Nat /\ n >= 1
  BY TopFacts DEF TypeOK
<1>2. CASE n = 1
  <2>1. calls' = <<>>
    BY <1>2 DEF Return
  <2>. QED
    BY <1>2, <2>1
<1>3. CASE n > 1
  <2>. DEFINE caller == calls[n - 1]
              f == [caller EXCEPT !.ok = @ /\ ok]
  <2>1. n # 1 /\ n - 1 \in 1 .. n
    <3>1. \A i \in Nat : i > 1 => i # 1 /\ i - 1 \in 1 .. i
      OBVIOUS
    <3>. HIDE DEF n
    <3>. QED
      BY <1>1, <1>3, <3>1
  <2>2. calls' = Append(SubSeq(calls, 1, n - 2), f)
    BY <2>1 DEF Return
  <2>3. caller \in Activation
    BY <1>1, <2>1, ElementOfSeq
  <2>4. /\ f \in Activation /\ f.suite = caller.suite /\ f.test = caller.test
        /\ f.child = caller.child /\ f.at = caller.at /\ f.prefix = caller.prefix
    BY <2>3 DEF Activation
  <2>. HIDE DEF f
  <2>5. /\ Len(calls') = n - 1 /\ calls' # <<>>
        /\ calls'[n - 1] = f
        /\ \A d \in 1 .. n - 2 : calls'[d] = calls[d]
    BY <1>1, <1>3, <2>2, <2>4, PopFacts
  <2>6. \A d \in 1 .. n - 1 : d = n - 1 \/ d \in 1 .. n - 2
    BY <1>1
  <2>. QED
    BY <2>1, <2>4, <2>5, <2>6
<1>4. n = 1 \/ n > 1
  <2>1. \A i \in Nat : i >= 1 => i = 1 \/ i > 1
    OBVIOUS
  <2>. QED
    BY <1>1, <2>1
<1>. QED
  BY <1>2, <1>3, <1>4

(* A suite is left: with all of its children, or skipped with everything   *)
(* below it; its tests have run as often as they are due.                  *)
LEMMA LeaveWalk ==
  ASSUME TypeOK, WalkInv, calls # <<>>, test_prefix' = test_prefix, executed' = executed,
         NEW ok \in BOOLEAN, Return(ok),
         Skipped(Path[Top.suite]) \/ Top.child > Len(Children[Top.suite]),
         \A j \in DOMAIN TestsOf[Top.suite] :
           Times(TestsOf[Top.suite][j]) = Due(Top.suite, TestsOf[Top.suite][j])
  PROVE  WalkInv'
<1>. DEFINE n == Len(calls)
            p == Top.suite
<1>1. /\ calls \in Seq(Activation) /\ n \in Nat /\ n >= 1 /\ n \in 1 .. n /\ 1 \in 1 .. n
      /\ Top = calls[n] /\ p \in Suites
  BY TopFacts, SuiteFacts DEF TypeOK, Top
<1>2. PICK left \in SUBSET Suites : LeftInv(left) /\ RunInv(left)
  BY DEF WalkInv
<1>3. PICK after \in SUBSET Suites : after = left \cup {p}
  BY <1>1
<1>4. n # 1 => 1 \in 1 .. n - 1 /\ n - 1 \in 1 .. n - 1 /\ (n - 1) + 1 = n
  <2>1. \A i \in Nat : i >= 1 =>
          (i # 1 => 1 \in 1 .. i - 1 /\ i - 1 \in 1 .. i - 1 /\ (i - 1) + 1 = i)
    OBVIOUS
  <2>. HIDE DEF n
  <2>. QED
    BY <1>1, <2>1
<1>5. /\ Len(calls') = n - 1
      /\ calls' = <<>> <=> n = 1
      /\ \A d \in 1 .. n - 1 :
           /\ calls'[d].suite = calls[d].suite
           /\ calls'[d].prefix = calls[d].prefix
           /\ calls'[d].at = calls[d].at
           /\ calls'[d].test = calls[d].test
           /\ calls'[d].child = calls[d].child
  BY ReturnFacts
<1>6. \A d \in 1 .. n - 1 : d \in 1 .. n /\ d < n /\ d # n /\ d + 1 \in 1 .. n
                            /\ (d < n - 1 => d + 1 \in 1 .. n - 1 /\ d + 1 # n)
                            /\ (~(d < n - 1) => d + 1 = n)
  BY <1>1
<1>7. \A d \in 1 .. n : d = n \/ d \in 1 .. n - 1
  BY <1>1
<1>8. ChainInv'
  <2>1. calls' # <<>> => calls'[1].suite = Main
    BY <1>5, <1>4 DEF WalkInv, ChainInv
  <2>2. ASSUME NEW d \in 1 .. n - 1, d < n - 1
        PROVE  /\ calls'[d].child > 1
               /\ calls'[d + 1].suite = Children[calls'[d].suite][calls'[d].child - 1]
    <3>1. d \in 1 .. n /\ d < n /\ d + 1 \in 1 .. n - 1
      BY <1>6, <2>2
    <3>2. /\ calls[d].child > 1
          /\ calls[d + 1].suite = Children[calls[d].suite][calls[d].child - 1]
      BY <3>1 DEF WalkInv, ChainInv
    <3>. QED
      BY <1>5, <3>1, <3>2
  <2>3. \A d, e \in 1 .. n - 1 : calls'[d].suite = calls'[e].suite => d = e
    BY <1>5, <1>6 DEF WalkInv, ChainInv
  <2>4. \A d \in 1 .. n - 1 : calls'[d].prefix = Path[calls'[d].suite]
    <3>1. \A d \in 1 .. n : calls[d].prefix = Path[calls[d].suite]
      BY DEF WalkInv, ChainInv
    <3>. QED
      BY <1>5, <1>6, <3>1
  <2>. QED
    BY <1>5, <2>1, <2>2, <2>3, <2>4 DEF ChainInv
<1>9. \A u : OnStack(u)' <=> OnStack(u) /\ u # p
  <2>1. \A u : OnStack(u)' <=> \E d \in 1 .. n - 1 : calls[d].suite = u
    BY <1>5 DEF OnStack
  <2>2. \A d \in 1 .. n - 1 : calls[d].suite # p
    BY <1>1, <1>6 DEF WalkInv, ChainInv
  <2>. QED
    BY <1>1, <1>6, <1>7, <2>1, <2>2 DEF OnStack
<1>10. \A d \in 1 .. n - 1 :
        /\ calls[d].suite \in Suites /\ Children[calls[d].suite] \in Seq(Suites)
        /\ calls[d].child \in Nat /\ calls[d].child > 1
        /\ calls[d].child - 1 \in DOMAIN Children[calls[d].suite]
        /\ calls[d + 1].suite = Children[calls[d].suite][calls[d].child - 1]
  <2>1. SUFFICES ASSUME NEW d \in 1 .. n - 1
                 PROVE  /\ calls[d].suite \in Suites /\ Children[calls[d].suite] \in Seq(Suites)
                        /\ calls[d].child \in Nat /\ calls[d].child > 1
                        /\ calls[d].child - 1 \in DOMAIN Children[calls[d].suite]
                        /\ calls[d + 1].suite = Children[calls[d].suite][calls[d].child - 1]
    OBVIOUS
  <2>2. calls[d] \in Activation
    BY <1>1, <1>6, ElementOfSeq
  <2>3. calls[d].suite \in Suites /\ calls[d].child \in Nat
    BY <2>2 DEF Activation
  <2>4. Children[calls[d].suite] \in Seq(Suites)
    BY <2>3, TreeAssumption
  <2>5. /\ calls[d].child > 1 /\ calls[d].child \in 1 .. Len(Children[calls[d].suite]) + 1
        /\ calls[d + 1].suite = Children[calls[d].suite][calls[d].child - 1]
    BY <1>6 DEF WalkInv, ChainInv, TypeOK
  <2>6. Len(Children[calls[d].suite]) \in Nat
    BY <2>4, LenProperties
  <2>7. calls[d].child - 1 \in 1 .. Len(Children[calls[d].suite])
    BY <2>3, <2>5, <2>6
  <2>. QED
    BY <2>3, <2>4, <2>5, <2>7
<1>11. \A q \in Suites : \A c \in DOMAIN Children[q] :
        Children[q][c] = p => \E d \in 1 .. n - 1 : d + 1 = n /\ calls[d].suite = q
  <2>1. SUFFICES ASSUME NEW q \in Suites, NEW c \in DOMAIN Children[q], Children[q][c] = p
                 PROVE  \E d \in 1 .. n - 1 : d + 1 = n /\ calls[d].suite = q
    OBVIOUS
  <2>2. p # Main /\ Parent(p) = q
    BY <2>1, PlaceFacts
  <2>3. n # 1
    BY <1>1, <2>2 DEF WalkInv, ChainInv
  <2>4. n - 1 \in 1 .. n - 1 /\ (n - 1) + 1 = n
    BY <1>4, <2>3
  <2>5. p = Children[calls[n - 1].suite][calls[n - 1].child - 1]
    BY <1>1, <1>10, <2>4
  <2>6. Parent(p) = calls[n - 1].suite
    BY <1>10, <2>4, <2>5, PlaceFacts
  <2>. QED
    BY <2>2, <2>4, <2>6
<1>12. LeftInv(after)'
  <2>1. \A u \in after : ~OnStack(u)'
    BY <1>3, <1>2, <1>9 DEF LeftInv
  <2>2. ASSUME NEW u \in after, ~Skipped(Path[u])', NEW c \in DOMAIN Children[u]
        PROVE  Children[u][c] \in after
    <3>1. ~Skipped(Path[u])
      BY <2>2, SameDue
    <3>2. CASE u \in left
      BY <1>3, <1>2, <2>2, <3>1, <3>2 DEF LeftInv
    <3>3. CASE u = p
      <4>1. Top.child > Len(Children[p]) /\ Top.child \in Nat
        BY <3>1, <3>3, TopFacts DEF Activation
      <4>2. Children[p] \in Seq(Suites)
        BY <1>1, TreeAssumption
      <4>3. c \in 1 .. Len(Children[p]) /\ Len(Children[p]) \in Nat
        BY <2>2, <3>3, <4>2
      <4>4. c < Top.child /\ ~(n < n)
        BY <1>1, <4>1, <4>3
      <4>5. c \in DOMAIN Children[calls[n].suite]
        BY <1>1, <2>2, <3>3
      <4>6. Children[p][c] \in left
        BY <1>1, <1>2, <4>4, <4>5 DEF LeftInv
      <4>. QED
        BY <1>3, <3>3, <4>6
    <3>. QED
      BY <1>3, <3>2, <3>3
  <2>3. ASSUME NEW d \in 1 .. n - 1, NEW c \in DOMAIN Children[calls'[d].suite]
        PROVE  Children[calls'[d].suite][c] \in after
                 <=> c < calls'[d].child /\ (d < n - 1 => c # calls'[d].child - 1)
    <3>. DEFINE q == calls[d].suite
                k == calls[d].child
    <3>1. calls'[d].suite = q /\ calls'[d].child = k /\ c \in DOMAIN Children[q]
      BY <1>5, <2>3
    <3>2. Children[q][c] \in left <=> c < k /\ c # k - 1
      BY <1>2, <1>6, <3>1 DEF LeftInv
    <3>3. Children[q][c] = p <=> d + 1 = n /\ c = k - 1
      <4>1. ASSUME d + 1 = n, c = k - 1
            PROVE  Children[q][c] = p
        BY <1>1, <1>10, <4>1
      <4>2. ASSUME Children[q][c] = p
            PROVE  d + 1 = n /\ c = k - 1
        <5>1. PICK e \in 1 .. n - 1 : e + 1 = n /\ calls[e].suite = q
          BY <1>10, <1>11, <3>1, <4>2
        <5>2. e = d
          BY <1>6, <5>1 DEF WalkInv, ChainInv
        <5>3. d + 1 = n
          BY <5>1, <5>2
        <5>4. Children[q][k - 1] = p /\ k - 1 \in DOMAIN Children[q] /\ q \in Suites
          BY <1>1, <1>10, <5>3
        <5>. QED
          BY <3>1, <4>2, <5>3, <5>4, PlaceAssumption
      <4>. QED
        BY <4>1, <4>2
    <3>4. d < n - 1 <=> d + 1 # n
      BY <1>1
    <3>5. c = k - 1 => c < k
      BY <1>10
    <3>. HIDE DEF q, k, p
    <3>6. Children[q][c] \in after <=> Children[q][c] \in left \/ Children[q][c] = p
      BY <1>3 DEF p
    <3>7. Children[q][c] \in after <=> c < k /\ (d < n - 1 => c # k - 1)
      BY <3>2, <3>3, <3>4, <3>5, <3>6
    <3>. QED
      BY <3>1, <3>7
  <2>4. ASSUME NEW q \in Suites, NEW c \in DOMAIN Children[q], Children[q][c] \in after
        PROVE  q \in after \/ OnStack(q)'
    <3>1. CASE Children[q][c] \in left
      BY <1>3, <1>2, <1>9, <3>1 DEF LeftInv
    <3>2. CASE Children[q][c] = p
      <4>1. PICK d \in 1 .. n - 1 : d + 1 = n /\ calls[d].suite = q
        BY <1>11, <3>2
      <4>2. q # p /\ OnStack(q)
        BY <1>1, <1>6, <4>1 DEF WalkInv, ChainInv, OnStack
      <4>. QED
        BY <1>9, <4>2
    <3>. QED
      BY <1>3, <2>4, <3>1, <3>2
  <2>5. calls' = <<>> => Main \in after
    BY <1>3, <1>1, <1>5 DEF WalkInv, ChainInv
  <2>6. \A u \in after : ~Skipped(Path[u])' =>
          \A c \in DOMAIN Children[u] : Children[u][c] \in after
    BY <2>2
  <2>7. \A d \in 1 .. n - 1 : \A c \in DOMAIN Children[calls'[d].suite] :
          Children[calls'[d].suite][c] \in after
            <=> c < calls'[d].child /\ (d < n - 1 => c # calls'[d].child - 1)
    BY <2>3
  <2>8. \A q \in Suites : \A c \in DOMAIN Children[q] :
          Children[q][c] \in after => q \in after \/ OnStack(q)'
    BY <2>4
  <2>. QED
    BY <1>5, <2>1, <2>5, <2>6, <2>7, <2>8 DEF LeftInv
<1>13. RunInv(after)'
  <2>1. ASSUME NEW u \in Suites, NEW j \in DOMAIN TestsOf[u]
        PROVE  /\ u \in after => Times(TestsOf[u][j])' = Due(u, TestsOf[u][j])'
               /\ u \notin after /\ ~OnStack(u)' => Times(TestsOf[u][j])' = 0
               /\ \A d \in 1 .. n - 1 : calls'[d].suite = u =>
                    Times(TestsOf[u][j])' =
                      IF j <= Passed(calls'[d]) THEN Due(u, TestsOf[u][j])' ELSE 0
    <3>. DEFINE t == TestsOf[u][j]
    <3>1. Due(u, t)' = Due(u, t) /\ Times(t)' = Times(t)
      BY SameDue, TimesFacts DEF TypeOK
    <3>2. /\ u \in left => Times(t) = Due(u, t)
          /\ u \notin left /\ ~OnStack(u) => Times(t) = 0
          /\ \A d \in 1 .. n : calls[d].suite = u =>
               Times(t) = IF j <= Passed(calls[d]) THEN Due(u, t) ELSE 0
      BY <1>2 DEF RunInv
    <3>3. u = p => Times(t) = Due(u, t)
      OBVIOUS
    <3>4. \A d \in 1 .. n - 1 : Passed(calls'[d]) = Passed(calls[d])
      BY <1>5 DEF Passed
    <3>. HIDE DEF t
    <3>5. \A d \in 1 .. n - 1 : calls'[d].suite = u =>
            Times(t)' = IF j <= Passed(calls'[d]) THEN Due(u, t) ELSE 0
      BY <1>5, <1>6, <3>1, <3>2, <3>4
    <3>. QED
      BY <1>3, <1>9, <3>1, <3>2, <3>3, <3>5 DEF t
  <2>. QED
    BY <1>5, <2>1 DEF RunInv, Passed
<1>. QED
  BY <1>8, <1>12, <1>13 DEF WalkInv

LEMMA LeaveSuiteWalk == TInv /\ WalkInv /\ LeaveSuite => WalkInv'
<1>. SUFFICES ASSUME TInv, WalkInv, LeaveSuite PROVE WalkInv'
  OBVIOUS
<1>. USE DEF TInv, At
<1>1. /\ calls # <<>> /\ Top.at = "setup" /\ test_prefix' = test_prefix /\ executed' = executed
      /\ Top.test > Len(TestsOf[Top.suite]) /\ Top.child > Len(Children[Top.suite])
      /\ Return(Top.ok)
  BY DEF LeaveSuite, TestsDone, ghosts
<1>2. Top \in Activation /\ Top.ok \in BOOLEAN /\ Top.test \in Nat /\ Top.suite \in Suites
  BY <1>1, TopFacts DEF Activation
<1>3. PICK left \in SUBSET Suites : RunInv(left)
  BY DEF WalkInv
<1>4. ASSUME NEW j \in DOMAIN TestsOf[Top.suite]
      PROVE  Times(TestsOf[Top.suite][j]) = Due(Top.suite, TestsOf[Top.suite][j])
  <2>1. TestsOf[Top.suite] \in Seq(Tests)
    BY <1>2, TreeAssumption
  <2>2. j \in 1 .. Len(TestsOf[Top.suite]) /\ Len(TestsOf[Top.suite]) \in Nat
    BY <1>4, <2>1
  <2>3. j <= Passed(Top)
    BY <1>1, <1>2, <2>2 DEF Passed
  <2>4. Len(calls) \in 1 .. Len(calls) /\ Top = calls[Len(calls)]
    BY <1>1, TopFacts DEF Top
  <2>. QED
    BY <1>2, <1>3, <2>3, <2>4 DEF RunInv
<1>. QED
  BY <1>1, <1>2, <1>4, LeaveWalk

LEMMA EnterSuiteWalk == TInv /\ WalkInv /\ EnterSuite => WalkInv'
<1>. SUFFICES ASSUME TInv, WalkInv, EnterSuite PROVE WalkInv'
  OBVIOUS
<1>. USE DEF TInv, At
<1>1. /\ calls # <<>> /\ Top.at = "enter" /\ test_prefix' = test_prefix /\ executed' = executed
  BY DEF EnterSuite, ghosts
<1>2. /\ Top \in Activation /\ Top.suite \in Suites /\ Top.prefix = Path[Top.suite]
      /\ Len(calls) \in 1 .. Len(calls) /\ Top = calls[Len(calls)]
  BY <1>1, TopFacts DEF Activation, Top, WalkInv, ChainInv
<1>3. CASE Skipped(Top.prefix) /\ Return(TRUE)
  <2>1. PICK left \in SUBSET Suites : RunInv(left)
    BY DEF WalkInv
  <2>2. ASSUME NEW j \in DOMAIN TestsOf[Top.suite]
        PROVE  Times(TestsOf[Top.suite][j]) = Due(Top.suite, TestsOf[Top.suite][j])
    <3>. DEFINE t == TestsOf[Top.suite][j]
    <3>1. t \in Tests
      BY <1>2, PlaceFacts
    <3>2. Name[t] \in Seq(Pieces) /\ Path[Top.suite] \in Seq(Pieces)
      BY <1>2, <3>1, NameAssumption, PathFacts
    <3>3. Skipped(Path[Top.suite] \o Name[t])
      BY <1>2, <1>3, <3>2, SkippedBelow DEF WalkInv
    <3>4. Due(Top.suite, t) = 0
      BY <3>3 DEF Due
    <3>5. Times(t) = IF j <= Passed(Top) THEN Due(Top.suite, t) ELSE 0
      BY <1>2, <2>1 DEF RunInv
    <3>. QED
      BY <3>4, <3>5
  <2>3. Skipped(Path[Top.suite])
    BY <1>2, <1>3
  <2>4. TRUE \in BOOLEAN /\ Return(TRUE)
    BY <1>3
  <2>. QED
    BY <1>1, <2>2, <2>3, <2>4, LeaveWalk
<1>4. CASE SetTop([Top EXCEPT !.at = "setup"])
  <2>. DEFINE f == [Top EXCEPT !.at = "setup"]
  <2>1. /\ f \in Activation /\ f.suite = Top.suite /\ f.prefix = Top.prefix
        /\ f.child = Top.child /\ f.at = "setup" /\ f.test = Top.test
    BY <1>2 DEF Activation
  <2>2. SetTop(f)
    BY <1>4
  <2>. HIDE DEF f
  <2>3. Passed(f) = Passed(Top)
    BY <1>1, <2>1 DEF Passed
  <2>. QED
    BY <1>1, <2>1, <2>2, <2>3, SamePlaceWalk
<1>. QED
  BY <1>3, <1>4 DEF EnterSuite

LEMMA StutterWalk == TInv /\ WalkInv /\ UNCHANGED vars => WalkInv'
<1>. SUFFICES ASSUME TInv, WalkInv, UNCHANGED vars PROVE WalkInv'
  OBVIOUS
<1>1. test_prefix' = test_prefix /\ calls' = calls /\ executed' = executed
  BY DEF vars, ghosts
<1>2. PICK left \in SUBSET Suites : LeftInv(left) /\ RunInv(left)
  BY DEF WalkInv
<1>3. /\ \A t : Times(t)' = Times(t)
      /\ \A s, t : Due(s, t)' = Due(s, t)
      /\ \A n : Skipped(n)' <=> Skipped(n)
  BY <1>1, TimesFacts, SameDue DEF TInv, TypeOK
<1>4. ChainInv'
  BY <1>1 DEF WalkInv, ChainInv
<1>5. LeftInv(left)'
  BY <1>1, <1>2, <1>3 DEF LeftInv, OnStack
<1>6. RunInv(left)'
  BY <1>1, <1>2, <1>3 DEF RunInv, OnStack, Passed
<1>. QED
  BY <1>1, <1>4, <1>5, <1>6 DEF WalkInv

LEMMA NextWalk == TInv /\ WalkInv /\ [Next]_vars => WalkInv'
BY EnterSuiteWalk, HookWalk, SkipTestWalk, ExecuteTestWalk, ExecuteChildWalk,
   LeaveSuiteWalk, StutterWalk DEF Next, Terminated

(* When the walk ends, every suite was left or is below one that was       *)
(* skipped; a selected test is in none of the latter.                      *)
LEMMA WalkEnds == TInv /\ WalkInv => SelectedTestsRun
<1>. SUFFICES ASSUME TInv, WalkInv, calls = <<>>, NEW t \in Tests
              PROVE  Times(t) <= 1 /\ (Selected(t) => Times(t) = 1)
  BY DEF SelectedTestsRun
<1>1. PICK left \in SUBSET Suites : LeftInv(left) /\ RunInv(left)
  BY DEF WalkInv
<1>2. Len(calls) = 0 /\ \A s : ~OnStack(s)
  BY DEF OnStack
<1>. DEFINE S == {s \in Suites : s \in left \/ Skipped(Path[s])}
<1>3. ASSUME NEW p \in S, NEW c \in DOMAIN Children[p]
      PROVE  Children[p][c] \in S
  <2>. DEFINE s == Children[p][c]
  <2>1. s \in Suites /\ Path[s] = Path[p] \o Name[s]
    BY <1>3, PlaceFacts, PathFacts
  <2>2. Name[s] \in Seq(Pieces) /\ Path[p] \in Seq(Pieces)
    BY <1>3, <2>1, NameAssumption, PathFacts
  <2>3. CASE Skipped(Path[p])
    BY <2>1, <2>2, <2>3, SkippedBelow DEF WalkInv
  <2>4. CASE ~Skipped(Path[p])
    BY <1>1, <1>3, <2>1, <2>4 DEF LeftInv
  <2>. QED
    BY <2>3, <2>4
<1>4. Main \in S /\ S \in SUBSET Suites
  BY <1>1, TreeAssumption DEF LeftInv
<1>. HIDE DEF S
<1>5. \A s \in Suites : s \in S
  BY <1>3, <1>4, TreeInduction
<1>6. PICK s \in Suites : \E j \in DOMAIN TestsOf[s] : TestsOf[s][j] = t
  BY PlaceAssumption
<1>7. PICK j \in DOMAIN TestsOf[s] : TestsOf[s][j] = t
  BY <1>6
<1>8. SuiteOf(t) = s
  BY <1>7, PlaceFacts
<1>9. Path[s] \in Seq(Pieces) /\ Name[t] \in Seq(Pieces)
  BY PathFacts, NameAssumption
<1>10. Path[s] \o Name[t] \in Seq(Pieces)
  BY <1>9, ConcatProperties
<1>11. CASE s \in left
  <2>1. Times(t) = Due(s, t)
    BY <1>1, <1>7, <1>11 DEF RunInv
  <2>2. Selected(t) => ~Skipped(Path[s] \o Name[t])
    BY <1>8, <1>10, SkippedBelow DEF Selected, WalkInv
  <2>. QED
    BY <2>1, <2>2 DEF Due
<1>12. CASE s \notin left
  <2>1. Times(t) = 0
    BY <1>1, <1>2, <1>7, <1>12 DEF RunInv
  <2>2. Skipped(Path[s])
    BY <1>5, <1>12 DEF S
  <2>3. Skipped(Path[s] \o Name[t])
    BY <1>9, <2>2, SkippedBelow DEF WalkInv
  <2>4. ~Selected(t)
    BY <1>8, <1>10, <2>3, SkippedBelow DEF Selected, WalkInv
  <2>. QED
    BY <2>1, <2>4
<1>. QED
  BY <1>11, <1>12

(* The second invariant holds in every reachable state. *)
THEOREM WalkInvariance == Spec => []WalkInv
<1>. QED
  BY InitWalk, NextWalk, Invariance, PTL DEF Spec

-----------------------------------------------------------------------------
(* What follows from it.                                                   *)

(* Type correctness, for every tree of suites and every outcome. *)
THEOREM TypeCorrect == Spec => []TypeOK
<1>1. TInv => TypeOK
  BY DEF TInv
<1>. QED
  BY <1>1, Invariance, PTL

(* The verdict and the counts are exactly those of the executed tests,     *)
(* however deep the tree and wherever a test fails.                        *)
THEOREM ExactReport == Spec => []ReportIsExact
<1>1. TInv => ReportIsExact
  BY DEF TInv
<1>. QED
  BY <1>1, Invariance, PTL

(* A failed test is printed with its own messages only. *)
THEOREM OwnMessages == Spec => []MessagesAreOwn
<1>1. TInv => MessagesAreOwn
  BY DEF TInv
<1>. QED
  BY <1>1, Invariance, PTL

(* Every setup is followed by its teardown before anything else runs.      *)
THEOREM BalancedHooks == Spec => []HooksAreBalanced
<1>1. TInv => HooksAreBalanced
  BY DEF TInv
<1>. QED
  BY <1>1, Invariance, PTL

(* Every test that the prefix selects runs exactly once, and no test runs  *)
(* twice, in every tree of suites and for every outcome.                   *)
THEOREM SelectedRun == Spec => []SelectedTestsRun
<1>. QED
  BY Invariance, WalkInvariance, WalkEnds, PTL
=============================================================================
