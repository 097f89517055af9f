--------------------------- MODULE ConnectionTests ---------------------------
(***************************************************************************)
(* The page of the connection tests: each of its three cards runs its own  *)
(* test while the others go on. A result is the number of the test it is   *)
(* of.                                                                     *)
(***************************************************************************)
EXTENDS Requests

CONSTANT MaxTests   \* bound: tests of one target

ASSUME ConnectionTestsAssumption == MaxTests \in Nat \ {0}

Targets == {"host", "models", "mcp"}

VARIABLES
  tests,      \* how often a target was tested
  results,    \* the result shown of each, 0 if there is none
  testing, errors

testVars == <<tests, results, testing, errors>>

\* Once it is shown the page tests "mcp" by itself.
ConnectionTestsInit ==
  /\ tests = [t \in Targets |-> IF t = "mcp" THEN 1 ELSE 0]
  /\ results = [t \in Targets |-> 0]
  /\ testing = [t \in Targets |-> t = "mcp"]
  /\ errors = [t \in Targets |-> FALSE]

\* The button of a card cannot be used while its test runs.
Run(t) ==
  /\ ~testing[t] /\ tests[t] < MaxTests
  /\ tests' = [tests EXCEPT ![t] = @ + 1]
  /\ testing' = [testing EXCEPT ![t] = TRUE]
  /\ errors' = [errors EXCEPT ![t] = FALSE]
  /\ Make("test", t)
  /\ UNCHANGED results

ServeTest(s) ==
  /\ Waits(s, "test") /\ Answer(s, tests[calls[s].arg])
  /\ UNCHANGED testVars

LoseTest(s) == calls[s].kind = "test" /\ Lose(s) /\ UNCHANGED testVars

\* Mutant of TargetOf: an answer goes to the card used last.
TargetOfLast(s) == IF testing["host"] THEN "host" ELSE calls[s].arg

\* The target an answer belongs to.
TargetOf(s) == calls[s].arg

TakeResult(s) ==
  LET t == TargetOf(s)
  IN /\ Settles(s, "test")
     /\ results' = IF Succeeded(s) THEN [results EXCEPT ![t] = calls[s].data] ELSE results
     /\ errors' = [errors EXCEPT ![t] = ~Succeeded(s)]
     /\ testing' = [testing EXCEPT ![t] = FALSE]
     /\ Turn(s, Free)
     /\ UNCHANGED tests

ConnectionTestsNext ==
  \/ \E t \in Targets : Run(t)
  \/ \E s \in Slots : ServeTest(s) \/ LoseTest(s) \/ TakeResult(s)

-----------------------------------------------------------------------------
ConnectionTestsTypeOK ==
  /\ tests \in [Targets -> 0..MaxTests] /\ results \in [Targets -> 0..MaxTests]
  /\ testing \in [Targets -> BOOLEAN] /\ errors \in [Targets -> BOOLEAN]

ConnectionTestsSpinnersEnd ==
  \A t \in Targets : testing[t] <=> \E s \in OnTheirWay({"test"}) : calls[s].arg = t

\* A card that neither waits nor shows an error shows its own last test.
TestsAreAnswered ==
  \A t \in Targets : ~testing[t] /\ ~errors[t] => results[t] = tests[t]
=============================================================================
