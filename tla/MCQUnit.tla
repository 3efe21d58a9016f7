------------------------------ MODULE MCQUnit ------------------------------
EXTENDS QUnit, TLC

Waits(n) == [asserts |-> << TRUE >>, starts |-> n]
Simple == [asserts |-> << TRUE >>, expected |-> NONE, stops |-> 0, leaks |-> FALSE,
           dies |-> FALSE, later |-> << >>]

\* A test with two callbacks, one that leaks, one with one callback, one that
\* dies, and one that comes when the page is loaded.
McBody ==
  << [Simple EXCEPT !.expected = 3, !.stops = 2, !.later = << Waits(1), Waits(1) >>],
     [Simple EXCEPT !.leaks = TRUE],
     [Simple EXCEPT !.stops = 1, !.later = << Waits(1) >>],
     [Simple EXCEPT !.dies = TRUE],
     Simple >>
McModule == 1 :> "a" @@ 2 :> "a" @@ 3 :> "b" @@ 4 :> "b" @@ 5 :> "b" @@ 6 :> "b"
McFailed == {<< >>, << 2, 4 >>}

\* What the run's tests do is within the hypothesis of PagesProofs!ReportIsJust.
ASSUME InstanceOrderly == Orderly
=============================================================================
