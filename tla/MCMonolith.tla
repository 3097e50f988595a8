----------------------------- MODULE MCMonolith -----------------------------
(* Instances of Monolith for TLC.                                          *)
EXTENDS Monolith

\* Everything at the edge of what config.Load takes: the sound environment.
AtTheLimits ==
  [database |-> TRUE, currency |-> TRUE, commission |-> 10000,
   verifyAbove |-> 0, maxExtensions |-> 0, pspMode |-> "flaky",
   authMode |-> "local-hs256", secret |-> TRUE,
   duration |-> [snipeWindow |-> 1, snipeExtension |-> 1, paymentTerm |-> 1,
                 relistDelay |-> 1, relistDuration |-> 1, closingPoll |-> 1,
                 expiryPoll |-> 1, busPoll |-> 1]]

\* It, and one environment for each reason to refuse.
SomeEnvironments ==
  [sound      |-> AtTheLimits,
   database   |-> [AtTheLimits EXCEPT !.database = FALSE],
   currency   |-> [AtTheLimits EXCEPT !.currency = FALSE],
   commission |-> [AtTheLimits EXCEPT !.commission = 10001],
   threshold  |-> [AtTheLimits EXCEPT !.verifyAbove = -1],
   extensions |-> [AtTheLimits EXCEPT !.maxExtensions = 1001],
   duration   |-> [AtTheLimits EXCEPT !.duration.relistDelay = 0],
   psp        |-> [AtTheLimits EXCEPT !.pspMode = "other"],
   secret     |-> [AtTheLimits EXCEPT !.secret = FALSE],
   jwks       |-> [AtTheLimits EXCEPT !.authMode = "jwks"],
   auth       |-> [AtTheLimits EXCEPT !.authMode = "other"]]
=============================================================================
