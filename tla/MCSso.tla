------------------------------- MODULE MCSso --------------------------------
(* Instances of Sso: two logins, which two browsers, two tabs or two reloads *)
(* can mix up, one logout and one read.                                      *)
EXTENDS Sso, TLC

\* Values of a kind are interchangeable; only for runs without liveness.
SsoSymmetry == Permutations(Browsers) \cup Permutations(States)
                 \cup Permutations(Callbacks) \cup Permutations(Emails)
=============================================================================
