---------------------------- MODULE MCInspector -----------------------------
(* The values of Inspector's constants for TLC. *)
EXTENDS Inspector, TLC

At(n) == [kind \in {"ask", "list"} |-> n]

BuiltinProfile == [mode |-> "enforce", overload |-> "wait", at |-> At(100), rows |-> {}]

\* A profile with rows that sheds, one that is off, and an unknown tag.
AllProfiles ==
  {[mode |-> "observe", overload |-> "shed", at |-> At(50), rows |-> {"score", "ask", "list"}],
   [mode |-> "off", overload |-> "wait", at |-> At(100), rows |-> {"list"}],
   NoProfile}

\* Profiles without a row and a route that is always known.
PlainProfiles == {[mode |-> "enforce", overload |-> "shed", at |-> At(50), rows |-> {"list"}]}

\* The requests that differ in nothing.
Interchangeable == Permutations(Fit)
=============================================================================
