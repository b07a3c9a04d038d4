----------------------------- MODULE MCSessions -----------------------------
(* Sessions for TLC. *)
EXTENDS Sessions, TLC

\* Browsers, requests, ids and users are interchangeable.
Symmetry == Permutations(Browser) \cup Permutations(Request) \cup
            Permutations(SessionId) \cup Permutations(User)
=============================================================================
