---------------------------- MODULE MCHelmRepos ----------------------------
(* Clients submit a URL without credentials, or another URL with one; the  *)
(* repository that was there before has the other credential or none.      *)
EXTENDS HelmRepos, TLC

MCUrls == {"old", "new"}
MCKeys == {"user", "pass"}
MCForms == { [url |-> "old", creds |-> [user |-> Blank, pass |-> Blank]],
             [url |-> "new", creds |-> [user |-> "a", pass |-> Blank]] }
MCOldForm == [url |-> "old", creds |-> [user |-> Blank, pass |-> "b"]]
Symmetry == Permutations(Requests)
=============================================================================
