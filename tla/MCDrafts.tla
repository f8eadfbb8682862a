------------------------------ MODULE MCDrafts ------------------------------
(* Drafts with few tabs, requests and sections; a section is answered or not. *)
EXTENDS Drafts, TLC

Symmetry == Permutations(Keys) \cup Permutations(Tabs) \cup Permutations(Calls)
              \cup Permutations(Sections) \cup Permutations(Locales)
=============================================================================
