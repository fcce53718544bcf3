----------------------------- MODULE MCDCTable ------------------------------
(* Instances of DCTable, and so of ConfigStore, for TLC. *)
EXTENDS DCTable, TLC
Symm == Permutations(Poster)

\* With one value of the web section the two kinds of post are the same. Two posts
\* differ, and the first file has empty fields or a section with secrets.
MCInit ==
  /\ TableInit
  /\ \A r \in Poster : post[r].full
  /\ \A r, q \in Poster : r # q => post[r].proxy # post[q].proxy
  /\ file.proxy = Blank \/ file.proxy \notin Bare
MCSpec == MCInit /\ [][TableNext]_allVars

\* The properties of the store do not read what the refreshes install and show, and no
\* guard does: states that differ in that alone are one.
StoreView == <<vars, rpc, enabled, cut, asked>>
=============================================================================
