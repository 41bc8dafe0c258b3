---------------------------- MODULE MCReActAgent -----------------------------
(* Small instances of ReActAgent for TLC. *)
EXTENDS ReActAgent, TLC
CONSTANTS t1, t2, g1, g2

\* Two groups that overlap in one table.
SmallGroups == g1 :> {t1} @@ g2 :> {t1, t2}
\* Every text over the tables, and none.
AllDrafts == {Empty} \cup Sql
=============================================================================
