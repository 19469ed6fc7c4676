--------------------------- MODULE MCColumnMapping ---------------------------
(* Instances of ColumnMapping for TLC.                                      *)
EXTENDS ColumnMapping

\* Names that no other table has: ignored_columns is one set for all of them.
OwnNames == [A |-> {"p", "q"}, B |-> {"x"}]
SharedNames == [t \in Tables |-> {"p", "q"}]

FirstNames == [t \in Tables |-> CHOOSE n \in ColumnNames[t] : TRUE]

AllKindsInA == [A |-> Kinds, B |-> {"selected"}]
AllSelected == [t \in Tables |-> {"selected"}]

\* One database, or two that have a table of the same name.
OneDatabase == [t \in Tables |-> <<t>>]
SameName == [t \in Tables |-> <<"A", "B">>]
=============================================================================
