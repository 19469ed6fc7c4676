------------------------------ MODULE Discovery ------------------------------
(***************************************************************************)
(* What discovery says of the columns of a table, and how a run combines it *)
(* with the catalog it was given: tap_mysql/discover_utils.py.              *)
(*                                                                          *)
(* A column is a record [name, key, supported, since]: whether it is part of *)
(* the primary key, whether its SQL type has a JSON schema, and the moment it *)
(* got its name.  The metadata of a stream names the columns it knows, those *)
(* it selects by default, and those the user has deselected.                *)
(***************************************************************************)
EXTENDS Sequences

NamesOf(cols) == {cols[i].name : i \in DOMAIN cols}

\* schema_for_column: an unsupported type wins over the primary key.
Inclusion(c) ==
  CASE ~c.supported -> "unsupported"
    [] c.supported /\ c.key -> "automatic"
    [] c.supported /\ ~c.key -> "available"

Included(cols, inclusion) ==
  {cols[i].name : i \in {j \in DOMAIN cols : Inclusion(cols[j]) = inclusion}}

\* create_column_metadata.
Metadata(cols) ==
  [known |-> NamesOf(cols),
   default |-> NamesOf(cols) \ Included(cols, "unsupported"),
   deselected |-> {}]

\* property_is_selected: what the metadata does not say is selected.
Selected(md) == md.known \ md.deselected

DesiredColumns(selected, cols) ==
  (selected \cap Included(cols, "available")) \cup Included(cols, "automatic")

\* resolve_catalog, for one stream: its schema from the server, its metadata
\* from the user.
Resolve(md, cols) == [props |-> DesiredColumns(Selected(md), cols), md |-> md]

\* The entry of discover_catalog, less the unsupported columns.
Discover(cols) ==
  [props |-> DesiredColumns(Selected(Metadata(cols)), cols), md |-> Metadata(cols)]

\* A column the metadata does not know, or knows as supported.
ShouldRunDiscovery(names, md) ==
  \E n \in names : n \notin md.known \/ n \in md.default
=============================================================================
