---------------------------- MODULE SchemaHistory ----------------------------
(***************************************************************************)
(* What the migrations promise the database: the schema is the result of   *)
(* the versions 1, 2, ... applied once each and in that order, whichever   *)
(* process applied them and however often processes start, fail or die.    *)
(***************************************************************************)
EXTENDS Integers, Sequences

CONSTANT Contents   \* what a migration file may contain

VARIABLE schema     \* the migrations in effect, in the order they took effect

Migration(version, content) == [version |-> version, content |-> content]

Init == schema = <<>>

Upgrade(content) ==
    schema' = Append(schema, Migration(Len(schema) + 1, content))

Next == \E content \in Contents : Upgrade(content)

Spec == Init /\ [][Next]_schema
=============================================================================
