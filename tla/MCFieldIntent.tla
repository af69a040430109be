----------------------------- MODULE MCFieldIntent ------------------------------
(* A node with a nested object: /a/b, /a/c/d, /a/c/e, where /a may be null. *)
EXTENDS FieldIntent

CONSTANT x

MCSchema == {<<"a">>, <<"a", "b">>, <<"a", "c">>, <<"a", "c", "d">>, <<"a", "c", "e">>}
MCNullable == {<<"a">>}
===============================================================================
