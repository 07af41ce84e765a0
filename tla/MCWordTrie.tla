------------------------------ MODULE MCWordTrie ------------------------------
(* Instantiates WordTrie for TLC: paths under two first words, one with a  *)
(* two-level subtree, and the prefix forms strings.Split gives for them.   *)
EXTENDS WordTrie, TLC

CONSTANTS c1, c2

MCPaths == {<<"a", "x">>, <<"a", "x", "y">>, <<"a", "z">>, <<"b">>}

\* "", "/", "a", "a/", "/a", "a/x", "b" ("" splits into one empty word)
MCPrefixes == {<<"">>, <<"", "">>, <<"a">>, <<"a", "">>, <<"", "a">>, <<"a", "x">>, <<"b">>}
=============================================================================
