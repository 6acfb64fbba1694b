---------------------------- MODULE MCMiniShell ----------------------------
(* "a", "b" and "c" are programs, "x" is not; the file "i" can be read, "f"  *)
(* and "g" written, "x" neither.  "?" is what a buffer may hold besides.    *)
EXTENDS MiniShell

MCDirs == {"/h", "/d"}
MCNames == MCDirs \cup {"?"}

MCLines ==
  {<<"exit">>, <<"cd">>, <<"cd", "/d">>, <<"pushd", "/h">>, <<"pushd", "/d">>,
   <<"popd">>, <<"dirstack">>, <<>>,
   <<"a">>, <<"x">>, <<"a", "w">>, <<"a", "<", "i", ">", "f", "2>", "g">>,
   <<"a", "<", "x", ">", "f">>, <<"a", ">", "f", ">", "x", "2>", "x">>, <<"<", "i", ">", "f", "a">>,
   <<"a", "|", "b", "w">>, <<"a", "<", "i", "|", "b">>, <<"a", "|", "b", "|", "c">>,
   <<"x", "|", "b">>, <<"a", "|", "x", "|", "c">>, <<"x", "|", "b", "|", "c">>,
   <<"a", "|", "b", ">", "f">>, <<"a", ">", "f", "|", "b">>}
=============================================================================
