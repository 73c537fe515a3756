------------------------------ MODULE MCServer ------------------------------
(* Two clients of lsmkv-server.  The scripts mix both request forms, both  *)
(* cases of a name, a value that holds a line end, pipelines, the commands *)
(* that need no store, a QUIT with more behind it, and two ways to break   *)
(* the protocol.                                                           *)
EXTENDS Server

MCUpper ==
  ("get" :> "GET") @@ ("set" :> "SET") @@ ("del" :> "DEL") @@ ("ping" :> "PING")

\* A bulk string, and an array of them, on the wire.
Bulked(s) == <<"$", ToString(Len(s)), CR, LF>> \o s \o <<CR, LF>>
Arrayed(strings) ==
  <<"*", ToString(Len(strings)), CR, LF>>
    \o FlattenSeq([i \in DOMAIN strings |-> Bulked(strings[i])])

Inline(words) ==
  FlattenSeq([i \in DOMAIN words |->
               IF i = 1 THEN <<words[i]>> ELSE <<" ", words[i]>>]) \o <<CR, LF>>

SetThenGet ==
  Arrayed(<<<<"set">>, <<"a">>, <<CR, LF>>>>) \o Inline(<<"GET", "a">>)
Quits ==
  Inline(<<"SET", "b", "y">>) \o Inline(<<"QUIT">>) \o Inline(<<"GET", "b">>)
Breaks ==
  Inline(<<"DEL", "b", "a", "b">>) \o <<"*", "1", CR, LF, "+", "OK", CR, LF>>
Probes ==
  <<"*", "0", CR, LF>> \o Inline(<<"HELLO">>) \o Inline(<<"ping">>)
    \o Inline(<<"CONFIG", "get">>) \o Inline(<< >>) \o Inline(<<"DEL">>)
    \o <<"*", "x", CR, LF>>

MCScripts == {SetThenGet, Quits, Breaks, Probes}
MCKeys == {<<"a">>, <<"b">>}
Symmetric == Permutations(Connections)
=============================================================================
