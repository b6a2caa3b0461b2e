----------------------------- MODULE MCService -----------------------------
(* Instance of Service for TLC: the page of example/server/views and the   *)
(* picture it shows, below the default root, a root of the application's   *)
(* own, none, and the root of the file system.                             *)
EXTENDS Service, TLC

MCName == {"", "/", "user"}
MCRoot == {"", "own/"}
MCDoc == {"home.html", "ok.jpg"}
MCExtension == ("home.html" :> <<"h", "t", "m", "l">>) @@
               ("ok.jpg" :> <<"j", "p", "g">>)
MCFile == {<<"views/", "home.html">>, <<"", "home.html">>, <<"/", "ok.jpg">>,
           <<"", "ok.jpg">>, <<"views/", "ok.jpg">>}
=============================================================================
