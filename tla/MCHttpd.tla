------------------------------ MODULE MCHttpd -------------------------------
EXTENDS Httpd

Request(line, name, params) == [line |-> line, name |-> name, params |-> params]

MCRequests == {
  Request("GET", "/", <<>>), Request("GET", "/", <<"ok", "ok">>),
  Request("GET", "/index.vnc", <<"ok", "bad">>), Request("GET", "/index.vnc", <<"ok", "ok", "ok">>),
  Request("GET", "/long.vnc", <<>>), Request("GET", "/vncviewer.jar", <<>>),
  Request("GET", "/missing", <<>>), Request("other", "/", <<>>), Request("proxied", "/", <<>>)}

MCText == <<"a", "$", "W", "$", "$", "W", "$", "P", "$", "b", "$">>

\* The page just fits the buffer; the others are read in two goes.
MCFiles == [n \in {"/index.vnc", "/long.vnc", "/vncviewer.jar"} |->
              IF n = "/index.vnc" THEN MCText ELSE MCText \o MCText]
=============================================================================
