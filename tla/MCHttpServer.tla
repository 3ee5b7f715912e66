---------------------------- MODULE MCHttpServer -----------------------------
(* HttpServer with a few clients: requests with and without query and      *)
(* headers, a header given twice, two requests in a row, a method and a    *)
(* version that do not exist.                                              *)
EXTENDS HttpServer

Request(method, path, query, version, headers) ==
    [method |-> method, path |-> <<path>>, query |-> query,
     version |-> version, headers |-> headers]

Header(field, value) == [field |-> field, value |-> <<value>>]

Hello == Request("GET", "/hello", <<"?", "q">>, "HTTP/1.0",
                 <<Header("Connection", "Keep-Alive"),
                   Header("Connection", "close")>>)
Root == Request("POST", "/", <<>>, "HTTP/1.1", <<Header("Host", "h")>>)
Icon == Request("HEAD", "/favicon.ico", <<>>, "HTTP/1.1", <<>>)
Brew == Request("BREW", "/", <<>>, "HTTP/1.1", <<>>)
Next2 == Request("GET", "/", <<>>, "HTTP/2.0", <<>>)

MCClients == {<<Hello>>, <<Icon, Root>>, <<Root, Brew>>, <<Icon, Next2, Icon>>}
MCCallbacks == {"defaultHttpCallback", "onRequest", "keepAlive"}
=============================================================================
