----------------------------- MODULE MCLogConfig -----------------------------
(* Documents that add, change, keep and drop a logger and the root.        *)
EXTENDS LogConfig

CONSTANTS root, http

Node(n, l, f, a) == [name |-> n, level |-> l, formatter |-> f, appenders |-> a]
AllDocuments == {
  << >>,
  <<Node(root, "INFO", "short", <<"">>)>>,
  <<Node(root, "INFO", "", <<"", "long">>), Node(http, "DEBUG", "", <<"bad">>)>>,
  <<Node(http, "INFO", "long", <<"broken", "short">>)>>,
  <<Node(http, "INFO", "long", <<"">>), Node(root, "DEBUG", "bad", <<"", "">>)>>,
  <<Node(NoName, "INFO", "", << >>), Node(http, "DEBUG", "short", << >>),
    Node(http, "INFO", "", <<"long">>)>>}
=============================================================================
