----------------------------- MODULE MCConfig -----------------------------
(* Documents for TLC: a change, and a map with an illegal key whose other  *)
(* entries change a variable of another type and change back the first.    *)
EXTENDS Config

CONSTANTS n1, n2, bad, x, y

Node(nm, val) == [name |-> nm, val |-> val]
MCDocuments == {<<Node(n1, y)>>, <<Node(n1, Bad), Node(bad, y), Node(n2, y), Node(n1, x)>>}
=============================================================================
