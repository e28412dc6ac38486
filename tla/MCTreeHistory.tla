---------------------------- MODULE MCTreeHistory ----------------------------
(* TreeHistory on three names, of which one begins another. *)
EXTENDS Grep

MCNames == <<"s", "sx", "t">>
MCBegins == {<<n, n>> : n \in {"s", "sx", "t"}} \cup {<<"s", "sx">>}
MCPaths == {<<"s">>, <<"sx">>, <<"s", "t">>, <<"s", "sx">>}

x == Line("x")
y == Line("y")
\* Among them a text with a carriage return alone and one without a last newline.
MCBlobs == {Text(<< >>), Text(<<x, y>>), Text(<<Returned("z"), x, y>>), Text(<<x, x, x, x, Unended("y")>>), Binary}

\* With a directory that is empty, an executable file, a symbolic link.
MCFirstTrees ==
  { NoTree,
    [n \in {"s", "sx"} |-> IF n = "s" THEN Dir([m \in {"t"} |-> Dir(NoTree)])
                           ELSE [File(Text(<<x, y>>)) EXCEPT !.mode = "exec"]],
    [n \in {"s", "t"} |-> IF n = "s" THEN Dir([m \in {"sx"} |-> File(Text(<<x, y>>))])
                          ELSE [kind |-> "symlink", mode |-> "symlink", target |-> "elsewhere"]] }

MCFilters == { [parts |-> <<"s">>, slash |-> FALSE], [parts |-> <<"s">>, slash |-> TRUE],
               [parts |-> <<"s", "t">>, slash |-> FALSE], [parts |-> <<"sx">>, slash |-> FALSE] }
=============================================================================
