--------------------------- MODULE MCProjectTrust ---------------------------
(* ProjectTrust on small instances: a directory b in a project a, below the *)
(* root.                                                                    *)
EXTENDS ProjectTrust, TLC

Path == {"root", "a", "b"}
Parents == [d \in Path |-> IF d = "b" THEN "a" ELSE "root"]
Chains == [d \in Path |-> IF d = "b" THEN {"a", "b"} ELSE {d}]

Entry(a, b) == [d \in Path |-> CASE d = "a" -> a [] d = "b" -> b [] d = "root" -> "nothing"]

\* What three processes are started for, in b, a and b; the entries of a and b;
\* the default.
Three(j1, j2, j3, ea, eb, default) ==
    [docs |-> [trust |-> Entry(ea, eb), settings |-> default], bad |-> {},
     res |-> [d \in Path |-> IF d = "a" THEN {"rules"} ELSE {}],
     job |-> "p" :> [kind |-> j1, cwd |-> "b"] @@ "q" :> [kind |-> j2, cwd |-> "a"]
             @@ "r" :> [kind |-> j3, cwd |-> "b"]]

Alone(kind, cwd, bad, res) ==
    [Three("approve", "no_approve", kind, "nothing", "nothing", "ask") EXCEPT
        !.job["r"].cwd = cwd, !.bad = bad, !.res["b"] = res]

SomeWorlds ==
    {Three("interactive", "distrust", "approve", "nothing", "nothing", "nothing"),
     Three("interactive", "always", "no_approve", "nothing", "null", "ask"),
     Three("print", "trust", "distrust", "null", "nothing", "never"),
     Three("print", "trust", "always", "untrusted", "null", "ask"),
     Three("print", "distrust", "always", "nothing", "null", "ask")}
    \cup {Alone("distrust", "b", {"trust"}, {}), Alone("print", "b", {}, {"unfit"}),
          Alone("interactive", "a", {"settings"}, {}), Alone("print", "root", {}, {}),
          Alone("interactive", "root", {}, {"extensions"})}
=============================================================================
