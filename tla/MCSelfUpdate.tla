---------------------------- MODULE MCSelfUpdate ----------------------------
(* SelfUpdate on small instances.                                           *)
EXTENDS SelfUpdate

Version(core, pre) == [odd |-> FALSE, core |-> core, pre |-> pre]
Number(n) == [num |-> TRUE, val |-> n]
Word(n) == [num |-> FALSE, val |-> n]

SomeVersions ==
    {Version(1, <<>>), Version(2, <<>>), Version(2, <<Number(1)>>), Version(2, <<Word(1)>>),
     Version(2, <<Number(1), Number(0)>>), [Version(3, <<>>) EXCEPT !.odd = TRUE]}

World(new, old, publish, signals, kills) ==
    [latest |-> new, installed |-> old, publish |-> publish, signals |-> signals, kills |-> kills]

SomeWorlds ==
    {World(v, w, {}, 0, 0) : v, w \in SomeVersions}
    \cup {World(Version(2, <<>>), Version(1, <<>>), {}, 2, 0),
          World(Version(2, <<>>), Version(1, <<>>), {}, 1, 1),
          World(Version(2, <<Number(1)>>), Version(1, <<>>), {Version(2, <<>>)}, 0, 1),
          World(Version(2, <<>>), Version(1, <<>>), {Version(2, <<Word(1)>>)}, 0, 1)}
=============================================================================
