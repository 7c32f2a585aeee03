---------------------------- MODULE MCAccessConfig ----------------------------
(***************************************************************************)
(* AccessConfig for TLC: the ways to write a command line, documents of up *)
(* to three rules with simple patterns, of one rule with every kind of     *)
(* pattern, and paths that leave the workspace, come back or stay inside.  *)
(***************************************************************************)
EXTENDS AccessConfig

a == <<"a">>
b == <<"b">>
ab == <<"a", "b">>
w == <<"w">>

\* A directory with a backslash in its name.
wx == <<"w", Backslash, "x">>

MCWorkspace == <<wx>>

Relative(components) == [absolute |-> FALSE, components |-> components]
Rooted(components) == [absolute |-> TRUE, components |-> components]

MCRawPaths ==
    {Relative(<<a>>), Relative(<<ab>>), Relative(<<a, b>>), Relative(<<a, a, ab>>),
     Relative(<<Dot, a, DotDot, b>>), Relative(<<DotDot, b>>), Relative(<<>>),
     Relative(<<DotDot, wx, a>>), Relative(<<a, DotDot, DotDot, b, DotDot>>),
     Relative(<<DotDot, DotDot, DotDot, wx, a>>), Relative(<<<<"a", Backslash, "b">>>>),
     Rooted(<<wx, a>>), Rooted(<<ab, wx>>), Rooted(<<wx, DotDot, wx, b>>),
     Rooted(<<DotDot, wx, a>>), Rooted(<<DotDot, DotDot, wx, a>>)}

MCActions == {"read", "edit"}

Below(segments) == [absolute |-> FALSE, segments |-> segments]
At(segments) == [absolute |-> TRUE, segments |-> segments]

Star == <<"*">>
AnyOne == <<"?">>

Patterns ==
    {Below(<<DoubleStar>>), Below(<<Star>>), Below(<<AnyOne>>), Below(<<a>>),
     Below(<<ab>>), Below(<<<<"a", "*">>>>), Below(<<<<"*", "b">>>>),
     Below(<<<<"?", "*">>>>), Below(<<a, DoubleStar>>), Below(<<Star, b>>),
     Below(<<DoubleStar, b>>), Below(<<DoubleStar, <<"*", "b">>>>),
     Below(<<a, DoubleStar, Star>>), Below(<<DoubleStar, Star, DoubleStar>>),
     Below(<<DoubleStar, a, b>>), At(<<wx, DoubleStar>>), At(<<w, Star, DoubleStar>>), At(<<DoubleStar, a>>),
     At(<<a, DoubleStar>>), At(<<DoubleStar, <<"*", "?">>, ab>>),
     Below(<<<<"a", Backslash, "b">>>>), Below(<<<<"a", "*", "*">>>>), Below(<<<<"*", "*", "b">>, Star>>),
     Below(<<<<"*", "*", "*">>, DoubleStar, b>>), Below(<<a, <<>>>>),
     At(<<DoubleStar, <<>>, a>>)}

Rules(actions, resources) ==
    [effect : Effects, priority : {1, 2}, actions : actions, resources : resources]

SomeOrAll == {{Below(<<DoubleStar>>)}, {Below(<<a>>), Below(<<Star, b>>)}}

Documents ==
    UNION {[1..n -> Rules({{"*"}, {"edit"}}, SomeOrAll)] : n \in 0..2}
    \cup [1..3 -> Rules({{"*"}}, SomeOrAll)]
    \cup {<<[effect |-> "deny", priority |-> 1, actions |-> {"edit"},
             resources |-> {pattern}]>> : pattern \in Patterns}

Usual == <<"--ruleset-path", "rules.json", "--workspace-path", "w">>

CommandLines ==
    {<<>>, <<"--workspace-path">>, <<"--workspace-path", "w">>,
     <<"--ruleset-path", "rules.json">>, <<"w">>,
     <<"--workspace-path", "--ruleset-path">>,
     <<"--workspace-path", "w", "--ruleset-path">>,
     <<"--workspace-path", "--ruleset-path", "rules.json">>,
     <<"--workspace-path", "x", "--workspace-path", "w">>,
     <<"--workspace-path", "w", "--ruleset-path", "rules.json", "--workspace-path", "w">>,
     <<"--workspace-path", "w", "--help", "w">>}

MCStarts ==
    [args : {Usual}, accessible : {TRUE}, document : Documents,
     watches : {TRUE}, connects : {TRUE}]
        \cup [args : CommandLines \cup {Usual}, accessible : BOOLEAN,
              document : {NoRuleset, Unreadable, <<>>},
              watches : BOOLEAN, connects : BOOLEAN]
===============================================================================
