---- MODULE MCInstanceCommands ----
(* Small instances of InstanceCommands: two shells of one user. *)
EXTENDS InstanceCommands, TLC

CONSTANTS one, two

Programs(first, second) == {(one :> a) @@ (two :> b) : a \in first, b \in second}

Bounds(t, c, f) == [time |-> t, crashes |-> c, foreign |-> f]

\* a registered profile whose access token runs out at one of those times
Registered(bounds, programs, expiries, othersLeft) ==
    {[registered |-> TRUE, app |-> TRUE, lacksToken |-> FALSE, others |-> n,
      expires |-> e, programs |-> f, bounds |-> bounds] :
        f \in programs, e \in expiries, n \in othersLeft}

\* the same after somebody removed the access token from the keychain
LacksToken(bounds, programs) ==
    {[w EXCEPT !.lacksToken = TRUE] : w \in Registered(bounds, programs, {3}, {0})}

\* no profile; its application may be there, from an interrupted registration
Unregistered(bounds, programs, othersLeft) ==
    {[registered |-> FALSE, app |-> x, lacksToken |-> FALSE, others |-> n,
      expires |-> 0, programs |-> f, bounds |-> bounds] :
        f \in programs, x \in BOOLEAN, n \in othersLeft}

\* A token that runs out while two commands are under way, with and without a
\* crash; commands that do not touch the token; profiles that come and go.
MCWorlds ==
    UNION {
      Registered(Bounds(4, 0, 0), Programs({<<"connect", "connect">>}, {<<"refresh">>})
                                  \cup Programs({<<"upgrade">>}, {<<"connect">>}), {1}, {0}),
      Registered(Bounds(3, 1, 0), Programs({<<"connect", "connect">>}, {<<"connect">>}), {1}, {0}),
      Registered(Bounds(1, 0, 1), Programs({<<"connect">>, <<"refresh">>},
                                           {<<"install">>, <<"use">>}), {3}, {0}),
      Registered(Bounds(0, 0, 0), Programs({<<"refresh">>}, {<<"delete">>}), {3}, {0}),
      Registered(Bounds(1, 1, 0), Programs({<<"delete", "register">>},
                                           {<<>>, <<"connect">>, <<"use">>}), {3}, {0}),
      Registered(Bounds(0, 1, 0), Programs({<<"delete", "delete">>, <<"delete", "setup">>},
                                           {<<>>}), {3}, {0, 1, 2}),
      LacksToken(Bounds(3, 1, 0), Programs({<<"setup", "connect">>}, {<<>>, <<"connect">>})),
      Unregistered(Bounds(3, 1, 0), Programs({<<"register", "register">>, <<"register", "connect">>,
                                              <<"setup", "connect">>}, {<<>>}), {0, 1}),
      Unregistered(Bounds(0, 0, 1), Programs({<<"register">>}, {<<"register">>, <<"setup">>}), {0})}
====
