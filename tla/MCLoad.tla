-------------------------------- MODULE MCLoad --------------------------------
(* Two drop-ins, services with one flaw each, and the kinds of identity.     *)
EXTENDS ChildSetup

MCNames == {"", "a", "b"}
Image == "PATH" :> "image"
Data == "PATH" :> "data"
Key == "K" :> "one"
Own == "HOME" :> "own"
MCEnvs == {<<>>, Image, Data, Key, Own}
Env1 == <<Image, Key>>
Env2 == <<Image, Data>>
MCOrder == <<"10", "20">>
MCPasswd == [u |-> [uid |-> 7, gid |-> 70, groups |-> {71}], root |-> [uid |-> 0, gid |-> 0, groups |-> {}]]
MCGroups == [g |-> 50]
MCNumbers == ("7" :> 7) @@ ("9" :> 9) @@ ("0" :> 0)
MCCaps == {"setuid", "setgid", "setpcap", "net"}

Daemon(uid, caps) ==
    [uid |-> uid, gid |-> uid, groups |-> {uid}, permitted |-> caps, effective |-> caps,
     inheritable |-> {}, ambient |-> {}, bounding |-> MCCaps, keep |-> FALSE, nnp |-> FALSE]
MCDaemons == {Daemon(0, MCCaps), Daemon(8, {})}

Probe == [kinds |-> {"cmd"}, codes |-> {0}, method |-> "GET", interval |-> 60, timeout |-> 5, threshold |-> 1]
Plain(n, t) ==
    [name |-> n, tag |-> t, policy |-> "onError", daemon |-> TRUE, cmds |-> {"cmd"}, probe |-> None,
     labels |-> {"wellFormed"}, deps |-> {}, context |-> None, identity |-> None, enabled |-> TRUE,
     env |-> <<>>]

A(t) == Plain("a", t)
B(t) == [Plain("b", t) EXCEPT !.deps = {"a"}]

Flawed ==
    {[A(1) EXCEPT !.policy = "always", !.daemon = FALSE], [A(1) EXCEPT !.cmds = {}],
     [A(1) EXCEPT !.labels = {"emptyValue"}], [A(1) EXCEPT !.name = ""],
     [A(1) EXCEPT !.probe = [Probe EXCEPT !.kinds = {}]],
     [A(1) EXCEPT !.probe = [Probe EXCEPT !.kinds = {"cmd", "tcp"}]],
     [A(1) EXCEPT !.probe = [Probe EXCEPT !.kinds = {"http"}, !.method = ""]],
     [A(1) EXCEPT !.probe = [Probe EXCEPT !.interval = 0]],
     [A(1) EXCEPT !.probe = [Probe EXCEPT !.codes = {}]],
     [A(1) EXCEPT !.context = [user |-> "", group |-> None, caps |-> {}]]}

Contexts ==
    {[user |-> "u", group |-> None, caps |-> {}], [user |-> "u", group |-> "g", caps |-> {"net"}],
     [user |-> "7", group |-> None, caps |-> {}], [user |-> "9", group |-> "g", caps |-> {"net"}],
     [user |-> "9", group |-> None, caps |-> {}], [user |-> "ghost", group |-> None, caps |-> {}],
     [user |-> None, group |-> "g", caps |-> {}], [user |-> None, group |-> None, caps |-> {"net"}],
     [user |-> "root", group |-> None, caps |-> {}], [user |-> None, group |-> "ghost", caps |-> {}],
     [user |-> None, group |-> None, caps |-> {}]}

Holds(main, first, second, ov, files) ==
    [main |-> main, dropins |-> ("10" :> first) @@ ("20" :> second), override |-> ov, env |-> files]

MCDisks ==
    {Holds(main, first, second, ov, Env1) :
        main \in {None, Broken, <<A(1)>>, <<A(1), B(1)>>, <<A(1), A(2)>>},
        first \in {None, Broken, <<A(3)>>, <<B(3)>>, <<A(3), A(4)>>},
        second \in {None, <<A(5)>>, <<B(5), A(5)>>},
        ov \in {<<>>, "a" :> FALSE}}
    \cup {Holds(<<s>>, None, None, <<>>, Env1) : s \in Flawed}
    \cup {Holds(<<[A(1) EXCEPT !.context = c, !.probe = Probe, !.env = Own]>>, None, None, <<>>, Env1)
            : c \in Contexts}

MCNewDisks ==
    {Holds(main, None, second, <<>>, Env2) :
        main \in {Broken, <<A(1)>>, <<[A(6) EXCEPT !.context = [user |-> "u", group |-> None, caps |-> {}]]>>,
                   <<[A(6) EXCEPT !.context = [user |-> "ghost", group |-> None, caps |-> {}]]>>},
        second \in {None, <<A(7)>>}}
    \cup {Holds(<<A(1)>>, None, None, Broken, Env2), Holds(<<>>, <<A(1), B(1)>>, None, <<>>, Env2)}
===============================================================================
