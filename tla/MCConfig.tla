------------------------------ MODULE MCConfig -------------------------------
(* Instances of Config for TLC: files of up to two items, sensible or not.    *)
EXTENDS Config

Set(k, v) == [key |-> k, kind |-> "scalar", value |-> v]
Item(k, kind, v) == [key |-> k, kind |-> kind, value |-> v]

Entry1 == <<Set("path", "a"), Set("mode", "merge"), Set("other", "path")>>
Entry2 == <<Set("timestamp", "true"), Set("path", "b"), Set("mode", "none"),
            Set("rotate", "true")>>
Entry3 == <<Set("path", "b"), Set("mode", "both"), Set("mode", "separate")>>

Items ==
    {Set("port", "7"), Set("port", "8"), Set("server", "host"), Set("logdir", "dir"),
     Set("waitingSeconds", "2"), Set("waiting", "3"),
     Set("hostnameLookups", "true"), Set("other", "x"), Set("other", "port"),
     Item("other", "nested", <<Set("port", "9")>>),
     Item("patterns", "nothing", << >>), Item("patterns", "entries", << >>),
     Item("patterns", "entries", <<Entry1, Entry2>>),
     Item("patterns", "entries", <<Entry3, Entry2, Entry1>>)}

SmallFiles == UNION {[1..n -> Items] : n \in 0..2}

SomeOptions == [p \in Programs |->
                   {[k \in {} |-> ""], [k \in {"port"} |-> "6"],
                    IF p = "follower" THEN [k \in {"server"} |-> "opt"]
                    ELSE [k \in {"logdir"} |-> "opt"]}]

SomeMatches == {<<"a", "n">>, <<"b", "n">>, <<"b", "m">>}
==============================================================================
