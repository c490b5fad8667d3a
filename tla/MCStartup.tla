----------------------------- MODULE MCStartup -----------------------------
(* Startup on a small instance: one server and one --init, two paths, and     *)
(* documents that combine the levels below: one environment with one cluster  *)
(* in many combinations, and two environments in a few.                       *)
EXTENDS Startup, TLC

Host     == <<"connection", "host">>
Password == <<"connection", "password">>
SSLMode  == <<"connection", "sslmode">>
Default  == <<"databases", "default">>
Query    == <<"timeouts", "query">>

MCFields   == {ReadOnly, Host, Password, SSLMode, Default, Query}
MCSecretFields == {Password}
MCRequired == {Host, Password, Default}
MCDefaults ==
    (ReadOnly :> "false") @@ (Host :> "") @@ (Password :> "") @@ (SSLMode :> "prefer") @@ (Default :> "postgres")
        @@ (Query :> "30s")

\* A duration that overflows int64, and one that is no limit.
MCUnfit   == [f \in MCFields |-> IF f = Query THEN {"9999999999999s"} ELSE {}]
MCInvalid == [f \in MCFields |-> IF f = Query THEN {"0s"} ELSE {}]

Lit(t)   == [lit |-> t]
Ref(v)   == [ref |-> v]
Or(v, t) == [ref |-> v, or |-> t]

\* Connections an operator writes: nothing, parts, a literal secret, a secret with a default.
None == {<<>>}
Connection(c) == {"connection" :> c}
Here    == Connection(("host" :> Or("B", "h")) @@ ("sslmode" :> Lit("require")))
There   == Connection("host" :> Lit("x"))
Set     == Connection("password" :> Ref("A"))
Unset   == Connection("password" :> Ref("B"))
Literal == Connection("password" :> Lit("x"))
Blank   == Connection("password" :> Ref("C"))
Fallback == Connection("password" :> Or("A", "x"))
Whole   == Connection(("host" :> Lit("h")) @@ ("password" :> Ref("A")))
ReadOnlyIs(t) == {"readOnly" :> Lit(t)}
NoDefault == {"databases" :> ("default" :> Lit(""))}
QueryIs(t) == {"timeouts" :> ("query" :> Lit(t))}
Overflow  == QueryIs("9999999999999s")
With(X, Y) == {x @@ y : x \in X, y \in Y}

GlobalLevels  == None \cup Here \cup Unset \cup Literal \cup ReadOnlyIs("true")
OwnLevels     == None \cup There \cup Set \cup ReadOnlyIs("true")
BadLevels     == Unset \cup Literal
ClusterLevels == None \cup Set \cup Blank \cup Fallback \cup Whole
                   \cup With(Whole, NoDefault \cup ReadOnlyIs("false"))

Alone(g, own, cluster) ==
    [global |-> g, environments |-> "e1" :> [own |-> own, clusters |-> "c1" :> cluster]]

MCMinimal ==
    [global |-> <<>>,
     environments |->
        "e1" :> [own |-> <<>>,
                 clusters |-> "c1" :> ("connection" :> (("host" :> Lit("x")) @@ ("password" :> Ref("A"))))]]

MCDocuments ==
    {Alone(g, own, cluster) : g \in GlobalLevels, own \in OwnLevels, cluster \in ClusterLevels}
    \cup {Alone(g, own, cluster) : g \in GlobalLevels, own \in BadLevels, cluster \in None \cup Set \cup Whole}
    \cup {[global |-> <<>>, environments |-> <<>>]}
    \cup {[global |-> g,
           environments |-> ("e1" :> [own |-> <<>>, clusters |-> one]) @@
                            ("e2" :> [own |-> own, clusters |-> two])] :
            g \in Here, own \in None \cup ReadOnlyIs("true"),
            one \in {"c1" :> cluster : cluster \in Whole \cup Set},
            two \in {<<>>} \cup {("c1" :> c) @@ ("c2" :> d) : c \in Set \cup Whole, d \in Whole \cup Blank}}
    \cup {Alone(g, own, cluster) : g \in None \cup QueryIs("0s") \cup Overflow, own \in None \cup Overflow,
                                  cluster \in With(Whole, None \cup QueryIs("0s") \cup QueryIs("30s"))}
    \cup {MCMinimal}

\* B is not set, C is set and empty.
MCEnvirons == {("A" :> "s") @@ ("C" :> "")}

MCRequests == {<<"e1", "c1">>, <<"e2", "c1">>}

MCLocations ==
    {[flag |-> NoPath, variable |-> NoPath],
     [flag |-> NoPath, variable |-> "named"],
     [flag |-> "xdg", variable |-> "named"]}
=============================================================================
