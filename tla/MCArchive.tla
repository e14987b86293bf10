------------------------------ MODULE MCArchive -----------------------------
EXTENDS Archive, TLC
MCIndices == <<"0", "1", "9">>
Id(n) == <<"live", n>>
MCLeaf == {Leaf("text"), Leaf("secret"), Undefined}
Shapes(Key, Value, MaxKeys) ==
    {Object(at) : at \in UNION {[K -> Value] : K \in {S \in SUBSET Key : Cardinality(S) <= MaxKeys}}}
Arrays(Value) == {Array(<<>>)} \cup {Array("0" :> v) : v \in Value}
                 \cup {Array("0" :> v @@ "1" :> w) : v, w \in Value}
R == Ref(Id("r"))
X == Ref(Id("x"))
Y == Ref(Id("y"))
\* An object or array r with two entries, x with one and y with none or a leaf.
Refers(s, v) == \E k \in DOMAIN s.at : s.at[k] = v
\* What nothing refers to is empty.
InUse(h) ==
    /\ \/ Refers(h[Id("r")], X) \/ (Refers(h[Id("r")], Y) /\ Refers(h[Id("y")], X))
       \/ h[Id("x")] = Object(<<>>)
    /\ \/ Refers(h[Id("r")], Y) \/ (Refers(h[Id("r")], X) /\ Refers(h[Id("x")], Y))
       \/ h[Id("y")] = Object(<<>>)
AllHeaps ==
    {(Id("r") :> r @@ Id("x") :> x @@ Id("y") :> y) :
        r \in Shapes({"k", "l", "password"}, {Leaf("text"), Undefined, X, Y, R}, 2)
                \cup Arrays({Leaf("secret"), Undefined, X, Y}),
        x \in Shapes({"k", "constructor", "__proto__"}, MCLeaf \cup {Y, R}, 1)
                \cup {Array("0" :> Y), Binary, Opaque},
        y \in Shapes({"k"}, {Leaf("text"), Leaf("secret"), X}, 1)}
MCHeaps == {h \in AllHeaps : InUse(h)}
=============================================================================
