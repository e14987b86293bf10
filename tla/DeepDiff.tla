------------------------------ MODULE DeepDiff ------------------------------
(***************************************************************************)
(* The function deepDiff() of the replay package (replay/src/diff.ts), one *)
(* call of walk() at a time: the calls that are still to be made are a     *)
(* list.  The package exports it for its users; the engine does not call   *)
(* it.                                                                     *)
(***************************************************************************)
EXTENDS Values

CONSTANTS MaxDiffDepth,  \* maxDepth
          IgnoreFields   \* ignorePaths of the form "**.field"

\* No field that is ignored has the name of an index.
ASSUME DiffConstants == MaxDiffDepth \in Nat /\ IgnoreFields \cap Indices = {}

VARIABLES
    todo,     \* the calls of walk() still to be made
    seen,     \* seen
    entered,  \* (history) the calls that looked into two containers
    diffs     \* diffs

diffVars == <<todo, seen, entered, diffs>>

Difference(w, kind) == [path |-> w.path, kind |-> kind, expected |-> w.a, actual |-> w.b]

\* A mutant of ShouldIgnore: "**" stands for one key or more.
ShouldIgnoreBelow(path) == Len(path) > 1 /\ Last(path) \in IgnoreFields

\* shouldIgnore(): the last part of the path decides; an array's index is not
\* a part of its own.
ShouldIgnore(path) == path # <<>> /\ Last(path) \in IgnoreFields

\* What walk() makes of two different values: a difference of value or type, or
\* two containers of one kind to look into.
Kind(h, v, w) ==
    IF v = Undefined \/ w = Undefined \/ v = Null \/ w = Null THEN "type"
    ELSE IF IsLeaf(v) # IsLeaf(w) THEN "type"
    ELSE IF IsLeaf(v) THEN "value"
    ELSE IF IsArray(h[v.ref]) # IsArray(h[w.ref]) THEN "type"
    ELSE IF IsArray(h[v.ref]) THEN "array" ELSE "object"

At(s, k) == IF k \in DOMAIN s.at THEN s.at[k] ELSE Undefined

Child(h, w, k) == [a |-> At(h[w.a.ref], k), b |-> At(h[w.b.ref], k),
                   path |-> Append(w.path, k), depth |-> w.depth + 1]

\* The keys under which both objects, or one of the arrays, hold something.
Shared(s, t) == IF IsArray(s) THEN DOMAIN s.at \cup DOMAIN t.at
                ELSE (DOMAIN s.at \cap DOMAIN t.at) \ Unsafe

\* A mutant of Lacking: what only the actual object has is no difference.
LackingRight(h, w) ==
    {d \in {Difference(Child(h, w, k), "missing_right") :
              k \in (DOMAIN h[w.a.ref].at \ DOMAIN h[w.b.ref].at) \ Unsafe} :
        ~ShouldIgnore(d.path)}

\* missing_left and missing_right; an ignored or unsafe key is not missed.
Lacking(h, w) ==
    LET s == h[w.a.ref].at
        t == h[w.b.ref].at
    IN  {d \in {Difference(Child(h, w, k), "missing_left") : k \in (DOMAIN t \ DOMAIN s) \ Unsafe}
               \cup {Difference(Child(h, w, k), "missing_right") :
                       k \in (DOMAIN s \ DOMAIN t) \ Unsafe} : ~ShouldIgnore(d.path)}

\* What walk() adds to the differences, and the keys under which it calls itself.
Finds(h, found, keys) ==
    LET w == Head(todo)
    IN  /\ diffs' = diffs \cup found
        /\ todo' = [i \in DOMAIN keys |-> Child(h, w, keys[i])] \o Tail(todo)

\* walk() returns at once: too deep, ignored, or identical.
PassOver(h, w) ==
    /\ w.depth > MaxDiffDepth \/ ShouldIgnore(w.path) \/ w.a = w.b
    /\ Finds(h, {}, <<>>)
    /\ UNCHANGED <<seen, entered>>

Differing(h, w, kinds) ==
    /\ w.depth <= MaxDiffDepth /\ ~ShouldIgnore(w.path) /\ w.a # w.b
    /\ Kind(h, w.a, w.b) \in kinds

WalkLeaf(h, w) ==
    /\ Differing(h, w, {"value", "type"})
    /\ Finds(h, {Difference(w, Kind(h, w.a, w.b))}, <<>>)
    /\ UNCHANGED <<seen, entered>>

WalkArray(h, w) ==
    LET s == h[w.a.ref]
        t == h[w.b.ref]
    IN  /\ Differing(h, w, {"array"})
        /\ \E keys \in Orders(Shared(s, t), TRUE) :
              Finds(h, IF DOMAIN s.at = DOMAIN t.at THEN {} ELSE {Difference(w, "array_length")}, keys)
        /\ entered' = entered \cup {w}
        /\ UNCHANGED seen

\* An object that was seen on either side is passed over.
WalkObject(h, w) ==
    /\ Differing(h, w, {"object"})
    /\ IF {w.a.ref, w.b.ref} \cap seen # {} THEN Finds(h, {}, <<>>) /\ UNCHANGED <<seen, entered>>
       ELSE /\ \E keys \in Orders(Shared(h[w.a.ref], h[w.b.ref]), FALSE) : Finds(h, Lacking(h, w), keys)
            /\ seen' = seen \cup {w.a.ref, w.b.ref}
            /\ entered' = entered \cup {w}

\* walk(a, b, path, depth)
WalkBoth(h) ==
    /\ todo # <<>>
    /\ LET w == Head(todo)
       IN  PassOver(h, w) \/ WalkLeaf(h, w) \/ WalkArray(h, w) \/ WalkObject(h, w)

\* deepDiff() begins.
DeepDiffOf(expected, actual) == <<[a |-> expected, b |-> actual, path |-> <<>>, depth |-> 0]>>
=============================================================================
