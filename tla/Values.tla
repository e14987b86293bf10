------------------------------- MODULE Values -------------------------------
(***************************************************************************)
(* JavaScript values as the probe and the replay engine see them: leaves,  *)
(* and references into a heap of objects and arrays that may be shared or  *)
(* cyclic.  A heap maps identities, which are pairs of who built the       *)
(* object and where, to shapes.  The indices of an array are names too.    *)
(***************************************************************************)
EXTENDS Integers, Sequences, SequencesExt, FiniteSets

CONSTANT IndexNames   \* the names of the indices 0, 1, ... of an array

ASSUME IndicesNamed == IndexNames \in Seq(STRING) \ {<<>>}

Indices == Range(IndexNames)

Leaf(l) == [leaf |-> l]
Ref(id) == [ref |-> id]
IsLeaf(v) == DOMAIN v = {"leaf"}

Undefined == Leaf("undefined")
Null == Leaf("null")

Object(at) == [kind |-> "object", at |-> at]
Array(at) == [kind |-> "array", at |-> at]
Binary == [kind |-> "binary", at |-> <<>>]   \* an empty buffer
Opaque == [kind |-> "opaque", at |-> <<>>]   \* a Date, a Map: no keys to enumerate

IsArray(s) == s.kind = "array"

\* The orders in which the names S of a shape, of which there are finitely many,
\* may be walked: an array from its start, an object in the order in which its
\* keys were added.
Precedes(k, l) ==
    \E i, j \in DOMAIN IndexNames : i < j /\ IndexNames[i] = k /\ IndexNames[j] = l

Orders(S, indexed) ==
    {f \in SetToSeqs(S) :
        /\ IsFiniteSet(S)
        /\ indexed => \A i, j \in DOMAIN f : i < j => Precedes(f[i], f[j])}

\* The keys that the readers of JSON and the comparison leave out; an assignment
\* to the first sets the prototype of an object, and adds no key.
Proto == "__proto__"
Unsafe == {Proto, "constructor"}

\* JSON.parse(JSON.stringify(..)) with the reviver of session-io.ts, on a heap
\* without sharing: what is undefined goes from objects and is null in arrays,
\* unsafe keys go, and every object is a new one.
Fresh(tag, id) == <<tag, id[2]>>

Parsed(tag, tree) ==
    LET value(v) == IF ~IsLeaf(v) THEN Ref(Fresh(tag, v.ref))
                    ELSE IF v = Undefined THEN Null ELSE v
        Keys(s) == IF IsArray(s) THEN DOMAIN s.at
                   ELSE {k \in DOMAIN s.at \ Unsafe : s.at[k] # Undefined}
        shape(s) == [s EXCEPT !.at = [k \in Keys(s) |-> value(s.at[k])]]
    IN  [id \in {Fresh(tag, i) : i \in DOMAIN tree} |->
            shape(tree[CHOOSE i \in DOMAIN tree : Fresh(tag, i) = id])]

-----------------------------------------------------------------------------
\* The reference for comparisons: two values are the same if some relation
\* between objects pairs them and, with every pair, what lies under each key
\* that counts.
Counted(s, ignored) ==
    IF IsArray(s) THEN DOMAIN s.at ELSE DOMAIN s.at \ (Unsafe \cup ignored)

Paired(R, v, w) == v = w \/ (~IsLeaf(v) /\ ~IsLeaf(w) /\ <<v.ref, w.ref>> \in R)

Alike(h, R, i, j, ignored) ==
    /\ IsArray(h[i]) = IsArray(h[j])
    /\ Counted(h[i], ignored) = Counted(h[j], ignored)
    /\ \A k \in Counted(h[i], ignored) : Paired(R, h[i].at[k], h[j].at[k])

AllAlike(h, R, ignored) == \A p \in R : Alike(h, R, p[1], p[2], ignored)

\* The largest such relation: what is not alike is left out until all is.
AlikeIn(h, R, ignored) == {p \in R : Alike(h, R, p[1], p[2], ignored)}

Likeness(h, ignored) ==
    LET Pairs == (DOMAIN h) \X (DOMAIN h)
        Shrunk[R \in SUBSET Pairs] ==
            IF AlikeIn(h, R, ignored) = R THEN R ELSE Shrunk[AlikeIn(h, R, ignored)]
    IN  Shrunk[Pairs]

Same(h, v, w, ignored) ==
    LET R == Likeness(h, ignored) IN AllAlike(h, R, ignored) /\ Paired(R, v, w)
=============================================================================
