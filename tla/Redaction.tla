------------------------------ MODULE Redaction -----------------------------
(***************************************************************************)
(* What redactDeep() makes of a value (probe/src/redaction.ts, with its    *)
(* defaults), one call of walk() at a time: the calls still to be made are *)
(* a list, the result is a tree, kept as the set of its entries.           *)
(*                                                                         *)
(* This is about what is given to redactDeep(), like the body of a request *)
(* or response and the rows of a query.  Not all that is recorded is:      *)
(* Redis results, arguments of fs calls, the URL of a request and the      *)
(* error messages of Postgres are recorded as they are.                    *)
(***************************************************************************)
EXTENDS Values

CONSTANTS Heaps,           \* the values: heaps with the root Live
          MaxRedactDepth,  \* maxDepth
          FieldNames,      \* fieldNames: keys whose values are replaced
          Secret           \* leaves that looksLikeSecret() recognises

Live == Ref(<<"live", "r">>)

Replacement == Leaf("[REDACTED]")
Circular == Leaf("[CIRCULAR]")
Bytes == Leaf("[REDACTED_BINARY]")

ASSUME RedactionConstants ==
    MaxRedactDepth \in Nat /\ {Replacement.leaf, Circular.leaf, Bytes.leaf} \cap Secret = {}

ASSUME HeapsClosed ==
    \A h \in Heaps :
        /\ Live.ref \in DOMAIN h
        /\ \A i \in DOMAIN h :
              /\ i[1] = "live"
              /\ h[i].kind \in {"object", "array", "binary", "opaque"}
              /\ IsArray(h[i]) => DOMAIN h[i].at \subseteq Indices
              /\ \A k \in DOMAIN h[i].at :
                    IsLeaf(h[i].at[k]) \/ h[i].at[k] \in {Ref(j) : j \in DOMAIN h}

VARIABLES
    heap,     \* the value as the program built it
    work,     \* the calls of walk() still to be made
    visited,  \* visited
    kept      \* what walk() returned: path, value, and (history) what was there

redactVars == <<heap, work, visited, kept>>

Call(value, was, path, depth) == [value |-> value, was |-> was, path |-> path, depth |-> depth]
Container(kind) == [kind |-> kind]
\* What is no array is walked as the object of its enumerable keys.
KindKept(kind) == IF kind = "array" THEN "array" ELSE "object"
HasEntries(q) == DOMAIN q.value = {"kind"}

\* A mutant of Masked: an object under a sensitive key is looked into instead.
MaskedLeaf(k, v) == IF k \in FieldNames /\ IsLeaf(v) THEN Replacement ELSE v

\* A sensitive key hides its value, whatever it is.
Masked(k, v) == IF k \in FieldNames THEN Replacement ELSE v

\* A mutant of Marked: what an object refers to is marked with it.
MarkedEarly(h, id) ==
    {id} \cup {h[id].at[k].ref : k \in {x \in DOMAIN h[id].at : ~IsLeaf(h[id].at[x])}}

\* What is marked as visited when walk() enters an object.
Marked(h, id) == {id}

\* The call for what lies under a key; an element of an array has no name.
Inner(w, k) ==
    LET s == heap[w.value.ref]
    IN  Call(IF IsArray(s) THEN s.at[k] ELSE Masked(k, s.at[k]), s.at[k],
             Append(w.path, k), w.depth + 1)

\* walk() returns this, and calls itself for what lies under these keys.
Return(w, value, keys) ==
    /\ kept' = kept \cup {[path |-> w.path, value |-> value, was |-> w.was]}
    /\ work' = [i \in DOMAIN keys |-> Inner(w, keys[i])] \o Tail(work)

TooDeep(w) == w.depth > MaxRedactDepth

ReturnLeaf(w) ==
    /\ TooDeep(w) \/ IsLeaf(w.value)
    /\ Return(w, IF TooDeep(w) \/ w.value.leaf \in Secret THEN Replacement ELSE w.value, <<>>)
    /\ UNCHANGED visited

ReturnCircular(w) ==
    /\ ~TooDeep(w) /\ ~IsLeaf(w.value) /\ w.value.ref \in visited
    /\ Return(w, Circular, <<>>)
    /\ UNCHANGED visited

Enter(w) ==
    LET s == heap[w.value.ref]
    IN  /\ ~TooDeep(w) /\ ~IsLeaf(w.value) /\ w.value.ref \notin visited
        /\ visited' = visited \cup Marked(heap, w.value.ref)
        /\ IF s.kind = "binary" THEN Return(w, Bytes, <<>>)
           ELSE \E keys \in Orders(DOMAIN s.at, IsArray(s)) : Return(w, Container(KindKept(s.kind)), keys)

\* walk()
Walk ==
    /\ work # <<>>
    /\ ReturnLeaf(Head(work)) \/ ReturnCircular(Head(work)) \/ Enter(Head(work))
    /\ UNCHANGED heap

\* redactDeep() begins.
RedactInit ==
    /\ heap \in Heaps
    /\ work = <<Call(Live, Live, <<>>, 0)>>
    /\ visited = {} /\ kept = {}

\* The result: result["__proto__"] = .. adds no entry, whatever walk() returned.
Kept == {q \in kept : \A i \in DOMAIN q.path : q.path[i] # Proto}

Root(tag) == <<tag, <<>>>>

\* The tree of the entries as a heap of its own.
Tree(tag, entries) ==
    LET Containers == {q \in entries : HasEntries(q)}
        Below(p) == {q \in entries : Len(q.path) = Len(p.path) + 1 /\ Front(q.path) = p.path}
        value(q) == IF HasEntries(q) THEN Ref(<<tag, q.path>>) ELSE q.value
        shape(p) == [kind |-> p.value.kind,
                     at |-> [k \in {Last(q.path) : q \in Below(p)} |->
                               value(CHOOSE q \in Below(p) : Last(q.path) = k)]]
    IN  [id \in {<<tag, p.path>> : p \in Containers} |->
            shape(CHOOSE p \in Containers : <<tag, p.path>> = id)]

-----------------------------------------------------------------------------
\* Entry q lies under key k of the object p, in the recording and in the answer.
Under(q, p, k) ==
    /\ HasEntries(p) /\ q.path = Append(p.path, k)
    /\ k \in DOMAIN heap[p.was.ref].at /\ q.was = heap[p.was.ref].at[k]

\* Entry q has the name of a sensitive field.
Sensitive(q) ==
    \E p \in kept, k \in FieldNames : p.value = Container("object") /\ q.path = Append(p.path, k)

\* Whatever the shape of a value - shared or cyclic objects, arrays, depth - no
\* leaf that looks like a secret and nothing under a sensitive name is in what
\* redactDeep() returns (redaction.ts: "Deep-redact sensitive fields from any
\* object").
NoSecretKept ==
    \A q \in kept : /\ IsLeaf(q.value) => q.value.leaf \notin Secret
                    /\ Sensitive(q) => q.value = Replacement

\* What an entry says of what was there: only what is secret, under a sensitive
\* name or too deep is replaced, [CIRCULAR] stands for an object for which
\* walk() returned something else elsewhere, and what has no keys to enumerate,
\* like a Date or a Map, is an empty object.
Tells(q) ==
    \/ IsLeaf(q.was) /\ q.value = q.was
    \/ ~IsLeaf(q.was) /\ heap[q.was.ref].kind # "binary" /\ q.value = Container(KindKept(heap[q.was.ref].kind))
    \/ ~IsLeaf(q.was) /\ heap[q.was.ref].kind = "binary" /\ q.value = Bytes
    \/ /\ q.value = Replacement
       /\ Sensitive(q) \/ Len(q.path) > MaxRedactDepth \/ (IsLeaf(q.was) /\ q.was.leaf \in Secret)
    \/ /\ q.value = Circular /\ ~IsLeaf(q.was)
       /\ \E p \in kept : p.was = q.was /\ (HasEntries(p) \/ p.value = Bytes)

\* The result has the value's own objects, arrays, keys and leaves, each once and
\* at its place, and when the walk ends it has them all, but what lies under a key
\* "__proto__": that is lost.
RedactsNothingElse ==
    /\ \A q \in Kept :
          /\ Tells(q)
          /\ \A p \in Kept : p.path = q.path => p = q
          /\ \/ q.path = <<>> /\ q.was = Live
             \/ \E p \in Kept : HasEntries(p) /\ \E k \in DOMAIN heap[p.was.ref].at : Under(q, p, k)
    /\ work = <<>> => \A p \in Kept : HasEntries(p) =>
          \A k \in DOMAIN heap[p.was.ref].at \ {Proto} : \E q \in Kept : Under(q, p, k)
=============================================================================
