---------------------------- MODULE ArchiveProofs ---------------------------
(***************************************************************************)
(* Proofs about what becomes of a value (module Archive), for every heap   *)
(* of objects: redactDeep() lets no secret through and tells what it left  *)
(* out, a binary file is read as it was written or not at all, and         *)
(* deepDiff() finds a difference exactly where there is one.               *)
(***************************************************************************)
EXTENDS Archive, SequenceTheorems, FiniteSetTheorems, WellFoundedInduction, TLAPS

-----------------------------------------------------------------------------
(***************************************************************************)
(* Leaves, references and containers are told apart by their only field.   *)
(***************************************************************************)
LEMMA LeafForm == \A l : IsLeaf(Leaf(l)) /\ Leaf(l).leaf = l /\ DOMAIN Leaf(l) # {"kind"}
BY DEF IsLeaf, Leaf

LEMMA RefForm == \A i : ~IsLeaf(Ref(i)) /\ Ref(i).ref = i /\ DOMAIN Ref(i) # {"kind"}
BY DEF IsLeaf, Ref

LEMMA ContainerForm ==
    \A k : DOMAIN Container(k) = {"kind"} /\ ~IsLeaf(Container(k)) /\ Container(k).kind = k
BY DEF IsLeaf, Container

\* List u is s with t in the place of its first element.
NewFront(s, t, u) ==
    /\ \A i \in DOMAIN u :
          \/ i \in DOMAIN t /\ u[i] = t[i]
          \/ /\ i - Len(t) + 1 \in DOMAIN s /\ i - Len(t) + 1 # 1
             /\ i > Len(t) /\ i \in Nat /\ u[i] = s[i - Len(t) + 1]
    /\ \A i \in DOMAIN t : i \in DOMAIN u /\ u[i] = t[i]
    /\ \A j \in DOMAIN s : j # 1 => \E i \in DOMAIN u : u[i] = s[j]

LEMMA CallReplaced ==
    ASSUME NEW C, NEW s \in Seq(C), s # <<>>, NEW t \in Seq(C)
    PROVE  t \o Tail(s) \in Seq(C) /\ NewFront(s, t, t \o Tail(s))
<1> DEFINE u == t \o Tail(s)
<1>1. /\ Tail(s) \in Seq(C) /\ Len(Tail(s)) = Len(s) - 1 /\ Len(s) \in Nat /\ Len(s) > 0
      /\ \A i \in 1..Len(Tail(s)) : Tail(s)[i] = s[i + 1]
  BY HeadTailProperties, EmptySeq, LenProperties
<1>2. /\ u \in Seq(C) /\ Len(u) = Len(t) + Len(s) - 1
      /\ \A i \in 1..Len(u) : u[i] = IF i <= Len(t) THEN t[i] ELSE Tail(s)[i - Len(t)]
  BY <1>1, ConcatProperties
<1>3. Len(t) \in Nat /\ DOMAIN u = 1..Len(u) /\ DOMAIN s = 1..Len(s) /\ DOMAIN t = 1..Len(t)
  BY <1>2, LenProperties
<1> HIDE DEF u
<1>4. ASSUME NEW i \in DOMAIN u
      PROVE  \/ i \in DOMAIN t /\ u[i] = t[i]
             \/ /\ i - Len(t) + 1 \in DOMAIN s /\ i - Len(t) + 1 # 1
                /\ i > Len(t) /\ i \in Nat /\ u[i] = s[i - Len(t) + 1]
  <2>1. CASE i <= Len(t)
    BY <1>2, <1>3, <2>1
  <2>2. CASE i > Len(t)
    <3>1. i \in 1..(Len(t) + Len(s) - 1)
      BY <1>2, <1>3
    <3>2. i - Len(t) \in 1..Len(Tail(s)) /\ ~(i <= Len(t))
      BY <1>1, <1>3, <2>2, <3>1
    <3>3. u[i] = s[i - Len(t) + 1]
      BY <1>1, <1>2, <1>3, <3>2
    <3>4. i - Len(t) + 1 \in DOMAIN s /\ i - Len(t) + 1 # 1
      BY <1>1, <1>3, <2>2, <3>1
    <3> QED
      BY <2>2, <3>1, <3>3, <3>4
  <2> QED
    BY <1>3, <2>1, <2>2
<1>5. ASSUME NEW i \in DOMAIN t PROVE i \in DOMAIN u /\ u[i] = t[i]
  BY <1>1, <1>2, <1>3
<1>6. ASSUME NEW j \in DOMAIN s, j # 1 PROVE \E i \in DOMAIN u : u[i] = s[j]
  <2>1. j - 1 \in 1..Len(Tail(s)) /\ j - 1 + Len(t) \in DOMAIN u /\ j - 1 + Len(t) > Len(t)
    BY <1>1, <1>2, <1>3, <1>6
  <2>2. u[j - 1 + Len(t)] = s[j]
    BY <1>1, <1>2, <1>3, <2>1
  <2> QED
    BY <2>1, <2>2
<1> QED
  BY <1>2, <1>4, <1>5, <1>6 DEF u, NewFront

\* The keys of a shape, in an order: each of them, and once.
LEMMA OrderedKeys ==
    ASSUME NEW S, NEW indexed, NEW keys \in Orders(S, indexed)
    PROVE  /\ keys \in Seq(S)
           /\ \A k \in S : \E i \in DOMAIN keys : keys[i] = k
           /\ \A i, j \in DOMAIN keys : keys[i] = keys[j] => i = j
<1> DEFINE D == 1..Cardinality(S)
<1>1. IsFiniteSet(S) /\ Cardinality(S) \in Nat
  BY FS_CardinalityType DEF Orders
<1>2. keys \in [D -> S] /\ \A i, j \in D : i # j => keys[i] # keys[j]
  BY DEF Orders, SetToSeqs
<1>3. keys \in Seq(S)
  BY <1>1, <1>2, SeqDef
<1>4. keys \in Injection(D, S)
  BY <1>2 DEF Injection, IsInjective
<1>5. IsFiniteSet(D) /\ Cardinality(D) = Cardinality(S)
  BY <1>1, FS_Interval
<1>6. keys \in Surjection(D, S)
  BY <1>1, <1>4, <1>5, FS_Injection
<1> QED
  BY <1>2, <1>3, <1>6 DEF Surjection

-----------------------------------------------------------------------------
(***************************************************************************)
(* The walk.  A place is an entry of the recording or a call still to be   *)
(* made.  Every place but the root lies under an entry, and no two places  *)
(* have the same path: so what is said of an entry by the object above it  *)
(* is said by one object.                                                  *)
(***************************************************************************)
Key == UNION {UNION {DOMAIN h[i].at : i \in DOMAIN h} : h \in Heaps}

Value == {Live, Replacement}
           \cup UNION {UNION {{h[i].at[k] : k \in DOMAIN h[i].at} : i \in DOMAIN h} : h \in Heaps}

Calls == [value: Value, was: Value, path: Seq(Key), depth: Nat]

CallAt(w) == \E i \in DOMAIN work : work[i] = w

Place(q) == q \in kept \/ CallAt(q)

\* A value of this heap.
Known(v) == IsLeaf(v) \/ v \in {Ref(j) : j \in DOMAIN heap}

Rooted(q) ==
    \/ q.path = <<>> /\ q.was = Live
    \/ \E p \in kept : HasEntries(p) /\ \E k \in DOMAIN heap[p.was.ref].at : Under(q, p, k)

Hidden(q) == Sensitive(q) => q.value = Replacement

\* A call is made with what was there, or with what replaces it.
Honest(w) ==
    /\ w.value = w.was \/ (w.value = Replacement /\ Sensitive(w))
    /\ w.depth = Len(w.path) /\ Known(w.was)

Shown(id) == \E p \in kept : p.was = Ref(id) /\ (HasEntries(p) \/ p.value = Bytes)

EntryInv(q) ==
    /\ q.path \in Seq(Key) /\ Rooted(q) /\ Hidden(q) /\ Tells(q)
    /\ IsLeaf(q.value) => q.value.leaf \notin Secret
    /\ HasEntries(q) => /\ q.was \in {Ref(j) : j \in DOMAIN heap}
                        /\ q.value = Container(KindKept(heap[q.was.ref].kind))

WalkInv ==
    /\ heap \in Heaps /\ work \in Seq(Calls)
    /\ \A i, j \in DOMAIN work : work[i].path = work[j].path => i = j
    /\ \A p \in kept : \A i \in DOMAIN work : p.path # work[i].path
    /\ \A p, q \in kept : p.path = q.path => p = q
    /\ \A i \in DOMAIN work : Rooted(work[i]) /\ Hidden(work[i]) /\ Honest(work[i])
    /\ \A q \in kept : EntryInv(q)
    /\ \A id \in visited : Shown(id)
    /\ \A p \in kept : HasEntries(p) =>
          \A k \in DOMAIN heap[p.was.ref].at : \E q : Place(q) /\ Under(q, p, k)

LEMMA WalkInitial == RedactInit => WalkInv
<1> SUFFICES ASSUME RedactInit PROVE WalkInv
  OBVIOUS
<1> DEFINE c == Call(Live, Live, <<>>, 0)
<1>1. heap \in Heaps /\ work = <<c>> /\ visited = {} /\ kept = {}
  BY DEF RedactInit
<1>2. /\ c.value = Live /\ c.was = Live /\ c.path = <<>> /\ c.depth = 0
      /\ c \in Calls
  BY DEF Call, Calls, Value
<1> HIDE DEF c
<1>3. work \in Seq(Calls) /\ DOMAIN work = {1} /\ work[1] = c
  BY <1>1, <1>2
<1>4. Rooted(c) /\ Hidden(c)
  BY <1>1, <1>2 DEF Rooted, Hidden, Sensitive
<1>5. Honest(c)
  BY <1>1, <1>2, HeapsClosed, EmptySeq DEF Honest, Known, Live, Ref
<1> QED
  BY <1>1, <1>3, <1>4, <1>5 DEF WalkInv

\* What lies under different keys has different paths.
LEMMA PathsApart ==
    ASSUME NEW p \in Seq(Key), NEW q \in Seq(Key), NEW k, NEW l
    PROVE  /\ Append(p, k) # <<>>
           /\ Append(p, k) = Append(q, l) => p = q /\ k = l
           /\ k \in Key => Append(p, k) \in Seq(Key) /\ Len(Append(p, k)) = Len(p) + 1
<1>1. k \in Key => Append(p, k) \in Seq(Key) /\ Len(Append(p, k)) = Len(p) + 1
  BY AppendProperties
<1>2. /\ p \in Seq(Key \cup {k, l}) /\ q \in Seq(Key \cup {k, l})
  BY SeqMonotonic
<1>3. Append(p, k) # <<>>
  BY <1>2, AppendProperties
<1>4. Append(p, k) = Append(q, l) => p = q /\ k = l
  BY <1>2, AppendInjective
<1> QED
  BY <1>1, <1>3, <1>4

\* What walk() hands on of a container.
LEMMA InnerCall ==
    ASSUME heap \in Heaps, NEW w \in Calls, w.value = w.was, w.was \in {Ref(j) : j \in DOMAIN heap},
           NEW k \in DOMAIN heap[w.was.ref].at
    PROVE  LET s == heap[w.was.ref]
               c == Inner(w, k)
           IN  /\ c \in Calls /\ k \in Key /\ Known(s.at[k])
               /\ c.was = s.at[k] /\ c.path = Append(w.path, k) /\ c.depth = w.depth + 1
               /\ c.value = IF IsArray(s) \/ k \notin FieldNames THEN s.at[k] ELSE Replacement
<1> DEFINE s == heap[w.was.ref]
           c == Inner(w, k)
<1>1. PICK j \in DOMAIN heap : w.was = Ref(j)
  OBVIOUS
<1>2. w.was.ref \in DOMAIN heap
  BY <1>1, RefForm
<1>3. k \in Key
  BY <1>2 DEF Key
<1>4. s.at[k] \in Value
  BY <1>2 DEF Value
<1>5. Known(s.at[k])
  BY <1>2, HeapsClosed DEF Known
<1>6. /\ c.was = s.at[k] /\ c.path = Append(w.path, k) /\ c.depth = w.depth + 1
      /\ c.value = IF IsArray(s) \/ k \notin FieldNames THEN s.at[k] ELSE Replacement
      /\ c = [value |-> c.value, was |-> c.was, path |-> c.path, depth |-> c.depth]
  BY DEF Inner, Call, Masked
<1>7. Replacement \in Value
  BY DEF Value
<1> HIDE DEF c, s
<1>8. c.path \in Seq(Key) /\ c.depth \in Nat /\ c.value \in Value /\ c.was \in Value
  BY <1>3, <1>4, <1>6, <1>7, PathsApart DEF Calls
<1>9. c \in Calls
  BY <1>6, <1>8 DEF Calls
<1> QED
  BY <1>3, <1>5, <1>6, <1>9 DEF c, s

-----------------------------------------------------------------------------
\* What walk() may return for a call, whichever way it ends: what it shows, and
\* the keys of what it looks into.
Returns(w, value, keys) ==
    LET e == [path |-> w.path, value |-> value, was |-> w.was]
    IN  /\ Tells(e)
        /\ IsLeaf(value) => value.leaf \notin Secret
        /\ Sensitive(w) => value = Replacement
        /\ \A id \in visited' :
              id \in visited \/ (w.was = Ref(id) /\ (HasEntries(e) \/ value = Bytes))
        /\ \/ ~HasEntries(e) /\ keys = <<>>
           \/ LET s == heap[w.was.ref]
              IN  /\ w.value = w.was /\ w.was \in {Ref(j) : j \in DOMAIN heap}
                  /\ s.kind # "binary" /\ value = Container(KindKept(s.kind))
                  /\ keys \in Seq(DOMAIN s.at)
                  /\ \A k \in DOMAIN s.at : \E i \in DOMAIN keys : keys[i] = k
                  /\ \A i, j \in DOMAIN keys : keys[i] = keys[j] => i = j

\* The calls that a return adds.
LEMMA CallsAdded ==
    ASSUME WalkInv, NEW w \in Calls, NEW value, NEW keys, Returns(w, value, keys)
    PROVE  LET t == [i \in DOMAIN keys |-> Inner(w, keys[i])]
           IN  /\ t \in Seq(Calls) /\ DOMAIN t = DOMAIN keys
               /\ \A i \in DOMAIN t :
                     /\ value = Container(KindKept(heap[w.was.ref].kind)) /\ heap[w.was.ref].kind # "binary"
                     /\ keys[i] \in DOMAIN heap[w.was.ref].at /\ keys[i] \in Key
                     /\ t[i].path = Append(w.path, keys[i]) /\ t[i].depth = w.depth + 1
                     /\ t[i].was = heap[w.was.ref].at[keys[i]] /\ Known(t[i].was)
                     /\ t[i].value = IF IsArray(heap[w.was.ref]) \/ keys[i] \notin FieldNames
                                     THEN t[i].was ELSE Replacement
<1> DEFINE t == [i \in DOMAIN keys |-> Inner(w, keys[i])]
<1>1. CASE keys = <<>>
  BY <1>1
<1>2. CASE keys # <<>>
  <2> DEFINE s == heap[w.was.ref]
  <2>1. /\ w.value = w.was /\ w.was \in {Ref(j) : j \in DOMAIN heap}
        /\ s.kind # "binary" /\ value = Container(KindKept(s.kind)) /\ keys \in Seq(DOMAIN s.at)
    BY <1>2 DEF Returns
  <2>2. Len(keys) \in Nat /\ DOMAIN keys = 1..Len(keys) /\ \A i \in DOMAIN keys : keys[i] \in DOMAIN s.at
    BY <2>1, ElementOfSeq, LenProperties
  <2>3. ASSUME NEW i \in DOMAIN t
        PROVE  /\ t[i] = Inner(w, keys[i]) /\ t[i] \in Calls /\ keys[i] \in Key
               /\ t[i].path = Append(w.path, keys[i]) /\ t[i].depth = w.depth + 1
               /\ t[i].was = s.at[keys[i]] /\ Known(t[i].was)
               /\ t[i].value = IF IsArray(s) \/ keys[i] \notin FieldNames THEN t[i].was ELSE Replacement
    BY <2>1, <2>2, InnerCall DEF WalkInv
  <2>4. t \in Seq(Calls)
    BY <2>2, <2>3, SeqDef
  <2> QED
    BY <2>1, <2>2, <2>3, <2>4
<1> QED
  BY <1>1, <1>2

\* A call returns: the places and what is said of them.
LEMMA ReturnKeeps ==
    ASSUME WalkInv, work # <<>>, NEW value, NEW keys, UNCHANGED heap,
           Returns(Head(work), value, keys), Return(Head(work), value, keys)
    PROVE  WalkInv'
<1>w. PICK w : w = Head(work)
  OBVIOUS
<1>e. PICK e : e = [path |-> w.path, value |-> value, was |-> w.was]
  OBVIOUS
<1>t. PICK t : t = [i \in DOMAIN keys |-> Inner(w, keys[i])]
  OBVIOUS
<1> DEFINE New(i) == i - Len(t) + 1
<1>1. /\ w = work[1] /\ 1 \in DOMAIN work /\ w \in Calls
      /\ \A i \in DOMAIN work : work[i] \in Calls
  BY <1>w, HeadTailProperties, ElementOfSeq, LenProperties, EmptySeq DEF WalkInv
<1>2. /\ t \in Seq(Calls) /\ DOMAIN t = DOMAIN keys
      /\ \A i \in DOMAIN t :
            /\ value = Container(KindKept(heap[w.was.ref].kind)) /\ heap[w.was.ref].kind # "binary"
            /\ keys[i] \in DOMAIN heap[w.was.ref].at /\ keys[i] \in Key
            /\ t[i].path = Append(w.path, keys[i]) /\ t[i].depth = w.depth + 1
            /\ t[i].was = heap[w.was.ref].at[keys[i]] /\ Known(t[i].was)
            /\ t[i].value = IF IsArray(heap[w.was.ref]) \/ keys[i] \notin FieldNames
                            THEN t[i].was ELSE Replacement
  BY <1>1, <1>w, <1>t, CallsAdded
<1>3. heap' = heap /\ kept' = kept \cup {e} /\ work' = t \o Tail(work)
  BY <1>w, <1>e, <1>t DEF Return
<1>4. /\ e.path = w.path /\ e.value = value /\ e.was = w.was
      /\ HasEntries(e) <=> DOMAIN value = {"kind"}
  BY <1>e DEF HasEntries
<1>5. /\ Tells(e)
      /\ IsLeaf(value) => value.leaf \notin Secret
      /\ Sensitive(w) => value = Replacement
      /\ \A id \in visited' :
            id \in visited \/ (w.was = Ref(id) /\ (HasEntries(e) \/ value = Bytes))
      /\ HasEntries(e) =>
            /\ w.was \in {Ref(j) : j \in DOMAIN heap} /\ value = Container(KindKept(heap[w.was.ref].kind))
            /\ \A k \in DOMAIN heap[w.was.ref].at : \E i \in DOMAIN t : keys[i] = k
      /\ \A i, j \in DOMAIN t : keys[i] = keys[j] => i = j
  <2>1. /\ Tells(e)
        /\ IsLeaf(value) => value.leaf \notin Secret
        /\ Sensitive(w) => value = Replacement
        /\ \A id \in visited' :
              id \in visited \/ (w.was = Ref(id) /\ (HasEntries(e) \/ value = Bytes))
    BY <1>w, <1>e DEF Returns
  <2>2. \/ ~HasEntries(e) /\ keys = <<>>
        \/ /\ w.was \in {Ref(j) : j \in DOMAIN heap} /\ value = Container(KindKept(heap[w.was.ref].kind))
           /\ \A k \in DOMAIN heap[w.was.ref].at : \E i \in DOMAIN keys : keys[i] = k
           /\ \A i, j \in DOMAIN keys : keys[i] = keys[j] => i = j
    BY <1>w, <1>e DEF Returns
  <2>3. DOMAIN t = DOMAIN keys /\ DOMAIN <<>> = {}
    BY <1>2, EmptySeq
  <2> QED
    BY <2>1, <2>2, <2>3
<1>6. /\ work' \in Seq(Calls)
      /\ \A i \in DOMAIN work' :
            \/ i \in DOMAIN t /\ work'[i] = t[i]
            \/ /\ New(i) \in DOMAIN work /\ New(i) # 1
               /\ i > Len(t) /\ i \in Nat /\ work'[i] = work[New(i)]
      /\ \A i \in DOMAIN t : i \in DOMAIN work' /\ work'[i] = t[i]
      /\ \A j \in DOMAIN work : j # 1 => \E i \in DOMAIN work' : work'[i] = work[j]
  <2>1. work \in Seq(Calls) /\ work # <<>> /\ t \in Seq(Calls)
    BY <1>2 DEF WalkInv
  <2>2. t \o Tail(work) \in Seq(Calls) /\ NewFront(work, t, t \o Tail(work))
    BY <2>1, CallReplaced
  <2> QED
    BY <1>3, <2>2 DEF NewFront
<1>7. ASSUME NEW q PROVE /\ Rooted(q) => Rooted(q)'
                         /\ Sensitive(q) => Sensitive(q)'
                         /\ Tells(q) => Tells(q)'
                         /\ Known(q) <=> Known(q)'
                         /\ Shown(q) => Shown(q)'
  <2>1. kept \subseteq kept'
    BY <1>3
  <2>2. Sensitive(q) => Sensitive(q)'
    BY <2>1 DEF Sensitive
  <2> QED
    BY <1>3, <2>1, <2>2 DEF Rooted, Under, Tells, Known, Shown
\* Nothing lies yet below the call that returns.
<1>8. ASSUME NEW q, Place(q) \/ q = w PROVE q.path \in Seq(Key) /\ Rooted(q)
  BY <1>1, <1>8 DEF Place, CallAt, WalkInv, EntryInv, Calls
<1>9. ASSUME NEW q, Place(q) \/ q = w, NEW k PROVE q.path # Append(w.path, k)
  <2> SUFFICES ASSUME q.path = Append(w.path, k) PROVE FALSE
    OBVIOUS
  <2>1. q.path \in Seq(Key) /\ Rooted(q) /\ w.path \in Seq(Key)
    BY <1>8, <1>9
  <2>2. PICK p \in kept : \E l : q.path = Append(p.path, l)
    BY <2>1, PathsApart DEF Rooted, Under
  <2>3. p.path \in Seq(Key)
    BY <2>2 DEF WalkInv, EntryInv
  <2>4. PICK l : Append(w.path, k) = Append(p.path, l)
    BY <2>2
  <2>5. p.path = w.path
    <3>1. PICK a, b : a = p.path /\ b = w.path
      OBVIOUS
    <3>2. a \in Seq(Key) /\ b \in Seq(Key) /\ Append(b, k) = Append(a, l)
      BY <2>1, <2>3, <2>4, <3>1
    <3>3. b = a
      BY <3>2, PathsApart
    <3> QED
      BY <3>1, <3>3
  <2> QED
    BY <1>1, <2>2, <2>5 DEF WalkInv
<1>10. ASSUME NEW q, Place(q) \/ q = w PROVE Sensitive(q)' => Sensitive(q)
  BY <1>3, <1>4, <1>9, <1>10 DEF Sensitive
<1>11. ASSUME NEW i \in DOMAIN work
      PROVE  Place(work[i]) /\ Rooted(work[i]) /\ Hidden(work[i]) /\ Honest(work[i])
  BY DEF Place, CallAt, WalkInv
<1>12. ASSUME NEW i \in DOMAIN work', NEW j \in DOMAIN work', work'[i].path = work'[j].path
      PROVE  i = j
  <2>1. CASE i \in DOMAIN t /\ work'[i] = t[i] /\ j \in DOMAIN t /\ work'[j] = t[j]
    <3>1. Append(w.path, keys[i]) = Append(w.path, keys[j]) /\ w.path \in Seq(Key)
      BY <1>2, <1>8, <1>12, <2>1
    <3> QED
      BY <1>5, <2>1, <3>1, PathsApart
  <2>2. CASE i \in DOMAIN t /\ work'[i] = t[i] /\ New(j) \in DOMAIN work /\ work'[j] = work[New(j)]
    <3>1. work[New(j)].path # Append(w.path, keys[i])
      BY <1>9, <1>11, <2>2
    <3> QED
      BY <1>2, <1>12, <2>2, <3>1
  <2>3. CASE j \in DOMAIN t /\ work'[j] = t[j] /\ New(i) \in DOMAIN work /\ work'[i] = work[New(i)]
    <3>1. work[New(i)].path # Append(w.path, keys[j])
      BY <1>9, <1>11, <2>3
    <3> QED
      BY <1>2, <1>12, <2>3, <3>1
  <2>4. CASE /\ New(i) \in DOMAIN work /\ i \in Nat /\ work'[i] = work[New(i)]
             /\ New(j) \in DOMAIN work /\ j \in Nat /\ work'[j] = work[New(j)]
    <3>1. New(i) = New(j)
      BY <1>12, <2>4 DEF WalkInv
    <3>2. Len(t) \in Nat
      BY <1>2, LenProperties
    <3> QED
      BY <2>4, <3>1, <3>2
  <2> QED
    BY <1>6, <2>1, <2>2, <2>3, <2>4
<1>13. ASSUME NEW p \in kept', NEW i \in DOMAIN work' PROVE p.path # work'[i].path
  <2>1. CASE i \in DOMAIN t /\ work'[i] = t[i]
    <3>1. p \in kept => p.path # Append(w.path, keys[i])
      BY <1>9 DEF Place
    <3>2. w.path # Append(w.path, keys[i])
      BY <1>9
    <3> QED
      BY <1>2, <1>3, <1>4, <2>1, <3>1, <3>2
  <2>2. CASE New(i) \in DOMAIN work /\ New(i) # 1 /\ work'[i] = work[New(i)]
    BY <1>1, <1>3, <1>4, <2>2 DEF WalkInv
  <2> QED
    BY <1>6, <2>1, <2>2
<1>14. ASSUME NEW p \in kept', NEW q \in kept', p.path = q.path PROVE p = q
  BY <1>1, <1>3, <1>4, <1>14 DEF WalkInv
<1>15. ASSUME NEW i \in DOMAIN work'
       PROVE  (Rooted(work[i]) /\ Hidden(work[i]) /\ Honest(work[i]))'
  <2>1. CASE i \in DOMAIN t /\ work'[i] = t[i]
    <3> DEFINE c == t[i]
               s == heap[w.was.ref]
    <3>1. /\ e \in kept' /\ HasEntries(e) /\ c.path = Append(e.path, keys[i])
          /\ keys[i] \in DOMAIN s.at /\ c.was = s.at[keys[i]] /\ e.value = Container(KindKept(s.kind))
      BY <1>2, <1>3, <1>4, <2>1, ContainerForm
    <3>2. Rooted(c)'
      BY <1>3, <1>4, <3>1 DEF Rooted, Under
    <3>3. ASSUME NEW p \in kept', NEW k \in FieldNames,
                 p.value = Container("object"), c.path = Append(p.path, k)
          PROVE  c.value = Replacement
      <4>1. p.path \in Seq(Key) /\ w.path \in Seq(Key)
        BY <1>3, <1>4, <1>8 DEF Place
      <4>0. Append(w.path, keys[i]) = Append(p.path, k)
        BY <1>4, <3>1, <3>3
      <4>2. p.path = w.path /\ keys[i] = k
        BY <4>1, <4>0, PathsApart
      <4>3. p = e
        BY <1>14, <1>4, <3>1, <4>2
      <4>4. ~IsArray(s)
        BY <3>1, <3>3, <4>3, ContainerForm DEF KindKept, IsArray
      <4> QED
        BY <1>2, <2>1, <4>2, <4>4 DEF IsArray
    <3>4. Hidden(c)'
      BY <3>3 DEF Hidden, Sensitive
    <3>5. ASSUME c.value # c.was PROVE c.value = Replacement /\ Sensitive(c)'
      <4>1. ~IsArray(s) /\ keys[i] \in FieldNames /\ c.value = Replacement
        BY <1>2, <2>1, <3>5
      <4>2. KindKept(s.kind) = "object"
        BY <4>1 DEF IsArray, KindKept
      <4> QED
        BY <3>1, <4>1, <4>2 DEF Sensitive
    <3>6. c.depth = Len(c.path) /\ Known(c.was)'
      <4>1. w.path \in Seq(Key) /\ w.depth = Len(w.path) /\ keys[i] \in Key
        BY <1>1, <1>2, <1>8, <1>11, <2>1 DEF Honest
      <4> QED
        BY <1>2, <1>7, <2>1, <4>1, PathsApart
    <3>7. Honest(c)'
      BY <3>5, <3>6 DEF Honest
    <3> QED
      BY <2>1, <3>2, <3>4, <3>7
  <2>2. CASE New(i) \in DOMAIN work /\ New(i) # 1 /\ work'[i] = work[New(i)]
    <3> DEFINE c == work[New(i)]
    <3>1. Place(c) /\ Rooted(c) /\ Hidden(c) /\ Honest(c)
      BY <1>11, <2>2
    <3> HIDE DEF c
    <3>2. ASSUME NEW x, x = c PROVE Rooted(x)' /\ Hidden(x)' /\ Honest(x)'
      BY <1>7, <1>10, <3>1, <3>2 DEF Hidden, Honest
    <3> QED
      BY <2>2, <3>2 DEF c
  <2> QED
    BY <1>6, <2>1, <2>2
<1>16. ASSUME NEW q \in kept' PROVE EntryInv(q)'
  <2>1. CASE q \in kept
    BY <1>3, <1>7, <1>10, <2>1 DEF WalkInv, EntryInv, Hidden, Place
  <2>2. CASE q = e
    <3>1. e.path \in Seq(Key) /\ Rooted(w)
      BY <1>4, <1>8
    <3>2. Rooted(e)
      BY <1>4, <3>1 DEF Rooted, Under
    <3>3. Sensitive(e)' => value = Replacement
      <4>1. Sensitive(e)' => Sensitive(w)'
        BY <1>4 DEF Sensitive
      <4> QED
        BY <1>5, <1>10, <4>1
    <3> QED
      BY <1>3, <1>4, <1>5, <1>7, <2>2, <3>1, <3>2, <3>3 DEF EntryInv, Hidden
  <2> QED
    BY <1>3, <2>1, <2>2
<1>17. ASSUME NEW id \in visited' PROVE Shown(id)'
  BY <1>3, <1>4, <1>5, <1>7 DEF WalkInv, Shown
<1>18. ASSUME NEW p \in kept', HasEntries(p), NEW k \in DOMAIN heap[p.was.ref].at
       PROVE  \E q : Place(q)' /\ Under(q, p, k)'
  <2>1. CASE p \in kept
    <3>1. PICK q : Place(q) /\ Under(q, p, k)
      BY <1>18, <2>1 DEF WalkInv
    <3>2. CASE q \in kept
      BY <1>3, <3>1, <3>2 DEF Place, Under
    <3>3. CASE q = w
      <4>1. Under(e, p, k)'
        BY <1>3, <1>4, <3>1, <3>3 DEF Under
      <4> QED
        BY <1>3, <4>1 DEF Place
    <3>4. CASE \E j \in DOMAIN work : j # 1 /\ work[j] = q
      <4>1. Place(q)'
        BY <1>6, <3>4 DEF Place, CallAt
      <4> QED
        BY <1>3, <3>1, <4>1 DEF Under
    <3> QED
      BY <1>1, <3>1, <3>2, <3>3, <3>4 DEF Place, CallAt
  <2>2. CASE p = e
    <3>1. PICK i \in DOMAIN t : keys[i] = k
      BY <1>4, <1>5, <1>18, <2>2
    <3>2. Under(t[i], e, k)'
      BY <1>2, <1>3, <1>4, <1>18, <2>2, <3>1 DEF Under
    <3> QED
      BY <1>6, <2>2, <3>1, <3>2 DEF Place, CallAt
  <2> QED
    BY <1>3, <2>1, <2>2
<1> QED
  BY <1>3, <1>6, <1>12, <1>13, <1>14, <1>15, <1>16, <1>17, <1>18 DEF WalkInv

\* The placeholders are leaves that look like no secret.
LEMMA Placeholders ==
    \A v \in {Replacement, Circular, Bytes} :
        IsLeaf(v) /\ DOMAIN v # {"kind"} /\ v.leaf \notin Secret
BY LeafForm, RedactionConstants DEF Replacement, Circular, Bytes

LEMMA LeafReturns ==
    ASSUME WalkInv, work # <<>>, ReturnLeaf(Head(work))
    PROVE  \E value, keys : Returns(Head(work), value, keys) /\ Return(Head(work), value, keys)
<1>w. PICK w : w = Head(work)
  OBVIOUS
<1> DEFINE value == IF TooDeep(w) \/ w.value.leaf \in Secret THEN Replacement ELSE w.value
<1>e. PICK e : e = [path |-> w.path, value |-> value, was |-> w.was]
  OBVIOUS
<1>1. Hidden(w) /\ Honest(w)
  BY <1>w, HeadTailProperties, LenProperties, EmptySeq DEF WalkInv
<1>2. TooDeep(w) \/ IsLeaf(w.value)
  BY <1>w DEF ReturnLeaf
<1>3. Return(w, value, <<>>) /\ visited' = visited
  BY <1>w DEF ReturnLeaf
<1>4. IsLeaf(value) /\ DOMAIN value # {"kind"} /\ value.leaf \notin Secret
  BY <1>2, Placeholders DEF TooDeep, IsLeaf
<1>5. Sensitive(w) => value = Replacement
  BY <1>1 DEF Hidden
<1>6. Tells(e)
  <2>1. CASE TooDeep(w)
    BY <1>1, <1>e, <2>1 DEF Tells, TooDeep, Honest
  <2>2. CASE ~TooDeep(w) /\ Sensitive(w)
    <3>1. Sensitive(e)
      BY <1>e, <2>2 DEF Sensitive
    <3> QED
      BY <1>5, <1>e, <2>2, <3>1 DEF Tells
  <2>3. CASE ~TooDeep(w) /\ ~Sensitive(w)
    BY <1>1, <1>2, <1>e, <2>3 DEF Tells, Honest
  <2> QED
    BY <2>1, <2>2, <2>3
<1>7. Returns(w, value, <<>>)
  BY <1>3, <1>4, <1>5, <1>6, <1>e DEF Returns, HasEntries
<1> QED
  BY <1>3, <1>7, <1>w

\* A call for a container was made with it, not with what hides it.
LEMMA ContainerCall ==
    ASSUME WalkInv, work # <<>>, ~IsLeaf(Head(work).value)
    PROVE  LET w == Head(work)
           IN  /\ w.value = w.was /\ ~Sensitive(w)
               /\ w.was.ref \in DOMAIN heap /\ w.was = Ref(w.was.ref)
<1>w. PICK w : w = Head(work)
  OBVIOUS
<1>1. Hidden(w) /\ Honest(w) /\ ~IsLeaf(w.value)
  BY <1>w, HeadTailProperties, LenProperties, EmptySeq DEF WalkInv
<1>2. w.value = w.was /\ ~Sensitive(w)
  BY <1>1, Placeholders DEF Hidden, Honest
<1>3. PICK j \in DOMAIN heap : w.was = Ref(j)
  BY <1>1, <1>2 DEF Honest, Known
<1> QED
  BY <1>2, <1>3, <1>w, RefForm

LEMMA CircularReturns ==
    ASSUME WalkInv, work # <<>>, ReturnCircular(Head(work))
    PROVE  \E value, keys : Returns(Head(work), value, keys) /\ Return(Head(work), value, keys)
<1>w. PICK w : w = Head(work)
  OBVIOUS
<1>e. PICK e : e = [path |-> w.path, value |-> Circular, was |-> w.was]
  OBVIOUS
<1>1. /\ ~IsLeaf(w.value) /\ w.value.ref \in visited
      /\ Return(w, Circular, <<>>) /\ visited' = visited
  BY <1>w DEF ReturnCircular
<1>2. w.value = w.was /\ ~Sensitive(w) /\ w.was = Ref(w.was.ref)
  BY <1>1, <1>w, ContainerCall
<1>3. Shown(w.was.ref)
  BY <1>1, <1>2 DEF WalkInv
<1>4. Tells(e)
  BY <1>1, <1>2, <1>3, <1>e DEF Tells, Shown
<1>5. IsLeaf(Circular) /\ DOMAIN Circular # {"kind"} /\ Circular.leaf \notin Secret
  BY Placeholders
<1>6. Returns(w, Circular, <<>>)
  BY <1>1, <1>2, <1>4, <1>5, <1>e DEF Returns, HasEntries
<1> QED
  BY <1>1, <1>6, <1>w

LEMMA EnterReturns ==
    ASSUME WalkInv, work # <<>>, Enter(Head(work))
    PROVE  \E value, keys : Returns(Head(work), value, keys) /\ Return(Head(work), value, keys)
<1>w. PICK w : w = Head(work)
  OBVIOUS
<1>1. ~IsLeaf(w.value) /\ visited' = visited \cup {w.value.ref}
  BY <1>w DEF Enter, Marked
<1>2. /\ w.value = w.was /\ ~Sensitive(w)
      /\ w.was.ref \in DOMAIN heap /\ w.was = Ref(w.was.ref) /\ ~IsLeaf(w.was)
  BY <1>1, <1>w, ContainerCall
<1>s. PICK s : s = heap[w.was.ref]
  OBVIOUS
<1>3. CASE s.kind = "binary"
  <2>e. PICK e : e = [path |-> w.path, value |-> Bytes, was |-> w.was]
    OBVIOUS
  <2>1. Return(w, Bytes, <<>>)
    BY <1>2, <1>3, <1>s, <1>w DEF Enter
  <2>2. Tells(e)
    BY <1>2, <1>3, <1>s, <2>e DEF Tells
  <2>3. IsLeaf(Bytes) /\ DOMAIN Bytes # {"kind"} /\ Bytes.leaf \notin Secret
    BY Placeholders
  <2>4. Returns(w, Bytes, <<>>)
    BY <1>1, <1>2, <2>2, <2>3, <2>e DEF Returns, HasEntries
  <2> QED
    BY <1>w, <2>1, <2>4
<1>4. CASE s.kind # "binary"
  <2>e. PICK e : e = [path |-> w.path, value |-> Container(KindKept(s.kind)), was |-> w.was]
    OBVIOUS
  <2>1. PICK keys \in Orders(DOMAIN s.at, IsArray(s)) : Return(w, Container(KindKept(s.kind)), keys)
    BY <1>2, <1>4, <1>s, <1>w DEF Enter
  <2>3. /\ keys \in Seq(DOMAIN s.at)
        /\ \A k \in DOMAIN s.at : \E i \in DOMAIN keys : keys[i] = k
        /\ \A i, j \in DOMAIN keys : keys[i] = keys[j] => i = j
    BY <2>1, OrderedKeys
  <2>4. Tells(e)
    BY <1>2, <1>4, <1>s, <2>e DEF Tells
  <2>5. ~IsLeaf(Container(KindKept(s.kind))) /\ HasEntries(e)
    BY <2>e, ContainerForm DEF HasEntries
  <2>6. w.was \in {Ref(j) : j \in DOMAIN heap}
    BY <1>2
  <2>7. Returns(w, Container(KindKept(s.kind)), keys)
    BY <1>1, <1>2, <1>4, <1>s, <2>3, <2>4, <2>5, <2>6, <2>e DEF Returns
  <2> QED
    BY <1>w, <2>1, <2>7
<1> QED
  BY <1>3, <1>4

LEMMA WalkKeeps == WalkInv /\ Walk => WalkInv'
<1> SUFFICES ASSUME WalkInv, Walk PROVE WalkInv'
  OBVIOUS
<1>1. work # <<>> /\ UNCHANGED heap
  BY DEF Walk
<1>2. PICK value, keys : Returns(Head(work), value, keys) /\ Return(Head(work), value, keys)
  BY <1>1, LeafReturns, CircularReturns, EnterReturns DEF Walk
<1> QED
  BY <1>1, <1>2, ReturnKeeps

LEMMA WalkStays == WalkInv /\ UNCHANGED redactVars => WalkInv'
<1> SUFFICES ASSUME WalkInv, UNCHANGED redactVars PROVE WalkInv'
  OBVIOUS
<1>1. heap' = heap /\ work' = work /\ visited' = visited /\ kept' = kept
  BY DEF redactVars
<1>2. ASSUME NEW q
      PROVE  /\ Place(q)' <=> Place(q)
             /\ Rooted(q)' <=> Rooted(q)
             /\ Sensitive(q)' <=> Sensitive(q)
             /\ Tells(q)' <=> Tells(q)
             /\ Shown(q)' <=> Shown(q)
             /\ Known(q)' <=> Known(q)
  <2>1. Sensitive(q)' <=> Sensitive(q)
    BY <1>1 DEF Sensitive
  <2> QED
    BY <1>1, <2>1 DEF Place, CallAt, Rooted, Under, Tells, Shown, Known
<1>3. ASSUME NEW q, Hidden(q) PROVE Hidden(q)' /\ (Honest(q) => Honest(q)')
  BY <1>2, <1>3 DEF Hidden, Honest
<1>4. ASSUME NEW q, EntryInv(q) PROVE EntryInv(q)'
  BY <1>1, <1>2, <1>3, <1>4 DEF EntryInv
<1>5. ASSUME NEW p \in kept, HasEntries(p), NEW k \in DOMAIN heap[p.was.ref].at
      PROVE  \E q : Place(q)' /\ Under(q, p, k)'
  BY <1>1, <1>2, <1>5 DEF WalkInv, Under
<1> QED
  BY <1>1, <1>2, <1>3, <1>4, <1>5 DEF WalkInv

\* An entry is in the result if the one above it is, but under "__proto__".
LEMMA KeptUnder ==
    ASSUME WalkInv, NEW p \in kept, NEW q \in kept, NEW k, Under(q, p, k)
    PROVE  q \in Kept <=> p \in Kept /\ k # Proto
<1>p. PICK path : path = p.path
  OBVIOUS
<1>1. path \in Seq(Key) /\ q.path = Append(path, k)
  BY <1>p DEF WalkInv, EntryInv, Under
<1>2. path \in Seq(Key \cup {k})
  BY <1>1, SeqMonotonic
<1>3. /\ Len(q.path) = Len(path) + 1 /\ q.path[Len(path) + 1] = k
      /\ \A i \in 1..Len(path) : q.path[i] = path[i]
      /\ DOMAIN q.path = 1..Len(path) + 1 /\ DOMAIN path = 1..Len(path) /\ Len(path) \in Nat
  <2>1. q.path \in Seq(Key \cup {k}) /\ Len(q.path) = Len(path) + 1
    BY <1>1, <1>2, AppendProperties
  <2>2. q.path[Len(path) + 1] = k /\ \A i \in 1..Len(path) : q.path[i] = path[i]
    BY <1>1, <1>2, AppendProperties
  <2> QED
    BY <1>2, <2>1, <2>2, LenProperties
<1>4. (\A i \in DOMAIN q.path : q.path[i] # Proto) <=> k # Proto /\ \A i \in DOMAIN path : path[i] # Proto
  <2>1. \A i \in 1..Len(path) : i \in 1..Len(path) + 1
    BY <1>3
  <2>2. \A i \in 1..Len(path) + 1 : i \in 1..Len(path) \/ i = Len(path) + 1
    BY <1>3
  <2>3. Len(path) + 1 \in 1..Len(path) + 1
    BY <1>3
  <2> QED
    BY <1>3, <2>1, <2>2, <2>3
<1> QED
  BY <1>p, <1>4 DEF Kept

\* What the invariant says of the properties of Redaction.
LEMMA WalkTells == WalkInv => NoSecretKept /\ RedactsNothingElse
<1> SUFFICES ASSUME WalkInv PROVE NoSecretKept /\ RedactsNothingElse
  OBVIOUS
<1>1. NoSecretKept
  BY DEF WalkInv, EntryInv, Hidden, NoSecretKept
<1>2. ASSUME work = <<>>, NEW p \in Kept, HasEntries(p), NEW k \in DOMAIN heap[p.was.ref].at \ {Proto}
      PROVE  \E q \in Kept : Under(q, p, k)
  <2>1. p \in kept
    BY DEF Kept
  <2>2. PICK q \in kept : Under(q, p, k)
    BY <1>2, <2>1 DEF WalkInv, Place, CallAt
  <2> QED
    BY <2>1, <2>2, KeptUnder
<1>3. ASSUME NEW q \in Kept
      PROVE  /\ Tells(q)
             /\ \A p \in Kept : p.path = q.path => p = q
             /\ \/ q.path = <<>> /\ q.was = Live
                \/ \E p \in Kept : HasEntries(p) /\ \E k \in DOMAIN heap[p.was.ref].at : Under(q, p, k)
  <2>1. q \in kept /\ Kept \subseteq kept
    BY DEF Kept
  <2>2. Tells(q) /\ Rooted(q) /\ \A p \in kept : p.path = q.path => p = q
    BY <2>1 DEF WalkInv, EntryInv
  <2>3. ASSUME NEW p \in kept, NEW k, Under(q, p, k) PROVE p \in Kept
    BY <2>1, <2>3, KeptUnder
  <2> QED
    BY <2>1, <2>2, <2>3 DEF Rooted
<1>4. RedactsNothingElse
  BY <1>2, <1>3 DEF RedactsNothingElse
<1> QED
  BY <1>1, <1>4

-----------------------------------------------------------------------------
(***************************************************************************)
(* The file.  A damaged binary file holds no checksum but the one that was *)
(* written; where it is read, it is that of all words before it, so these  *)
(* are the ones that were written.                                         *)
(***************************************************************************)
WrittenWords ==
    <<Magic, Number(1), Number(Len(Metadata(Session)))>> \o Metadata(Session)
        \o <<Number(1), Number(Len(Events(Session)))>> \o Events(Session)

PlainWords ==
    {Magic, Junk, MetadataText("s1"), MetadataText("s2"), EventsText(<<>>, 1),
     EventsText(Session.events, 1), EventsText(Session.events, 2)} \cup {Number(n) : n \in 0..3}

Words == PlainWords \cup {Crc(WrittenWords)}

\* The binary files that may lie on the disk.
BinaryFile(words) == words \in Seq(Words)

FileInv ==
    /\ stage \in {"answered", "exported", "imported", "comparing"}
    /\ stage # "answered" => work = <<>>
    /\ stage = "exported" /\ damaged # "text" =>
          \/ IsBinaryFile /\ BinaryFile(file.binary)
          \/ \E format : file = ExportSessionJSON(Session, format)
    /\ stage \in {"answered", "exported"} => ~imported.ok
    /\ stage = "comparing" => damaged = "no"
    /\ ReadsWhatWasWritten

\* The words are told apart by their fields.
LEMMA WordForms ==
    /\ \A n : Number(n).number = n /\ DOMAIN Number(n) = {"number"}
    /\ \A x : MetadataText(x).metadata = x
    /\ \A x, i : EventsText(x, i).events = x
    /\ \A x, y : Crc(x) = Crc(y) => x = y
    /\ \A x, y, i : /\ Crc(x) # Number(y) /\ Crc(x) # MetadataText(y)
                     /\ Crc(x) # EventsText(y, i) /\ Crc(x) # Magic /\ Crc(x) # Junk
    /\ \A x, i : /\ DOMAIN MetadataText(x) # {"number"} /\ DOMAIN EventsText(x, i) # {"number"}
                 /\ DOMAIN Crc(x) # {"number"}
    /\ DOMAIN Magic # {"number"} /\ DOMAIN Junk # {"number"}
<1>1. \A x : DOMAIN Crc(x) = {"crc"} /\ Crc(x).crc = x
  BY DEF Crc
<1>2. \A n : Number(n).number = n /\ DOMAIN Number(n) = {"number"}
  BY DEF Number
<1>3. \A x : MetadataText(x).metadata = x /\ DOMAIN MetadataText(x) = {"metadata"}
  BY DEF MetadataText
<1>4. \A x, i : EventsText(x, i).events = x /\ DOMAIN EventsText(x, i) = {"events", "part"}
  BY DEF EventsText
<1>5. DOMAIN Magic = {"word"} /\ DOMAIN Junk = {"word"}
  BY DEF Magic, Junk, Word
<1> QED
  BY <1>1, <1>2, <1>3, <1>4, <1>5

\* The elements of a concatenation, by where they come from.
Joined(s, t, u) ==
    /\ Len(u) = Len(s) + Len(t)
    /\ \A i \in 1..Len(s) : u[i] = s[i]
    /\ \A i \in 1..Len(t) : u[Len(s) + i] = t[i]

LEMMA ConcatAt ==
    ASSUME NEW S, NEW s \in Seq(S), NEW t \in Seq(S)
    PROVE  s \o t \in Seq(S) /\ Joined(s, t, s \o t)
<1>1. /\ s \o t \in Seq(S) /\ Len(s \o t) = Len(s) + Len(t)
      /\ \A i \in 1..Len(s) + Len(t) : (s \o t)[i] = IF i <= Len(s) THEN s[i] ELSE t[i - Len(s)]
      /\ Len(s) \in Nat /\ Len(t) \in Nat
  BY ConcatProperties, LenProperties
<1>2. \A i \in 1..Len(s) : (s \o t)[i] = s[i]
  BY <1>1
<1>3. ASSUME NEW i \in 1..Len(t) PROVE (s \o t)[Len(s) + i] = t[i]
  <2>1. Len(s) + i \in 1..Len(s) + Len(t) /\ ~(Len(s) + i <= Len(s)) /\ (Len(s) + i) - Len(s) = i
    BY <1>1
  <2> QED
    BY <1>1, <2>1
<1> QED
  BY <1>1, <1>2, <1>3 DEF Joined

LEMMA PlainIsNoChecksum == \A w \in PlainWords : \A x : w # Crc(x)
BY WordForms DEF PlainWords

\* What exportSessionBinary() writes.
LEMMA ExportWrites ==
    /\ WrittenWords \in Seq(PlainWords) /\ Len(WrittenWords) = 8
    /\ WrittenWords[3] = Number(1) /\ WrittenWords[4] = MetadataText("s1")
    /\ WrittenWords[6] = Number(2) /\ WrittenWords[7] = EventsText(Session.events, 1)
<1> DEFINE a == <<Magic, Number(1), Number(1)>>
           b == <<MetadataText("s1")>>
           c == <<Number(1), Number(2)>>
           d == <<EventsText(Session.events, 1), EventsText(Session.events, 2)>>
<1>1. Metadata(Session) = b /\ Len(b) = 1 /\ Events(Session) = d /\ Len(d) = 2
  BY DEF Metadata, Events, Session
<1>2. /\ a \in Seq(PlainWords) /\ b \in Seq(PlainWords)
      /\ c \in Seq(PlainWords) /\ d \in Seq(PlainWords)
  BY DEF PlainWords
<1>3. WrittenWords = a \o b \o c \o d
  BY <1>1 DEF WrittenWords
<1>4. a[3] = Number(1) /\ b[1] = MetadataText("s1") /\ c[2] = Number(2) /\ d[1] = EventsText(Session.events, 1)
  OBVIOUS
<1>5. Len(a) = 3 /\ Len(c) = 2
  OBVIOUS
<1> HIDE DEF a, b, c, d
<1>6. PICK ab : ab = a \o b
  OBVIOUS
<1>7. ab \in Seq(PlainWords) /\ Len(ab) = 4 /\ ab[3] = a[3] /\ ab[4] = b[1]
  <2>1. Joined(a, b, ab) /\ ab \in Seq(PlainWords)
    BY <1>2, <1>6, ConcatAt
  <2> QED
    BY <1>1, <1>5, <2>1, 3 + 1 = 4 DEF Joined
<1>8. PICK abc : abc = ab \o c
  OBVIOUS
<1>9. abc \in Seq(PlainWords) /\ Len(abc) = 6 /\ abc[3] = ab[3] /\ abc[4] = ab[4] /\ abc[6] = c[2]
  <2>1. ab \in Seq(PlainWords)
    BY <1>7
  <2>2. Joined(ab, c, abc) /\ abc \in Seq(PlainWords)
    BY <1>2, <1>8, <2>1, ConcatAt
  <2> QED
    BY <1>5, <1>7, <2>2, 4 + 2 = 6 DEF Joined
<1>10. PICK w : w = abc \o d
  OBVIOUS
<1>11. /\ w \in Seq(PlainWords) /\ Len(w) = 8
       /\ w[3] = abc[3] /\ w[4] = abc[4] /\ w[6] = abc[6] /\ w[7] = d[1]
  <2>1. abc \in Seq(PlainWords)
    BY <1>9
  <2>2. Joined(abc, d, w) /\ w \in Seq(PlainWords)
    BY <1>2, <1>10, <2>1, ConcatAt
  <2> QED
    BY <1>1, <1>9, <2>2, 6 + 2 = 8, 6 + 1 = 7 DEF Joined
<1>12. WrittenWords = w
  BY <1>3, <1>6, <1>8, <1>10
<1> QED
  BY <1>4, <1>7, <1>9, <1>11, <1>12

\* A file as it was written is one of those that may lie on the disk.
LEMMA ExportIsFile ==
    /\ ExportSessionBinary(Session) = Append(WrittenWords, Crc(WrittenWords))
    /\ BinaryFile(ExportSessionBinary(Session))
<1>1. ExportSessionBinary(Session) = Append(WrittenWords, Crc(WrittenWords))
  BY DEF ExportSessionBinary, WrittenWords
<1>2. PICK c \in Words : c = Crc(WrittenWords)
  BY DEF Words
<1>3. WrittenWords \in Seq(Words)
  BY ExportWrites, SeqMonotonic DEF Words
<1>4. PICK words : words = Append(WrittenWords, c)
  OBVIOUS
<1>5. BinaryFile(words)
  BY <1>3, <1>4, AppendProperties DEF BinaryFile
<1> QED
  BY <1>1, <1>2, <1>4, <1>5

\* It stays one when words change, when it is cut and when it grows.
LEMMA DamagedIsFile ==
    ASSUME NEW words, BinaryFile(words), NEW result \in DamagedWords(words)
    PROVE  BinaryFile(result)
<1>1. words \in Seq(Words) /\ Len(words) \in Nat /\ DOMAIN words = 1..Len(words)
  BY LenProperties DEF BinaryFile
<1>2. OtherWords \subseteq Words /\ Junk \in Words
  BY DEF OtherWords, Words, PlainWords
<1>3. ASSUME NEW i \in DOMAIN words, NEW w \in Words
      PROVE  [words EXCEPT ![i] = w] \in Seq(Words)
  BY <1>1, ExceptSeq
<1>4. ASSUME NEW i \in DOMAIN words, NEW j \in DOMAIN words
      PROVE  [words EXCEPT ![i] = words[j], ![j] = words[i]] \in Seq(Words)
  <2>1. words[i] \in Words /\ words[j] \in Words
    BY <1>1, ElementOfSeq
  <2> DEFINE swapped == [words EXCEPT ![i] = words[j], ![j] = words[i]]
  <2>2. DOMAIN swapped = 1..Len(words) /\ \A n \in 1..Len(words) : swapped[n] \in {words[i], words[j], words[n]}
    BY <1>1
  <2>3. \A n \in 1..Len(words) : swapped[n] \in Words
    BY <1>1, <2>1, <2>2, ElementOfSeq
  <2>4. swapped = [n \in 1..Len(words) |-> swapped[n]]
    BY <1>1
  <2> QED
    BY <1>1, <2>2, <2>3, <2>4, IsASeq
<1>5. ASSUME NEW n \in 0..Len(words) - 1 PROVE SubSeq(words, 1, n) \in Seq(Words)
  BY <1>1, SubSeqProperties
<1>6. Append(words, Junk) \in Seq(Words)
  BY <1>1, <1>2, AppendProperties
<1>7. \/ \E i \in DOMAIN words, w \in OtherWords : result = [words EXCEPT ![i] = w]
      \/ \E i, j \in DOMAIN words : result = [words EXCEPT ![i] = words[j], ![j] = words[i]]
      \/ \E n \in 0..Len(words) - 1 : result = SubSeq(words, 1, n)
      \/ result = Append(words, Junk)
  BY DEF DamagedWords
<1> QED
  BY <1>2, <1>3, <1>4, <1>5, <1>6, <1>7 DEF BinaryFile

\* A number of a file that may lie on the disk, and the end that it leads to.
LEMMA NumbersRead ==
    ASSUME NEW words, BinaryFile(words), NEW i \in 1..Len(words)
    PROVE  NumberAt(words, i) \in Nat
<1>1. words[i] \in Words
  BY ElementOfSeq DEF BinaryFile
<1>2. PICK w : w = words[i]
  OBVIOUS
<1>3. CASE w \in {Number(n) : n \in 0..3}
  BY <1>2, <1>3, WordForms DEF NumberAt
<1>4. CASE w \notin {Number(n) : n \in 0..3}
  <2>1. \/ w = Magic \/ w = Junk \/ w = MetadataText("s1") \/ w = MetadataText("s2")
        \/ w = EventsText(<<>>, 1) \/ w = EventsText(Session.events, 1)
        \/ w = EventsText(Session.events, 2) \/ w = Crc(WrittenWords)
    BY <1>1, <1>2, <1>4 DEF Words, PlainWords
  <2>2. DOMAIN w # {"number"}
    BY <2>1, WordForms
  <2>3. NumberAt(words, i) = 9 + 1
    BY <1>2, <2>2 DEF NumberAt, MaxWords
  <2> QED
    BY <2>3
<1> QED
  BY <1>3, <1>4

\* importSessionBinary() accepts only what was written.
LEMMA ImportReads ==
    ASSUME NEW words, BinaryFile(words), ImportSessionBinary(words).ok
    PROVE  /\ ImportSessionBinary(words).id = "s1"
           /\ ImportSessionBinary(words).events = Session.events
<1> DEFINE countAt == 4 + NumberAt(words, 3)
           crcAt == countAt + 2 + NumberAt(words, countAt + 1)
<1>1. /\ ~(Len(words) < 6) /\ ~(countAt + 2 > Len(words)) /\ ~(crcAt > Len(words))
      /\ Intact(words, crcAt)
      /\ ImportSessionBinary(words).id = words[4].metadata
      /\ ImportSessionBinary(words).events = SubSeq(words, countAt + 2, crcAt - 1)[1].events
  BY DEF ImportSessionBinary, Rejected
<1>2. words \in Seq(Words) /\ Len(words) \in Nat /\ DOMAIN words = 1..Len(words)
  BY LenProperties DEF BinaryFile
<1>3. 3 \in 1..Len(words) /\ NumberAt(words, 3) \in Nat
  BY <1>1, <1>2, NumbersRead
<1>4. countAt + 1 \in 1..Len(words)
  BY <1>1, <1>2, <1>3
<1>5. NumberAt(words, countAt + 1) \in Nat
  BY <1>4, NumbersRead
<1>6. crcAt \in 1..Len(words)
  BY <1>1, <1>2, <1>3, <1>5
<1>7. words[crcAt] = Crc(SubSeq(words, 1, crcAt - 1)) /\ words[crcAt] \in Words
  BY <1>1, <1>2, <1>6, ElementOfSeq DEF Intact
<1>8. words[crcAt] = Crc(WrittenWords)
  BY <1>7, PlainIsNoChecksum DEF Words
<1> HIDE DEF crcAt, countAt
<1>r. SubSeq(words, 1, crcAt - 1) = WrittenWords
  BY <1>7, <1>8, WordForms
<1>9. crcAt = 9
  <2>1. crcAt - 1 \in 0..Len(words)
    BY <1>2, <1>6
  <2>2. Len(SubSeq(words, 1, crcAt - 1)) = crcAt - 1
    BY <1>2, <1>6, <2>1, SubSeqProperties
  <2>3. crcAt - 1 = 8
    BY <1>r, <2>2, ExportWrites
  <2> QED
    BY <1>2, <1>6, <2>3
<1>10. SubSeq(words, 1, 8) = WrittenWords
  BY <1>r, <1>9, 9 - 1 = 8
<1> USE DEF crcAt, countAt
<1>11. ASSUME NEW i \in 1..8 PROVE words[i] = WrittenWords[i]
  <2>1. \A j \in 1..8 : words[j] \in Words
    BY <1>2, <1>6, <1>9, ElementOfSeq
  <2>2. \A j \in 1..(8 - 1 + 1) : SubSeq(words, 1, 8)[j] = words[1 + j - 1]
    BY <2>1, SubSeqProperties
  <2> QED
    BY <1>10, <2>2, 8 - 1 + 1 = 8, 1 + i - 1 = i
<1>12. words[3] = Number(1) /\ words[4] = MetadataText("s1") /\ words[7] = EventsText(Session.events, 1)
  BY <1>11, ExportWrites
<1>13. countAt = 5
  BY <1>12, WordForms DEF NumberAt
<1>14. SubSeq(words, 7, 8)[1] = words[7]
  <2>1. \A j \in 7..8 : words[j] \in Words
    BY <1>2, <1>6, <1>9, ElementOfSeq
  <2>2. \A j \in 1..(8 - 7 + 1) : SubSeq(words, 7, 8)[j] = words[7 + j - 1]
    BY <2>1, SubSeqProperties
  <2> QED
    BY <2>2, 8 - 7 + 1 = 2, 7 + 1 - 1 = 7
<1> QED
  BY <1>1, <1>9, <1>12, <1>13, <1>14, WordForms, 5 + 2 = 7, 9 - 1 = 8

\* Nothing of this changes while the recording stays as it is.
LEMMA SessionStays ==
    ASSUME UNCHANGED kept
    PROVE  Session' = Session /\ \A words : BinaryFile(words)' <=> BinaryFile(words)
<1>1. Session' = Session
  BY DEF Session, recorded, Kept
<1>2. WrittenWords' = WrittenWords
  BY <1>1 DEF WrittenWords
<1> QED
  BY <1>1, <1>2 DEF BinaryFile, Words, PlainWords

LEMMA FileInitial == Init => FileInv
BY DEF Init, FileInv, ReadsWhatWasWritten, Rejected

\* The actions that leave the recording, the file and what was read of it alone.
LEMMA FileStays ==
    ASSUME FileInv, UNCHANGED <<kept, file, imported, damaged>>, work # <<>> => stage' = stage,
           work = <<>> => work' = <<>>,
           stage' # stage => stage = "imported" /\ stage' = "comparing" /\ damaged = "no"
    PROVE  FileInv'
<1>1. Session' = Session /\ \A words : BinaryFile(words)' <=> BinaryFile(words)
  BY SessionStays
<1>2. ReadsWhatWasWritten'
  BY <1>1 DEF FileInv, ReadsWhatWasWritten
<1>3. (stage # "answered" => work = <<>>)'
  BY DEF FileInv
<1>4. (stage = "exported" /\ damaged # "text" =>
          \/ IsBinaryFile /\ BinaryFile(file.binary)
          \/ \E format : file = ExportSessionJSON(Session, format))'
  BY <1>1 DEF FileInv, IsBinaryFile, ExportSessionJSON
<1> QED
  BY <1>2, <1>3, <1>4 DEF FileInv

LEMMA FileExported == FileInv /\ Export => FileInv'
<1> SUFFICES ASSUME FileInv, Export PROVE FileInv'
  OBVIOUS
<1>1. /\ stage = "answered" /\ stage' = "exported" /\ work = <<>>
      /\ UNCHANGED <<work, kept, imported>>
  BY DEF Export, redactVars
<1>2. Session' = Session /\ \A words : BinaryFile(words)' <=> BinaryFile(words)
  BY <1>1, SessionStays
<1>3. \/ IsBinaryFile' /\ BinaryFile(file.binary)'
      \/ \E format : file' = ExportSessionJSON(Session, format)
  <2>1. CASE file' = [binary |-> ExportSessionBinary(Session)]
    <3>1. file'.binary = ExportSessionBinary(Session) /\ IsBinaryFile'
      BY <2>1 DEF IsBinaryFile
    <3>2. PICK words : words = ExportSessionBinary(Session)
      OBVIOUS
    <3>3. BinaryFile(words)'
      BY <1>2, <3>2, ExportIsFile
    <3> QED
      BY <3>1, <3>2, <3>3 DEF BinaryFile
  <2> QED
    BY <2>1 DEF Export
<1> QED
  BY <1>1, <1>2, <1>3 DEF FileInv, ReadsWhatWasWritten, ExportSessionJSON

LEMMA FileDamaged == FileInv /\ Damage => FileInv'
<1> SUFFICES ASSUME FileInv, Damage PROVE FileInv'
  OBVIOUS
<1>1. stage = "exported" /\ UNCHANGED <<stage, work, kept, imported>>
  BY DEF Damage, redactVars
<1>2. Session' = Session /\ \A words : BinaryFile(words)' <=> BinaryFile(words)
  BY <1>1, SessionStays
<1>3. CASE IsBinaryFile
  <2>1. PICK words : words = file.binary
    OBVIOUS
  <2>2. BinaryFile(words)
    BY <1>1, <1>3, <2>1 DEF Damage, FileInv, IsBinaryFile, ExportSessionJSON
  <2>3. PICK result \in DamagedWords(words) : file' = [binary |-> result]
    BY <1>3, <2>1 DEF Damage
  <2>4. BinaryFile(result)'
    BY <1>2, <2>2, DamagedIsFile
  <2>5. file'.binary = result /\ IsBinaryFile'
    BY <2>3 DEF IsBinaryFile
  <2>6. BinaryFile(file.binary)'
    BY <2>4, <2>5 DEF BinaryFile
  <2> QED
    BY <1>1, <1>2, <2>5, <2>6 DEF FileInv, ReadsWhatWasWritten
<1>4. CASE ~IsBinaryFile
  <2>1. damaged' = "text"
    BY <1>4 DEF Damage
  <2> QED
    BY <1>1, <2>1 DEF FileInv, ReadsWhatWasWritten
<1> QED
  BY <1>3, <1>4

LEMMA FileImported == FileInv /\ Import => FileInv'
<1> SUFFICES ASSUME FileInv, Import PROVE FileInv'
  OBVIOUS
<1>1. stage = "exported" /\ stage' = "imported" /\ UNCHANGED <<work, kept, damaged>>
  BY DEF Import, redactVars
<1>2. Session' = Session
  BY <1>1, SessionStays
<1>3. ASSUME imported'.ok, damaged # "text"
      PROVE  imported'.id = "s1" /\ imported'.events = Session.events
  <2>1. CASE IsBinaryFile
    <3>1. imported' = ImportSessionBinary(file.binary) /\ BinaryFile(file.binary)
      BY <1>1, <1>3, <2>1 DEF Import, FileInv, IsBinaryFile, ExportSessionJSON
    <3> QED
      BY <1>3, <3>1, ImportReads
  <2>2. CASE ~IsBinaryFile
    <3>1. imported' = ImportSessionsJSON(file) /\ \E format : file = ExportSessionJSON(Session, format)
      BY <1>1, <1>3, <2>2 DEF Import, FileInv
    <3>2. file.sessions[1] = Session
      BY <3>1 DEF ExportSessionJSON
    <3>3. Session.id = "s1"
      BY DEF Session
    <3> QED
      BY <1>3, <3>1, <3>2, <3>3 DEF ImportSessionsJSON, Rejected
  <2> QED
    BY <2>1, <2>2
<1>4. ReadsWhatWasWritten'
  BY <1>1, <1>2, <1>3 DEF ReadsWhatWasWritten
<1> QED
  BY <1>1, <1>4 DEF FileInv

LEMMA FileKeeps == FileInv /\ [Next]_vars => FileInv'
<1> SUFFICES ASSUME FileInv, [Next]_vars PROVE FileInv'
  OBVIOUS
<1>1. CASE Capture
  <2>1. work # <<>> /\ UNCHANGED <<stage, imported, damaged>>
    BY <1>1 DEF Capture, Walk, fileVars
  <2> QED
    BY <2>1 DEF FileInv, ReadsWhatWasWritten
<1>2. CASE CallDeepDiff
  <2>1. /\ stage = "imported" /\ stage' = "comparing" /\ damaged = "no"
        /\ UNCHANGED <<work, kept, file, imported, damaged>>
    BY <1>2 DEF CallDeepDiff, redactVars
  <2> QED
    BY <2>1, FileStays DEF FileInv
<1>3. CASE Compare
  BY <1>3, FileStays DEF Compare, redactVars, fileVars
<1>4. CASE UNCHANGED vars
  BY <1>4, FileStays DEF vars, redactVars, fileVars
<1> QED
  BY <1>1, <1>2, <1>3, <1>4, FileExported, FileDamaged, FileImported DEF Next

-----------------------------------------------------------------------------
(***************************************************************************)
(* The comparison.  Equal answers are paired by some relation, and every   *)
(* call of walk() is about a pair of it or about an ignored key: so none   *)
(* of them finds a difference.  That is so for every relation: that        *)
(* Likeness is the largest is not needed.                                  *)
(***************************************************************************)
IsList(x) == \E S : x \in Seq(S)

\* Nothing is found under this pair.
Matches(R, w) == Paired(R, w.a, w.b) \/ ShouldIgnore(w.path)

\* R is a reason to call the two answers equal.
EqualBy(R) == AllAlike(Both, R, IgnoreFields) /\ Paired(R, Ref(Root("imp")), RootOf(other))

DiffInv ==
    /\ stage # "comparing" => todo = <<>> /\ diffs = {}
    /\ IsList(todo) /\ \A i \in DOMAIN todo : IsList(todo[i].path)
    /\ \A R : EqualBy(R) => diffs = {} /\ \A i \in DOMAIN todo : Matches(R, todo[i])

\* The last part of a longer path.
LEMMA LongerPath ==
    ASSUME NEW path, IsList(path), NEW k
    PROVE  IsList(Append(path, k)) /\ (k \in IgnoreFields => ShouldIgnore(Append(path, k)))
<1>1. PICK S : path \in Seq(S)
  BY DEF IsList
<1>2. path \in Seq(S \cup {k})
  BY <1>1, SeqMonotonic
<1>3. PICK longer : longer = Append(path, k)
  OBVIOUS
<1>4. /\ longer \in Seq(S \cup {k}) /\ Len(longer) = Len(path) + 1 /\ longer[Len(path) + 1] = k
      /\ Len(path) \in Nat
  BY <1>2, <1>3, AppendProperties, LenProperties
<1>5. longer # <<>> /\ Last(longer) = k
  BY <1>4, EmptySeq DEF Last
<1> QED
  BY <1>3, <1>4, <1>5 DEF IsList, ShouldIgnore

\* The calls after one of them has returned.
LEMMA CallsLeft ==
    ASSUME NEW h, NEW w, NEW found, NEW keys, IsList(todo), todo # <<>>, w = Head(todo),
           IsList(keys), Finds(h, found, keys)
    PROVE  /\ IsList(todo')
           /\ \A i \in DOMAIN todo' :
                 \/ \E j \in DOMAIN todo : todo'[i] = todo[j]
                 \/ \E j \in DOMAIN keys : todo'[i] = Child(h, w, keys[j])
<1>1. PICK S : todo \in Seq(S)
  BY DEF IsList
<1>2. PICK t : t = [i \in DOMAIN keys |-> Child(h, w, keys[i])]
  OBVIOUS
<1>3. PICK C : C = S \cup {Child(h, w, keys[i]) : i \in DOMAIN keys}
  OBVIOUS
<1>4. todo \in Seq(C)
  BY <1>1, <1>3, SeqMonotonic
<1>5. t \in Seq(C)
  <2>1. DOMAIN keys = 1..Len(keys) /\ Len(keys) \in Nat
    BY LenProperties DEF IsList
  <2>2. t \in [1..Len(keys) -> C]
    BY <1>2, <1>3, <2>1
  <2> QED
    BY <2>1, <2>2, SeqDef
<1>6. todo' = t \o Tail(todo)
  BY <1>2 DEF Finds
<1>7. todo' \in Seq(C) /\ NewFront(todo, t, todo')
  BY <1>4, <1>5, <1>6, CallReplaced
<1> QED
  BY <1>2, <1>7 DEF IsList, NewFront

\* What is alike is of one kind, and lacks nothing that counts.
LEMMA AlikeObjects ==
    ASSUME NEW h, NEW R, AllAlike(h, R, IgnoreFields), NEW w, w.a # w.b, Paired(R, w.a, w.b),
           IsList(w.path)
    PROVE  /\ Kind(h, w.a, w.b) \in {"array", "object"}
           /\ Kind(h, w.a, w.b) = "array" => DOMAIN h[w.a.ref].at = DOMAIN h[w.b.ref].at
           /\ Kind(h, w.a, w.b) = "object" => Lacking(h, w) = {}
           /\ \A k \in Shared(h[w.a.ref], h[w.b.ref]) : Matches(R, Child(h, w, k))
<1>1. PICK s, t : s = h[w.a.ref] /\ t = h[w.b.ref]
  OBVIOUS
<1>2. /\ ~IsLeaf(w.a) /\ ~IsLeaf(w.b) /\ IsArray(s) = IsArray(t)
      /\ Counted(s, IgnoreFields) = Counted(t, IgnoreFields)
      /\ \A k \in Counted(s, IgnoreFields) : Paired(R, s.at[k], t.at[k])
  BY <1>1 DEF Paired, AllAlike, Alike
<1>3. Kind(h, w.a, w.b) = IF IsArray(s) THEN "array" ELSE "object"
  <2>1. w.a # Undefined /\ w.b # Undefined /\ w.a # Null /\ w.b # Null
    BY <1>2, LeafForm DEF Undefined, Null
  <2>2. IsLeaf(w.a) = FALSE /\ IsLeaf(w.b) = FALSE
    BY <1>2 DEF IsLeaf
  <2> QED
    BY <1>1, <1>2, <2>1, <2>2 DEF Kind
<1>4. CASE IsArray(s)
  <2>1. DOMAIN s.at = DOMAIN t.at /\ Shared(s, t) = DOMAIN s.at
    BY <1>2, <1>4 DEF Counted, Shared
  <2>2. \A k \in Shared(s, t) : Child(h, w, k).a = s.at[k] /\ Child(h, w, k).b = t.at[k]
    BY <1>1, <2>1 DEF Child, At
  <2>3. \A k \in Shared(s, t) : Matches(R, Child(h, w, k))
    BY <1>2, <1>4, <2>1, <2>2 DEF Matches, Counted
  <2> QED
    BY <1>1, <1>3, <1>4, <2>1, <2>3
<1>5. CASE ~IsArray(s)
  <2>1. Counted(s, IgnoreFields) = DOMAIN s.at \ (Unsafe \cup IgnoreFields)
    BY <1>5 DEF Counted
  <2>2. Counted(t, IgnoreFields) = DOMAIN t.at \ (Unsafe \cup IgnoreFields)
    BY <1>2, <1>5 DEF Counted
  <2>3. \A k : k \in IgnoreFields => ShouldIgnore(Append(w.path, k))
    BY LongerPath
  <2>4. ASSUME NEW d \in Lacking(h, w) PROVE FALSE
    <3>1. PICK k : /\ ~ShouldIgnore(Append(w.path, k))
                   /\ k \in ((DOMAIN s.at \ DOMAIN t.at) \cup (DOMAIN t.at \ DOMAIN s.at)) \ Unsafe
      <4>1. PICK k : /\ d.path = Child(h, w, k).path /\ ~ShouldIgnore(d.path)
                     /\ k \in ((DOMAIN s.at \ DOMAIN t.at) \cup (DOMAIN t.at \ DOMAIN s.at)) \ Unsafe
        BY <1>1, <2>4 DEF Lacking, Difference
      <4> QED
        BY <4>1 DEF Child
    <3> QED
      BY <1>2, <2>1, <2>2, <2>3, <3>1
  <2>5. ASSUME NEW k \in Shared(s, t) PROVE Matches(R, Child(h, w, k))
    <3>1. k \in DOMAIN s.at /\ k \in DOMAIN t.at /\ k \notin Unsafe
      BY <1>5, <2>5 DEF Shared
    <3>2. /\ Child(h, w, k).a = s.at[k] /\ Child(h, w, k).b = t.at[k]
          /\ Child(h, w, k).path = Append(w.path, k)
      BY <1>1, <3>1 DEF Child, At
    <3>3. CASE k \in IgnoreFields
      BY <2>3, <3>2, <3>3 DEF Matches
    <3>4. CASE k \notin IgnoreFields
      BY <1>2, <2>1, <3>1, <3>2, <3>4 DEF Matches
    <3> QED
      BY <3>3, <3>4
  <2> QED
    BY <1>1, <1>3, <1>5, <2>4, <2>5
<1> QED
  BY <1>4, <1>5


\* A call of walk() that matches finds nothing, and calls itself where all matches.
LEMMA WalkFinds ==
    ASSUME NEW h, NEW w, w = Head(todo), WalkBoth(h), IsList(w.path)
    PROVE  \E found, keys :
              /\ IsList(keys) /\ Finds(h, found, keys)
              /\ \A R : AllAlike(h, R, IgnoreFields) /\ Matches(R, w)
                          => found = {} /\ \A i \in DOMAIN keys : Matches(R, Child(h, w, keys[i]))
<1>1. IsList(<<>>) /\ DOMAIN <<>> = {}
  BY EmptySeq DEF IsList
<1>2. CASE Finds(h, {}, <<>>)
  BY <1>1, <1>2
<1>3. PICK s, t : s = h[w.a.ref] /\ t = h[w.b.ref]
  OBVIOUS
<1>4. ASSUME NEW keys, NEW indexed, keys \in Orders(Shared(s, t), indexed)
      PROVE  IsList(keys) /\ \A i \in DOMAIN keys : keys[i] \in Shared(s, t)
  <2>1. keys \in Seq(Shared(s, t))
    BY <1>4, OrderedKeys
  <2> QED
    BY <2>1, LenProperties, ElementOfSeq DEF IsList
<1>5. ASSUME NEW R, AllAlike(h, R, IgnoreFields), Matches(R, w), ~ShouldIgnore(w.path), w.a # w.b
      PROVE  /\ Kind(h, w.a, w.b) \in {"array", "object"}
             /\ Kind(h, w.a, w.b) = "array" => DOMAIN s.at = DOMAIN t.at
             /\ Kind(h, w.a, w.b) = "object" => Lacking(h, w) = {}
             /\ \A k \in Shared(s, t) : Matches(R, Child(h, w, k))
  BY <1>3, <1>5, AlikeObjects DEF Matches
<1>6. CASE WalkLeaf(h, w)
  <2>1. /\ Differing(h, w, {"value", "type"})
        /\ Finds(h, {Difference(w, Kind(h, w.a, w.b))}, <<>>)
    BY <1>6 DEF WalkLeaf
  <2>2. ~ShouldIgnore(w.path) /\ w.a # w.b /\ Kind(h, w.a, w.b) \in {"value", "type"}
    BY <2>1 DEF Differing
  <2>3. ASSUME NEW R, AllAlike(h, R, IgnoreFields), Matches(R, w) PROVE FALSE
    BY <1>5, <2>2, <2>3
  <2> QED
    BY <1>1, <2>1, <2>3
<1>7. CASE WalkArray(h, w)
  <2>1. PICK keys \in Orders(Shared(s, t), TRUE) :
            /\ Differing(h, w, {"array"})
            /\ Finds(h, IF DOMAIN s.at = DOMAIN t.at THEN {} ELSE {Difference(w, "array_length")}, keys)
    BY <1>3, <1>7 DEF WalkArray
  <2>2. ~ShouldIgnore(w.path) /\ w.a # w.b /\ Kind(h, w.a, w.b) = "array"
    BY <2>1 DEF Differing
  <2>3. IsList(keys) /\ \A i \in DOMAIN keys : keys[i] \in Shared(s, t)
    BY <1>4
  <2> QED
    BY <1>5, <2>1, <2>2, <2>3
<1>8. CASE WalkObject(h, w)
  <2>1. CASE ~Finds(h, {}, <<>>)
    <3>1. PICK keys \in Orders(Shared(s, t), FALSE) :
            Differing(h, w, {"object"}) /\ Finds(h, Lacking(h, w), keys)
      BY <1>3, <1>8, <2>1 DEF WalkObject
    <3>2. ~ShouldIgnore(w.path) /\ w.a # w.b /\ Kind(h, w.a, w.b) = "object"
      BY <3>1 DEF Differing
    <3>3. IsList(keys) /\ \A i \in DOMAIN keys : keys[i] \in Shared(s, t)
      BY <1>4
    <3> QED
      BY <1>5, <3>1, <3>2, <3>3
  <2> QED
    BY <1>2, <2>1
<1>9. CASE PassOver(h, w)
  BY <1>2, <1>9 DEF PassOver
<1>10. PassOver(h, w) \/ WalkLeaf(h, w) \/ WalkArray(h, w) \/ WalkObject(h, w)
  BY DEF WalkBoth
<1> QED
  BY <1>6, <1>7, <1>8, <1>9, <1>10

LEMMA DiffInitial == Init => DiffInv
<1>1. IsList(<<>>) /\ DOMAIN <<>> = {}
  BY EmptySeq DEF IsList
<1> QED
  BY <1>1 DEF Init, DiffInv

\* What is compared, and whether it is equal, depends on two variables.
LEMMA SameAnswers ==
    ASSUME UNCHANGED <<imported, other>>
    PROVE  \A R : EqualBy(R)' <=> EqualBy(R)
<1>1. Both' = Both
  BY DEF Both
<1>2. RootOf(other)' = RootOf(other)
  BY DEF RootOf
<1> QED
  BY <1>1, <1>2 DEF EqualBy, AllAlike, Alike, Paired

LEMMA DiffStays ==
    ASSUME DiffInv, UNCHANGED <<todo, diffs>>,
           stage' # "comparing" => stage # "comparing",
           stage = "comparing" => UNCHANGED <<imported, other>>
    PROVE  DiffInv'
<1>1. CASE stage # "comparing"
  BY <1>1 DEF DiffInv, IsList
<1>2. CASE stage = "comparing"
  BY <1>2, SameAnswers DEF DiffInv, IsList, Matches, Paired
<1> QED
  BY <1>1, <1>2

LEMMA DiffReplayed == DiffInv /\ CallDeepDiff => DiffInv'
<1> SUFFICES ASSUME DiffInv, CallDeepDiff PROVE DiffInv'
  OBVIOUS
<1>1. stage = "imported" /\ stage' = "comparing" /\ UNCHANGED diffs /\ diffs = {}
  BY DEF CallDeepDiff, DiffInv
<1>2. PICK w : w = [a |-> Ref(Root("imp")), b |-> RootOf(other'), path |-> <<>>, depth |-> 0]
  OBVIOUS
<1>3. todo' = <<w>> /\ w.a = Ref(Root("imp")) /\ w.b = RootOf(other') /\ w.path = <<>>
  BY <1>2 DEF CallDeepDiff, DeepDiffOf
<1>4. IsList(todo') /\ DOMAIN todo' = {1} /\ todo'[1] = w
  <2>1. PICK s : s = <<w>>
    OBVIOUS
  <2>2. s \in Seq({w}) /\ s[1] = w /\ DOMAIN s = {1}
    BY <2>1
  <2> QED
    BY <1>3, <2>1, <2>2 DEF IsList
<1>5. IsList(w.path)
  BY <1>3, EmptySeq DEF IsList
<1>6. \A R : EqualBy(R)' => Matches(R, w)
  BY <1>3 DEF EqualBy, Matches, Paired, RootOf
<1> QED
  BY <1>1, <1>4, <1>5, <1>6 DEF DiffInv, IsList, Matches, Paired

LEMMA DiffCompared == DiffInv /\ Compare => DiffInv'
<1> SUFFICES ASSUME DiffInv, Compare PROVE DiffInv'
  OBVIOUS
<1>1. WalkBoth(Both) /\ UNCHANGED <<stage, imported, other>> /\ todo # <<>>
  BY DEF Compare, fileVars, WalkBoth
<1>2. PICK h : h = Both
  OBVIOUS
<1>3. PICK w : w = Head(todo)
  OBVIOUS
<1>4. w = todo[1] /\ 1 \in DOMAIN todo
  <2>1. PICK S : todo \in Seq(S)
    BY DEF DiffInv, IsList
  <2> QED
    BY <1>1, <1>3, <2>1, HeadTailProperties, EmptySeq, LenProperties
<1>5. IsList(w.path) /\ IsList(todo)
  BY <1>4 DEF DiffInv
<1>6. PICK found, keys :
         /\ IsList(keys) /\ Finds(h, found, keys)
         /\ \A R : AllAlike(h, R, IgnoreFields) /\ Matches(R, w)
                     => found = {} /\ \A i \in DOMAIN keys : Matches(R, Child(h, w, keys[i]))
  BY <1>1, <1>2, <1>3, <1>5, WalkFinds
<1>7. /\ IsList(todo')
      /\ \A i \in DOMAIN todo' :
            \/ \E j \in DOMAIN todo : todo'[i] = todo[j]
            \/ \E j \in DOMAIN keys : todo'[i] = Child(h, w, keys[j])
  BY <1>1, <1>3, <1>5, <1>6, CallsLeft
<1>8. \A i \in DOMAIN todo' : IsList(todo'[i].path)
  <2>1. \A k : Child(h, w, k).path = Append(w.path, k)
    BY DEF Child
  <2>2. \A k : IsList(Child(h, w, k).path)
    BY <1>5, <2>1, LongerPath
  <2>3. \A j \in DOMAIN todo : IsList(todo[j].path)
    BY DEF DiffInv
  <2> QED
    BY <1>7, <2>2, <2>3
<1>9. ASSUME NEW R, EqualBy(R)
      PROVE  diffs' = {} /\ \A i \in DOMAIN todo' : Matches(R, todo'[i])
  <2>1. AllAlike(h, R, IgnoreFields)
    BY <1>2, <1>9 DEF EqualBy
  <2>2. diffs = {} /\ \A j \in DOMAIN todo : Matches(R, todo[j])
    BY <1>9 DEF DiffInv
  <2>3. found = {} /\ \A i \in DOMAIN keys : Matches(R, Child(h, w, keys[i]))
    BY <1>4, <1>6, <2>1, <2>2
  <2>4. diffs' = {}
    BY <1>6, <2>2, <2>3 DEF Finds
  <2> QED
    BY <1>7, <2>2, <2>3, <2>4
<1>10. ASSUME NEW R, EqualBy(R)'
       PROVE  diffs' = {} /\ \A i \in DOMAIN todo' : Matches(R, todo[i])'
  <2>1. EqualBy(R)
    BY <1>1, <1>10, SameAnswers
  <2> QED
    BY <1>9, <2>1 DEF Matches, Paired
<1>11. stage' = "comparing"
  BY <1>1 DEF DiffInv
<1> QED
  BY <1>7, <1>8, <1>10, <1>11 DEF DiffInv, IsList

LEMMA DiffKeeps == DiffInv /\ [Next]_vars => DiffInv'
<1> SUFFICES ASSUME DiffInv, [Next]_vars PROVE DiffInv'
  OBVIOUS
<1>1. CASE Capture
  BY <1>1, DiffStays DEF Capture, fileVars, diffVars
<1>2. CASE Export
  BY <1>2, DiffStays DEF Export, diffVars
<1>3. CASE Damage
  BY <1>3, DiffStays DEF Damage, diffVars
<1>4. CASE Import
  BY <1>4, DiffStays DEF Import, diffVars
<1>5. CASE UNCHANGED vars
  BY <1>5, DiffStays DEF vars, fileVars, diffVars
<1> QED
  BY <1>1, <1>2, <1>3, <1>4, <1>5, DiffReplayed, DiffCompared DEF Next

-----------------------------------------------------------------------------
(***************************************************************************)
(* The largest relation that pairs what is alike.  The function in         *)
(* Likeness is the union of all of them: that function satisfies its       *)
(* recursive equation, and no other does, for of the relations where       *)
(* another one differs a smallest would lead to a smaller.                 *)
(***************************************************************************)
LEMMA AlikeMore ==
    ASSUME NEW h, NEW ignored, NEW Q, NEW R, Q \subseteq R, NEW i, NEW j, Alike(h, Q, i, j, ignored)
    PROVE  Alike(h, R, i, j, ignored)
BY DEF Alike, Paired

Largest(h, R, ignored) == UNION {Q \in SUBSET R : AllAlike(h, Q, ignored)}

LEMMA LargestIsAlike ==
    ASSUME NEW h, NEW ignored, NEW R
    PROVE  AllAlike(h, Largest(h, R, ignored), ignored)
<1>1. ASSUME NEW Q \in SUBSET R, AllAlike(h, Q, ignored), NEW p \in Q
      PROVE  Alike(h, Largest(h, R, ignored), p[1], p[2], ignored)
  <2>1. Q \subseteq Largest(h, R, ignored)
    BY <1>1 DEF Largest
  <2>2. Alike(h, Q, p[1], p[2], ignored)
    BY <1>1 DEF AllAlike
  <2> QED
    BY <2>1, <2>2, AlikeMore
<1> QED
  BY <1>1 DEF Largest, AllAlike

LEMMA LargestShrinks ==
    ASSUME NEW h, NEW ignored, NEW R
    PROVE  Largest(h, R, ignored) =
             IF AlikeIn(h, R, ignored) = R THEN R ELSE Largest(h, AlikeIn(h, R, ignored), ignored)
<1>1. ASSUME NEW Q \in SUBSET R, AllAlike(h, Q, ignored) PROVE Q \subseteq AlikeIn(h, R, ignored)
  <2>1. ASSUME NEW p \in Q PROVE Alike(h, R, p[1], p[2], ignored)
    BY <1>1, AlikeMore DEF AllAlike
  <2> QED
    BY <2>1 DEF AlikeIn
<1>2. AlikeIn(h, R, ignored) \subseteq R
  BY DEF AlikeIn
<1>3. Largest(h, R, ignored) = Largest(h, AlikeIn(h, R, ignored), ignored)
  BY <1>1, <1>2 DEF Largest
<1>4. ASSUME AlikeIn(h, R, ignored) = R PROVE Largest(h, R, ignored) = R
  <2>1. AllAlike(h, R, ignored)
    BY <1>4 DEF AlikeIn, AllAlike
  <2> QED
    BY <2>1 DEF Largest
<1> QED
  BY <1>3, <1>4

LEMMA LikenessIsLargest ==
    ASSUME NEW h, NEW ignored, IsFiniteSet(DOMAIN h)
    PROVE  Likeness(h, ignored) = Largest(h, (DOMAIN h) \X (DOMAIN h), ignored)
<1> DEFINE Pairs == (DOMAIN h) \X (DOMAIN h)
           Shrunk[R \in SUBSET Pairs] ==
              IF AlikeIn(h, R, ignored) = R THEN R ELSE Shrunk[AlikeIn(h, R, ignored)]
<1>1. Likeness(h, ignored) = Shrunk[Pairs]
  BY DEF Likeness
<1>2. Shrunk = [R \in SUBSET Pairs |->
                  IF AlikeIn(h, R, ignored) = R THEN R ELSE Shrunk[AlikeIn(h, R, ignored)]]
  <2> DEFINE L == [R \in SUBSET Pairs |-> Largest(h, R, ignored)]
  <2>1. L = [R \in SUBSET Pairs |->
                  IF AlikeIn(h, R, ignored) = R THEN R ELSE L[AlikeIn(h, R, ignored)]]
    <3>1. \A R \in SUBSET Pairs : AlikeIn(h, R, ignored) \in SUBSET Pairs
      BY DEF AlikeIn
    <3> QED
      BY <3>1, LargestShrinks
  <2> QED
    BY <2>1
<1> HIDE DEF Shrunk
<1>3. \A R \in SUBSET Pairs : /\ AlikeIn(h, R, ignored) \in SUBSET Pairs
                              /\ AlikeIn(h, R, ignored) \subseteq R
  BY DEF AlikeIn
<1>4. ASSUME NEW B, B = {R \in SUBSET Pairs : Shrunk[R] # Largest(h, R, ignored)}, B # {}
      PROVE  FALSE
  <2>1. IsFiniteSet(Pairs)
    BY FS_Product
  <2>2. IsWellFoundedOn(StrictSubsetOrdering(Pairs), SUBSET Pairs)
    BY <2>1, FS_FiniteSubsetsOfFinite, FS_StrictSubsetOrderingWellFounded
  <2>3. PICK R \in B : \A S \in B : <<S, R>> \notin StrictSubsetOrdering(Pairs)
    <3>1. B \subseteq SUBSET Pairs
      BY <1>4
    <3> QED
      BY <1>4, <2>2, <3>1, WFMin
  <2>4. R \in SUBSET Pairs /\ Shrunk[R] # Largest(h, R, ignored)
    BY <1>4
  <2>5. AlikeIn(h, R, ignored) # R
    BY <1>2, <2>4, LargestShrinks
  <2>6. AlikeIn(h, R, ignored) \notin B
    BY <1>3, <2>3, <2>4, <2>5 DEF StrictSubsetOrdering
  <2> QED
    BY <1>2, <1>3, <1>4, <2>4, <2>5, <2>6, LargestShrinks
<1> QED
  BY <1>1, <1>4

\* Values that some such relation pairs are the same.
LEMMA PairedAreSame ==
    ASSUME NEW h, NEW ignored, NEW v, NEW w, IsFiniteSet(DOMAIN h),
           NEW R \in SUBSET ((DOMAIN h) \X (DOMAIN h)), AllAlike(h, R, ignored), Paired(R, v, w)
    PROVE  Same(h, v, w, ignored)
<1>1. PICK L : L = Likeness(h, ignored)
  OBVIOUS
<1>2. L = Largest(h, (DOMAIN h) \X (DOMAIN h), ignored)
  BY <1>1, LikenessIsLargest
<1>3. R \subseteq L
  BY <1>2 DEF Largest
<1>4. AllAlike(h, L, ignored)
  BY <1>2, LargestIsAlike
<1> QED
  BY <1>1, <1>3, <1>4 DEF Same, Paired

-----------------------------------------------------------------------------
(***************************************************************************)
(* What is compared.  The recording is a tree, each object of which is     *)
(* known by its path, and so is what was read from the file.  Whatever it  *)
(* is compared with, nothing in that refers to its root.                   *)
(***************************************************************************)
KeptInv ==
    /\ IsFiniteSet(kept)
    /\ \A q \in kept : HasEntries(q) => Len(q.path) <= MaxRedactDepth

LEMMA KeptInitial == RedactInit => KeptInv
BY FS_EmptySet DEF RedactInit, KeptInv

LEMMA KeptKeeps == WalkInv /\ KeptInv /\ Walk => KeptInv'
<1> SUFFICES ASSUME WalkInv, KeptInv, Walk PROVE KeptInv'
  OBVIOUS
<1>1. PICK w : w = Head(work)
  OBVIOUS
<1>2. w.depth = Len(w.path)
  <2>1. work # <<>> /\ work \in Seq(Calls)
    BY DEF Walk, WalkInv
  <2>2. w = work[1] /\ 1 \in DOMAIN work
    BY <1>1, <2>1, HeadTailProperties, EmptySeq, LenProperties
  <2> QED
    BY <2>2 DEF WalkInv, Honest
<1>3. PICK value : /\ kept' = kept \cup {[path |-> w.path, value |-> value, was |-> w.was]}
                   /\ DOMAIN value = {"kind"} => Len(w.path) <= MaxRedactDepth
  <2>1. CASE ReturnLeaf(w)
    <3>1. DOMAIN Replacement # {"kind"} /\ (IsLeaf(w.value) => DOMAIN w.value # {"kind"})
      BY LeafForm DEF Replacement, IsLeaf
    <3> QED
      BY <2>1, <3>1 DEF ReturnLeaf, Return
  <2>2. CASE ReturnCircular(w)
    BY <2>2, LeafForm DEF ReturnCircular, Return, Circular
  <2>3. CASE Enter(w)
    <3>1. Len(w.path) \in Nat /\ ~(w.depth > MaxRedactDepth)
      <4>1. w \in Calls
        BY <1>1, HeadTailProperties, EmptySeq DEF Walk, WalkInv
      <4> QED
        BY <2>3, <4>1, LenProperties DEF Enter, TooDeep, Calls
    <3>2. Len(w.path) <= MaxRedactDepth
      BY <1>2, <3>1, RedactionConstants
    <3> QED
      BY <2>3, <3>2 DEF Enter, Return
  <2> QED
    BY <1>1, <2>1, <2>2, <2>3 DEF Walk
<1>4. IsFiniteSet(kept')
  BY <1>3, FS_AddElement DEF KeptInv
<1>5. ASSUME NEW q \in kept', HasEntries(q) PROVE Len(q.path) <= MaxRedactDepth
  <2>1. CASE q \in kept
    BY <1>5, <2>1 DEF KeptInv
  <2>2. CASE q = [path |-> w.path, value |-> value, was |-> w.was]
    <3>1. q.value = value /\ q.path = w.path
      BY <2>2
    <3> QED
      BY <1>3, <1>5, <3>1 DEF HasEntries
  <2> QED
    BY <1>3, <2>1, <2>2
<1> QED
  BY <1>4, <1>5 DEF KeptInv, HasEntries

\* What a path ends with.
LEMMA PathEnds ==
    ASSUME NEW path, IsList(path), NEW k
    PROVE  /\ IsList(Append(path, k)) /\ Append(path, k) # <<>>
           /\ Len(path) \in Nat /\ Len(Append(path, k)) = Len(path) + 1
           /\ Front(Append(path, k)) = path /\ Last(Append(path, k)) = k
<1>1. PICK S : path \in Seq(S)
  BY DEF IsList
<1>2. PICK T : T = S \cup {k}
  OBVIOUS
<1>3. path \in Seq(T) /\ k \in T
  BY <1>1, <1>2, SeqMonotonic
<1>4. PICK longer : longer = Append(path, k)
  OBVIOUS
<1>5. /\ longer \in Seq(T) /\ longer # <<>> /\ Len(longer) = Len(path) + 1
      /\ \A i \in 1..Len(path) : longer[i] = path[i]
      /\ longer[Len(path) + 1] = k /\ Len(path) \in Nat
  BY <1>3, <1>4, AppendProperties, LenProperties
<1>6. PICK n \in Nat : n = Len(path)
  BY <1>5
<1>7. SubSeq(longer, 1, n) = path
  <2>1. \A i \in 1..n : longer[i] \in T
    BY <1>3, <1>5, <1>6, ElementOfSeq
  <2>2. PICK s : s = SubSeq(longer, 1, n)
    OBVIOUS
  <2>3. /\ s \in Seq(T) /\ Len(s) = IF 1 <= n THEN n - 1 + 1 ELSE 0
        /\ \A i \in 1..n - 1 + 1 : s[i] = longer[1 + i - 1]
    BY <2>1, <2>2, SubSeqProperties
  <2>4. Len(s) = n /\ \A i \in 1..n : s[i] = longer[i]
    BY <2>3
  <2>5. s = path
    BY <1>3, <1>5, <1>6, <2>3, <2>4, SeqEqual
  <2> QED
    BY <2>2, <2>5
<1>8. Front(longer) = path
  BY <1>5, <1>6, <1>7 DEF Front
<1> QED
  BY <1>4, <1>5, <1>8 DEF IsList, Last

TreeForm(h, tag) ==
    /\ IsFiniteSet(DOMAIN h)
    /\ \A i \in DOMAIN h :
          /\ i = <<tag, i[2]>> /\ IsList(i[2]) /\ Len(i[2]) <= MaxRedactDepth
          /\ h[i] = [kind |-> h[i].kind, at |-> h[i].at]
          /\ IsArray(h[i]) => DOMAIN h[i].at \subseteq Indices
          /\ \A k \in DOMAIN h[i].at :
                \/ IsLeaf(h[i].at[k])
                \/ /\ h[i].at[k] = Ref(<<tag, Append(i[2], k)>>)
                   /\ <<tag, Append(i[2], k)>> \in DOMAIN h

\* What lies right below an entry of the recording.
LEMMA EntriesBelow ==
    ASSUME WalkInv, NEW p \in kept, HasEntries(p), NEW q \in kept,
           Len(q.path) = Len(p.path) + 1, Front(q.path) = p.path
    PROVE  /\ q.path = Append(p.path, Last(q.path))
           /\ p.value.kind = "array" => Last(q.path) \in Indices
           /\ HasEntries(q) \/ IsLeaf(q.value)
<1>1. EntryInv(q) /\ EntryInv(p)
  BY DEF WalkInv
<1>2. q.path \in Seq(Key) /\ p.path \in Seq(Key) /\ IsList(p.path)
  BY <1>1 DEF EntryInv, IsList
<1>3. q.path # <<>>
  <2>1. Len(p.path) \in Nat /\ Len(<<>>) = 0
    BY <1>2, LenProperties, EmptySeq
  <2> QED
    BY <2>1
<1>4. PICK o \in kept : HasEntries(o) /\ \E k \in DOMAIN heap[o.was.ref].at : Under(q, o, k)
  BY <1>1, <1>3 DEF EntryInv, Rooted
<1>5. PICK k \in DOMAIN heap[o.was.ref].at : q.path = Append(o.path, k)
  BY <1>4 DEF Under
<1>6. IsList(o.path)
  BY DEF WalkInv, EntryInv, IsList
<1>7. Front(q.path) = o.path /\ Last(q.path) = k
  <2>1. PICK path : path = o.path
    OBVIOUS
  <2> QED
    BY <1>5, <1>6, <2>1, PathEnds
<1>8. o = p
  BY <1>7 DEF WalkInv
<1>9. p.value.kind = "array" => k \in Indices
  <2>1. p.was \in {Ref(j) : j \in DOMAIN heap} /\ p.value = Container(KindKept(heap[p.was.ref].kind))
    BY <1>1 DEF EntryInv
  <2>2. p.was.ref \in DOMAIN heap /\ (p.value.kind = "array" => IsArray(heap[p.was.ref]))
    BY <2>1, RefForm, ContainerForm DEF KindKept, IsArray
  <2>3. IsArray(heap[p.was.ref]) => DOMAIN heap[p.was.ref].at \subseteq Indices
    BY <2>2, HeapsClosed DEF WalkInv
  <2> QED
    BY <1>5, <1>8, <2>2, <2>3
<1>10. HasEntries(q) \/ IsLeaf(q.value)
  BY <1>1, Placeholders, ContainerForm DEF EntryInv, Tells, HasEntries
<1> QED
  BY <1>5, <1>7, <1>8, <1>9, <1>10

\* An object of the recording, as a tree.
ShapeOf(p, i, h, tag) ==
    /\ i \in DOMAIN h /\ h[i].kind = p.value.kind
    /\ h[i] = [kind |-> h[i].kind, at |-> h[i].at]
    /\ \A k \in DOMAIN h[i].at : \E q \in Kept :
          /\ Len(q.path) = Len(p.path) + 1 /\ Front(q.path) = p.path /\ Last(q.path) = k
          /\ h[i].at[k] = IF HasEntries(q) THEN Ref(<<tag, q.path>>) ELSE q.value

LEMMA TreeShape ==
    ASSUME WalkInv, NEW tag, NEW p \in Kept, HasEntries(p), NEW i, i = <<tag, p.path>>,
           NEW h, h = Tree(tag, Kept)
    PROVE  ShapeOf(p, i, h, tag)
<1> DEFINE Containers == {q \in Kept : HasEntries(q)}
           Below(x) == {q \in Kept : Len(q.path) = Len(x.path) + 1 /\ Front(q.path) = x.path}
           value(q) == IF HasEntries(q) THEN Ref(<<tag, q.path>>) ELSE q.value
           shape(x) == [kind |-> x.value.kind,
                        at |-> [k \in {Last(q.path) : q \in Below(x)} |->
                                  value(CHOOSE q \in Below(x) : Last(q.path) = k)]]
           Named(id) == CHOOSE x \in Containers : <<tag, x.path>> = id
<1>2. h = [id \in {<<tag, x.path>> : x \in Containers} |-> shape(Named(id))]
  BY DEF Tree
<1>3. Named(i) = p /\ p \in Containers
  <2>1. p \in Containers /\ \A x \in Containers : <<tag, x.path>> = i => x = p
    BY DEF WalkInv, Kept
  <2> QED
    BY <2>1
<1>4. i \in DOMAIN h /\ h[i] = shape(p)
  <2> HIDE DEF Named, Containers, shape
  <2>1. i \in {<<tag, x.path>> : x \in Containers}
    BY <1>3
  <2> QED
    BY <1>2, <1>3, <2>1
<1>5. /\ h[i].kind = p.value.kind /\ h[i] = [kind |-> h[i].kind, at |-> h[i].at]
      /\ h[i].at = [k \in {Last(q.path) : q \in Below(p)} |->
                      value(CHOOSE q \in Below(p) : Last(q.path) = k)]
  BY <1>4
<1>6. ASSUME NEW k \in DOMAIN h[i].at
      PROVE  \E q \in Below(p) : Last(q.path) = k /\ h[i].at[k] = value(q)
  <2>1. PICK q : q = CHOOSE x \in Below(p) : Last(x.path) = k
    OBVIOUS
  <2>2. \E x \in Below(p) : Last(x.path) = k
    BY <1>5, <1>6
  <2>3. q \in Below(p) /\ Last(q.path) = k
    BY <2>1, <2>2
  <2> QED
    BY <1>5, <1>6, <2>1, <2>3
<1> QED
  BY <1>4, <1>5, <1>6 DEF ShapeOf

LEMMA TreeNames ==
    ASSUME NEW tag
    PROVE  DOMAIN Tree(tag, Kept) = {<<tag, p.path>> : p \in {q \in Kept : HasEntries(q)}}
BY DEF Tree

LEMMA RecordedIsTree == WalkInv /\ KeptInv => TreeForm(recorded, "rec")
<1> SUFFICES ASSUME WalkInv, KeptInv PROVE TreeForm(recorded, "rec")
  OBVIOUS
<1>1. PICK h : h = recorded
  OBVIOUS
<1>0. h = Tree("rec", Kept)
  BY <1>1 DEF recorded
<1>2. DOMAIN h = {<<"rec", p.path>> : p \in {q \in Kept : HasEntries(q)}}
  BY <1>1, TreeNames DEF recorded
<1>3. IsFiniteSet(DOMAIN h)
  <2> DEFINE C == {q \in Kept : HasEntries(q)}
             f == [p \in C |-> <<"rec", p.path>>]
  <2>1. IsFiniteSet(C)
    BY FS_Subset DEF KeptInv, Kept
  <2>2. f \in Surjection(C, DOMAIN h)
    BY <1>2 DEF Surjection
  <2> HIDE DEF C, f
  <2> QED
    BY <2>1, <2>2, FS_Surjection
<1>4. ASSUME NEW p \in Kept, HasEntries(p)
      PROVE  LET i == <<"rec", p.path>>
             IN  /\ i = <<"rec", i[2]>> /\ IsList(i[2]) /\ Len(i[2]) <= MaxRedactDepth
                 /\ h[i] = [kind |-> h[i].kind, at |-> h[i].at]
                 /\ IsArray(h[i]) => DOMAIN h[i].at \subseteq Indices
                 /\ \A k \in DOMAIN h[i].at :
                       \/ IsLeaf(h[i].at[k])
                       \/ /\ h[i].at[k] = Ref(<<"rec", Append(i[2], k)>>)
                          /\ <<"rec", Append(i[2], k)>> \in DOMAIN h
  <2>1. PICK i : i = <<"rec", p.path>>
    OBVIOUS
  <2>2. i = <<"rec", i[2]>> /\ i[2] = p.path
    BY <2>1
  <2>3. IsList(p.path) /\ Len(p.path) <= MaxRedactDepth
    BY <1>4 DEF Kept, WalkInv, EntryInv, IsList, KeptInv
  <2>s. ShapeOf(p, i, h, "rec")
    BY <1>0, <1>4, <2>1, TreeShape
  <2>4. /\ i \in DOMAIN h /\ h[i].kind = p.value.kind
        /\ h[i] = [kind |-> h[i].kind, at |-> h[i].at]
        /\ \A k \in DOMAIN h[i].at : \E q \in Kept :
              /\ Len(q.path) = Len(p.path) + 1 /\ Front(q.path) = p.path /\ Last(q.path) = k
              /\ h[i].at[k] = IF HasEntries(q) THEN Ref(<<"rec", q.path>>) ELSE q.value
    BY <2>s DEF ShapeOf
  <2>5. ASSUME NEW k \in DOMAIN h[i].at
        PROVE  /\ IsArray(h[i]) => k \in Indices
               /\ \/ IsLeaf(h[i].at[k])
                  \/ /\ h[i].at[k] = Ref(<<"rec", Append(p.path, k)>>)
                     /\ <<"rec", Append(p.path, k)>> \in DOMAIN h
    <3>1. PICK q \in Kept :
              /\ Len(q.path) = Len(p.path) + 1 /\ Front(q.path) = p.path /\ Last(q.path) = k
              /\ h[i].at[k] = IF HasEntries(q) THEN Ref(<<"rec", q.path>>) ELSE q.value
      BY <2>4
    <3>2. /\ q.path = Append(p.path, k)
          /\ p.value.kind = "array" => k \in Indices
          /\ HasEntries(q) \/ IsLeaf(q.value)
      BY <1>4, <3>1, EntriesBelow DEF Kept
    <3> QED
      BY <1>2, <2>4, <3>1, <3>2 DEF IsArray
  <2> QED
    BY <2>1, <2>2, <2>3, <2>4, <2>5
<1>5. ASSUME NEW i \in DOMAIN h
      PROVE  /\ i = <<"rec", i[2]>> /\ IsList(i[2]) /\ Len(i[2]) <= MaxRedactDepth
             /\ h[i] = [kind |-> h[i].kind, at |-> h[i].at]
             /\ IsArray(h[i]) => DOMAIN h[i].at \subseteq Indices
             /\ \A k \in DOMAIN h[i].at :
                   \/ IsLeaf(h[i].at[k])
                   \/ /\ h[i].at[k] = Ref(<<"rec", Append(i[2], k)>>)
                      /\ <<"rec", Append(i[2], k)>> \in DOMAIN h
  <2>1. PICK p \in Kept : HasEntries(p) /\ i = <<"rec", p.path>>
    BY <1>2
  <2> QED
    BY <1>4, <2>1
<1>6. TreeForm(h, "rec")
  BY <1>3, <1>5 DEF TreeForm
<1> QED
  BY <1>1, <1>6

\* The same of what JSON.parse() makes of a tree.
ParsedShape(tree, i, h, j, tag) ==
    /\ j \in DOMAIN h /\ h[j].kind = tree[i].kind
    /\ h[j] = [kind |-> h[j].kind, at |-> h[j].at]
    /\ DOMAIN h[j].at \subseteq DOMAIN tree[i].at
    /\ \A k \in DOMAIN h[j].at :
          \/ IsLeaf(h[j].at[k])
          \/ ~IsLeaf(tree[i].at[k]) /\ h[j].at[k] = Ref(Fresh(tag, tree[i].at[k].ref))

LEMMA ParsedTells ==
    ASSUME NEW tree, NEW from, TreeForm(tree, from), NEW i \in DOMAIN tree, NEW tag,
           NEW h, h = Parsed(tag, tree), NEW j, j = Fresh(tag, i)
    PROVE  ParsedShape(tree, i, h, j, tag)
<1> DEFINE value(v) == IF ~IsLeaf(v) THEN Ref(Fresh(tag, v.ref))
                       ELSE IF v = Undefined THEN Null ELSE v
           Keys(s) == IF IsArray(s) THEN DOMAIN s.at
                      ELSE {k \in DOMAIN s.at \ Unsafe : s.at[k] # Undefined}
           shape(s) == [s EXCEPT !.at = [k \in Keys(s) |-> value(s.at[k])]]
           Source(id) == CHOOSE x \in DOMAIN tree : Fresh(tag, x) = id
<1>1. h = [id \in {Fresh(tag, x) : x \in DOMAIN tree} |-> shape(tree[Source(id)])]
  BY DEF Parsed
<1>2. Source(j) = i
  <2>1. ASSUME NEW x \in DOMAIN tree, Fresh(tag, x) = j PROVE x = i
    <3>1. x = <<from, x[2]>> /\ i = <<from, i[2]>>
      BY DEF TreeForm
    <3>2. x[2] = i[2]
      BY <2>1 DEF Fresh
    <3> QED
      BY <3>1, <3>2
  <2> QED
    BY <2>1
<1>3. j \in DOMAIN h /\ h[j] = shape(tree[i])
  <2> HIDE DEF Source, shape
  <2>1. j \in {Fresh(tag, x) : x \in DOMAIN tree}
    OBVIOUS
  <2> QED
    BY <1>1, <1>2, <2>1
<1>4. PICK s : s = tree[i]
  OBVIOUS
<1>5. s = [kind |-> s.kind, at |-> s.at]
  BY <1>4 DEF TreeForm
<1>6. /\ h[j].kind = s.kind /\ h[j].at = [k \in Keys(s) |-> value(s.at[k])]
      /\ h[j] = [kind |-> h[j].kind, at |-> h[j].at]
  BY <1>3, <1>4, <1>5
<1>7. Keys(s) \subseteq DOMAIN s.at
  OBVIOUS
<1>8. ASSUME NEW v PROVE IsLeaf(value(v)) \/ (~IsLeaf(v) /\ value(v) = Ref(Fresh(tag, v.ref)))
  BY LeafForm DEF Null
<1> QED
  BY <1>3, <1>4, <1>6, <1>7, <1>8 DEF ParsedShape

LEMMA ParsedIsTree ==
    ASSUME NEW tree, NEW from, TreeForm(tree, from), NEW tag
    PROVE  /\ TreeForm(Parsed(tag, tree), tag)
           /\ Root(tag) \in DOMAIN Parsed(tag, tree) <=> Root(from) \in DOMAIN tree
<1>1. PICK h : h = Parsed(tag, tree)
  OBVIOUS
<1>2. DOMAIN h = {Fresh(tag, i) : i \in DOMAIN tree}
  BY <1>1 DEF Parsed
<1>3. IsFiniteSet(DOMAIN h)
  <2> DEFINE f == [i \in DOMAIN tree |-> Fresh(tag, i)]
  <2>1. f \in Surjection(DOMAIN tree, DOMAIN h)
    BY <1>2 DEF Surjection
  <2> HIDE DEF f
  <2>2. IsFiniteSet(DOMAIN tree)
    BY DEF TreeForm
  <2> QED
    BY <2>1, <2>2, FS_Surjection
<1>4. ASSUME NEW j \in DOMAIN h
      PROVE  /\ j = <<tag, j[2]>> /\ IsList(j[2]) /\ Len(j[2]) <= MaxRedactDepth
             /\ h[j] = [kind |-> h[j].kind, at |-> h[j].at]
             /\ IsArray(h[j]) => DOMAIN h[j].at \subseteq Indices
             /\ \A k \in DOMAIN h[j].at :
                   \/ IsLeaf(h[j].at[k])
                   \/ /\ h[j].at[k] = Ref(<<tag, Append(j[2], k)>>)
                      /\ <<tag, Append(j[2], k)>> \in DOMAIN h
  <2>1. PICK i \in DOMAIN tree : j = Fresh(tag, i)
    BY <1>2
  <2>2. j = <<tag, i[2]>> /\ j[2] = i[2]
    BY <2>1 DEF Fresh
  <2>3. /\ IsList(i[2]) /\ Len(i[2]) <= MaxRedactDepth
        /\ IsArray(tree[i]) => DOMAIN tree[i].at \subseteq Indices
        /\ \A k \in DOMAIN tree[i].at :
              \/ IsLeaf(tree[i].at[k])
              \/ /\ tree[i].at[k] = Ref(<<from, Append(i[2], k)>>)
                 /\ <<from, Append(i[2], k)>> \in DOMAIN tree
    BY DEF TreeForm
  <2>4. ParsedShape(tree, i, h, j, tag)
    BY <1>1, <2>1, ParsedTells
  <2>5. ASSUME NEW k \in DOMAIN h[j].at, ~IsLeaf(h[j].at[k])
        PROVE  /\ h[j].at[k] = Ref(<<tag, Append(i[2], k)>>)
               /\ <<tag, Append(i[2], k)>> \in DOMAIN h
    <3>1. PICK c : c = <<from, Append(i[2], k)>>
      OBVIOUS
    <3>2. /\ h[j].at[k] = Ref(Fresh(tag, tree[i].at[k].ref))
          /\ tree[i].at[k] = Ref(c) /\ c \in DOMAIN tree
      BY <2>3, <2>4, <2>5, <3>1 DEF ParsedShape
    <3>3. Fresh(tag, c) = <<tag, Append(i[2], k)>>
      BY <3>1 DEF Fresh
    <3> QED
      BY <1>2, <3>2, <3>3, RefForm
  <2> QED
    BY <2>2, <2>3, <2>4, <2>5 DEF ParsedShape, IsArray
<1>5. TreeForm(h, tag)
  BY <1>3, <1>4 DEF TreeForm
<1>6. Root(tag) \in DOMAIN h <=> Root(from) \in DOMAIN tree
  <2>1. Fresh(tag, Root(from)) = Root(tag)
    BY DEF Fresh, Root
  <2>2. ASSUME NEW i \in DOMAIN tree, Fresh(tag, i) = Root(tag) PROVE i = Root(from)
    <3>1. i = <<from, i[2]>> /\ i[2] = <<>>
      BY <2>2 DEF TreeForm, Fresh, Root
    <3> QED
      BY <3>1 DEF Root
  <2> QED
    BY <1>2, <2>1, <2>2
<1> QED
  BY <1>1, <1>5, <1>6

\* A heap of objects made by one tool, none of which refers to the first.
Branching(h, tag) ==
    /\ IsFiniteSet(DOMAIN h)
    /\ \A i \in DOMAIN h :
          /\ i[1] = tag
          /\ IsArray(h[i]) => DOMAIN h[i].at \subseteq Indices
          /\ \A k \in DOMAIN h[i].at :
                IsLeaf(h[i].at[k]) \/ h[i].at[k] \in {Ref(j) : j \in DOMAIN h \ {Root(tag)}}

LEMMA TreeBranches ==
    ASSUME NEW h, NEW tag, TreeForm(h, tag)
    PROVE  Branching(h, tag)
<1>1. ASSUME NEW i \in DOMAIN h, NEW k \in DOMAIN h[i].at, ~IsLeaf(h[i].at[k])
      PROVE  h[i].at[k] \in {Ref(j) : j \in DOMAIN h \ {Root(tag)}}
  <2>1. PICK j : j = <<tag, Append(i[2], k)>>
    OBVIOUS
  <2>2. h[i].at[k] = Ref(j) /\ j \in DOMAIN h /\ IsList(i[2])
    BY <1>1, <2>1 DEF TreeForm
  <2>3. j[2] # <<>>
    BY <2>1, <2>2, PathEnds
  <2>4. j # Root(tag)
    BY <2>3 DEF Root
  <2> QED
    BY <2>2, <2>4
<1>2. ASSUME NEW i \in DOMAIN h PROVE i[1] = tag
  <2>1. i = <<tag, i[2]>>
    BY DEF TreeForm
  <2> QED
    BY <2>1
<1> QED
  BY <1>1, <1>2 DEF TreeForm, Branching

\* One object of a tree has other entries.
LEMMA OneChanged ==
    ASSUME NEW h, NEW tag, TreeForm(h, tag), NEW i \in DOMAIN h, NEW at,
           IsArray(h[i]) => DOMAIN at \subseteq Indices,
           \A k \in DOMAIN at : IsLeaf(at[k]) \/ at[k] \in {Ref(j) : j \in DOMAIN h \ {Root(tag)}}
    PROVE  Branching([h EXCEPT ![i].at = at], tag)
<1>1. PICK g : g = [h EXCEPT ![i].at = at]
  OBVIOUS
<1>2. DOMAIN g = DOMAIN h /\ \A j \in DOMAIN h : j # i => g[j] = h[j]
  BY <1>1
<1>3. g[i].at = at /\ g[i].kind = h[i].kind
  <2>1. h[i] = [kind |-> h[i].kind, at |-> h[i].at]
    BY DEF TreeForm
  <2> QED
    BY <1>1, <2>1
<1>4. Branching(h, tag)
  BY TreeBranches
<1>5. Branching(g, tag)
  BY <1>2, <1>3, <1>4 DEF Branching, IsArray
<1> QED
  BY <1>1, <1>5

LEMMA EntriesOf ==
    ASSUME NEW h, NEW e \in Entries(h)
    PROVE  e[1] \in DOMAIN h /\ e[2] \in DOMAIN h[e[1]].at
BY DEF Entries

LEMMA ChangedBranches ==
    ASSUME NEW h, NEW tag, TreeForm(h, tag), NEW g \in Changed(h)
    PROVE  Branching(g, tag)
<1>1. ASSUME NEW i \in DOMAIN h
      PROVE  /\ IsArray(h[i]) => DOMAIN h[i].at \subseteq Indices
             /\ \A k \in DOMAIN h[i].at :
                   IsLeaf(h[i].at[k]) \/ h[i].at[k] \in {Ref(j) : j \in DOMAIN h \ {Root(tag)}}
  BY TreeBranches DEF Branching
<1>2. CASE g \in Altered(h)
  <2>1. PICK e \in Entries(h) : g = [h EXCEPT ![e[1]].at[e[2]] = Leaf("changed")]
    BY <1>2 DEF Altered
  <2>2. PICK i \in DOMAIN h : i = e[1]
    BY EntriesOf
  <2>3. PICK at : at = [h[i].at EXCEPT ![e[2]] = Leaf("changed")]
    OBVIOUS
  <2>4. g = [h EXCEPT ![i].at = at]
    BY <2>1, <2>2, <2>3
  <2>5. DOMAIN at = DOMAIN h[i].at /\ \A k \in DOMAIN at : at[k] = h[i].at[k] \/ at[k] = Leaf("changed")
    BY <2>3
  <2> QED
    BY <1>1, <2>4, <2>5, LeafForm, OneChanged
<1>3. CASE \E e \in Entries(h) : g = [h EXCEPT ![e[1]].at = Without(@, e[2])]
  <2>1. PICK e \in Entries(h) : g = [h EXCEPT ![e[1]].at = Without(@, e[2])]
    BY <1>3
  <2>2. PICK i \in DOMAIN h : i = e[1]
    BY EntriesOf
  <2>3. PICK at : at = Without(h[i].at, e[2])
    OBVIOUS
  <2>4. g = [h EXCEPT ![i].at = at]
    BY <2>1, <2>2, <2>3
  <2>5. DOMAIN at \subseteq DOMAIN h[i].at /\ \A k \in DOMAIN at : at[k] = h[i].at[k]
    BY <2>3 DEF Without
  <2> QED
    BY <1>1, <2>4, <2>5, OneChanged
<1>4. CASE \E i \in DOMAIN h : g = [h EXCEPT ![i].at = With(@, Last(IndexNames), Leaf("added"))]
  <2>1. PICK i \in DOMAIN h : g = [h EXCEPT ![i].at = With(@, Last(IndexNames), Leaf("added"))]
    BY <1>4
  <2>2. PICK last : last = Last(IndexNames)
    OBVIOUS
  <2>3. PICK at : at = With(h[i].at, last, Leaf("added"))
    OBVIOUS
  <2>4. g = [h EXCEPT ![i].at = at]
    BY <2>1, <2>2, <2>3
  <2>5. /\ DOMAIN at \subseteq DOMAIN h[i].at \cup {last}
        /\ \A k \in DOMAIN at : (k \in DOMAIN h[i].at /\ at[k] = h[i].at[k]) \/ at[k] = Leaf("added")
    BY <2>3 DEF With
  <2>6. last \in Indices
    <3>1. IndexNames \in Seq(STRING) /\ IndexNames # <<>>
      BY IndicesNamed
    <3>2. Len(IndexNames) \in 1..Len(IndexNames) /\ DOMAIN IndexNames = 1..Len(IndexNames)
      BY <3>1, EmptySeq, LenProperties
    <3> QED
      BY <2>2, <3>2 DEF Last, Indices, Range
  <2>7. IsArray(h[i]) => DOMAIN at \subseteq Indices
    BY <1>1, <2>5, <2>6
  <2>8. ASSUME NEW k \in DOMAIN at
        PROVE  IsLeaf(at[k]) \/ at[k] \in {Ref(j) : j \in DOMAIN h \ {Root(tag)}}
    BY <1>1, <2>5, LeafForm
  <2> QED
    BY <2>4, <2>7, <2>8, OneChanged
<1> QED
  BY <1>2, <1>3, <1>4 DEF Changed

LEMMA AliasedBranches ==
    ASSUME NEW h, NEW tag, TreeForm(h, tag), NEW g \in Aliased(h)
    PROVE  Branching(g, tag)
<1>1. PICK e \in Entries(h), j \in DOMAIN h :
         g = [h EXCEPT ![e[1]].at[e[2]] = Ref(j)] /\ ~IsPrefix(j[2], e[1][2])
  BY DEF Aliased
<1>2. PICK i \in DOMAIN h : i = e[1]
  BY EntriesOf
<1>3. PICK at : at = [h[i].at EXCEPT ![e[2]] = Ref(j)]
  OBVIOUS
<1>4. g = [h EXCEPT ![i].at = at]
  BY <1>1, <1>2, <1>3
<1>5. DOMAIN at = DOMAIN h[i].at /\ \A k \in DOMAIN at : at[k] = h[i].at[k] \/ at[k] = Ref(j)
  BY <1>3
<1>6. j # Root(tag)
  <2>1. SUFFICES ASSUME j[2] = <<>> PROVE FALSE
    BY DEF Root
  <2>2. PICK path : path = i[2]
    OBVIOUS
  <2>3. Len(path) \in Nat
    <3>1. IsList(path)
      BY <2>2 DEF TreeForm
    <3> QED
      BY <3>1, LenProperties DEF IsList
  <2>4. SubSeq(path, 1, 0) = <<>> /\ SubSeq(<<>>, 1, 0) = <<>> /\ Len(<<>>) = 0
    BY SubSeqEmpty, EmptySeq
  <2>5. IsPrefix(<<>>, path)
    BY <2>3, <2>4 DEF IsPrefix
  <2> QED
    BY <1>1, <1>2, <2>1, <2>2, <2>5
<1>7. /\ IsArray(h[i]) => DOMAIN h[i].at \subseteq Indices
      /\ \A k \in DOMAIN h[i].at :
            IsLeaf(h[i].at[k]) \/ h[i].at[k] \in {Ref(x) : x \in DOMAIN h \ {Root(tag)}}
  BY TreeBranches DEF Branching
<1> QED
  BY <1>4, <1>5, <1>6, <1>7, OneChanged

\* What is compared; if it is compared with the objects of the program, the
\* recording may lack a root.
AnswersInv ==
    stage = "comparing" =>
        /\ TreeForm(imported.events, "imp")
        /\ Root("rep") \in DOMAIN other =>
              Branching(other, "rep") /\ Root("imp") \in DOMAIN imported.events

LEMMA AnswersReplayed ==
    ASSUME WalkInv, KeptInv, FileInv, CallDeepDiff
    PROVE  AnswersInv'
<1>1. stage = "imported" /\ imported.ok /\ damaged = "no" /\ imported' = imported
  BY DEF CallDeepDiff
<1>2. PICK t : t = imported.events
  OBVIOUS
<1>3. t = Parsed("imp", recorded)
  BY <1>1, <1>2 DEF FileInv, ReadsWhatWasWritten, Session
<1>4. TreeForm(t, "imp")
  BY <1>3, RecordedIsTree, ParsedIsTree
<1>5. PICK again : again = Again(t)
  OBVIOUS
<1>6. TreeForm(again, "rep") /\ (Root("rep") \in DOMAIN again => Root("imp") \in DOMAIN t)
  BY <1>4, <1>5, ParsedIsTree DEF Again
<1>7. Root("rep") \in DOMAIN other' => Branching(other', "rep") /\ Root("imp") \in DOMAIN t
  <2>1. CASE other' = again
    BY <1>6, <2>1, TreeBranches
  <2>2. CASE other' \in Changed(again)
    <3>1. DOMAIN other' = DOMAIN again
      BY <2>2 DEF Changed, Altered
    <3> QED
      BY <1>6, <2>2, <3>1, ChangedBranches
  <2>3. CASE other' \in Aliased(again)
    <3>1. DOMAIN other' = DOMAIN again
      BY <2>3 DEF Aliased
    <3> QED
      BY <1>6, <2>3, <3>1, AliasedBranches
  <2>4. CASE other' = heap
    <3>1. \A i \in DOMAIN heap : i[1] = "live"
      BY HeapsClosed DEF WalkInv
    <3>2. Root("rep")[1] # "live"
      BY DEF Root
    <3> QED
      BY <2>4, <3>1, <3>2
  <2>5. other' \in {again} \cup Changed(again) \cup Aliased(again) \cup {heap}
    BY <1>2, <1>5 DEF CallDeepDiff
  <2> QED
    BY <2>1, <2>2, <2>3, <2>4, <2>5
<1>8. imported.events' = t
  BY <1>1, <1>2
<1> QED
  BY <1>4, <1>7, <1>8 DEF AnswersInv, TreeForm, Branching, Root

LEMMA AnswersStay ==
    ASSUME AnswersInv, UNCHANGED <<imported, other>>, stage' = "comparing" => stage = "comparing"
    PROVE  AnswersInv'
BY DEF AnswersInv, TreeForm, Branching, Root, Indices, IsList

-----------------------------------------------------------------------------
(***************************************************************************)
(* What a comparison that finds no difference has paired.  Every call of   *)
(* walk() was made by one that looked into two containers, so the calls    *)
(* are told apart by their paths and, while no object lies in two places,  *)
(* by the other object: what was seen before is never met again, and    *)
(* the pairs that were looked into are a reason to call the answers equal. *)
(***************************************************************************)
\* Recording f and answer g, and what is compared of both.
World(f, g, h) ==
    /\ TreeForm(f, "imp") /\ Root("imp") \in DOMAIN f
    /\ Branching(g, "rep") /\ Root("rep") \in DOMAIN g
    /\ \A i \in DOMAIN f : h[i] = f[i]
    /\ \A j \in DOMAIN g : h[j] = g[j]

RootCall == [a |-> Ref(Root("imp")), b |-> Ref(Root("rep")), path |-> <<>>, depth |-> 0]

CallForm(f, g, w) ==
    /\ IsList(w.path) /\ w.depth = Len(w.path) /\ w.depth <= MaxDiffDepth
    /\ IsLeaf(w.a) \/ (w.a = Ref(<<"imp", w.path>>) /\ <<"imp", w.path>> \in DOMAIN f)
    /\ IsLeaf(w.b) \/ w.b \in {Ref(j) : j \in DOMAIN g}

PairForm(f, g, w) == CallForm(f, g, w) /\ ~IsLeaf(w.a) /\ ~IsLeaf(w.b)

\* Calls that looked into containers called walk() for what lies in them.
CalledBy(h, e, w) == \E k \in Shared(h[e.a.ref], h[e.b.ref]) : w = Child(h, e, k)

LEMMA RootForm ==
    ASSUME NEW f, NEW g, NEW h, World(f, g, h)
    PROVE  PairForm(f, g, RootCall)
<1>1. /\ RootCall.path = <<>> /\ RootCall.depth = 0
      /\ RootCall.a = Ref(Root("imp")) /\ RootCall.b = Ref(Root("rep"))
  BY DEF RootCall
<1>2. IsList(<<>>) /\ Len(<<>>) = 0 /\ 0 <= MaxDiffDepth
  BY EmptySeq, DiffConstants DEF IsList
<1> QED
  BY <1>1, <1>2, RefForm DEF PairForm, CallForm, World, Root

\* What lies under a key of an object of a heap, if anything does.
LEMMA AtForm ==
    ASSUME NEW s, NEW k
    PROVE  /\ (k \in DOMAIN s.at /\ At(s, k) = s.at[k]) \/ IsLeaf(At(s, k))
           /\ ~IsLeaf(At(s, k)) => k \in DOMAIN s.at
BY LeafForm DEF At, Undefined

LEMMA ChildForm ==
    ASSUME NEW f, NEW g, NEW h, World(f, g, h), NEW e, PairForm(f, g, e), NEW k,
           NEW w, w = Child(h, e, k)
    PROVE  /\ CallForm(f, g, w) /\ w.path = Append(e.path, k)
           /\ w.a = At(h[e.a.ref], k) /\ w.b = At(h[e.b.ref], k)
           /\ IsLeaf(w.b) \/ w.b \in {Ref(j) : j \in DOMAIN g \ {Root("rep")}}
<1>1. /\ w.path = Append(e.path, k) /\ w.depth = e.depth + 1
      /\ w.a = At(h[e.a.ref], k) /\ w.b = At(h[e.b.ref], k)
  BY DEF Child
<1>2. PICK i \in DOMAIN f : i = <<"imp", e.path>> /\ e.a = Ref(i) /\ h[e.a.ref] = f[i]
  BY RefForm DEF PairForm, CallForm, World
<1>3. PICK j \in DOMAIN g : e.b = Ref(j) /\ h[e.b.ref] = g[j]
  BY RefForm DEF PairForm, CallForm, World
<1>4. PICK path : path = e.path
  OBVIOUS
<1>5. IsList(path) /\ Len(path) <= MaxRedactDepth /\ e.depth = Len(path) /\ i[2] = path
  BY <1>2, <1>4 DEF PairForm, CallForm, World, TreeForm
<1>6. IsList(Append(path, k)) /\ Len(path) \in Nat /\ Len(Append(path, k)) = Len(path) + 1
  BY <1>5, PathEnds
<1>7. w.depth = Len(w.path) /\ w.depth <= MaxDiffDepth /\ IsList(w.path)
  BY <1>1, <1>4, <1>5, <1>6, DepthsFit, RedactionConstants, DiffConstants
<1>8. ASSUME ~IsLeaf(w.a)
      PROVE  w.a = Ref(<<"imp", w.path>>) /\ <<"imp", w.path>> \in DOMAIN f
  <2>1. k \in DOMAIN f[i].at /\ w.a = f[i].at[k]
    BY <1>1, <1>2, <1>8, AtForm
  <2> QED
    BY <1>1, <1>4, <1>5, <1>8, <2>1 DEF World, TreeForm
<1>9. ASSUME ~IsLeaf(w.b) PROVE w.b \in {Ref(x) : x \in DOMAIN g \ {Root("rep")}}
  <2>1. k \in DOMAIN g[j].at /\ w.b = g[j].at[k]
    BY <1>1, <1>3, <1>9, AtForm
  <2> QED
    BY <1>9, <2>1 DEF World, Branching
<1>10. CallForm(f, g, w)
  BY <1>7, <1>8, <1>9 DEF CallForm
<1> QED
  BY <1>1, <1>9, <1>10

\* A key that counts is settled, or somebody looks or will look into it.
Settled(h, E, T, e, k) ==
    \/ At(h[e.a.ref], k) = At(h[e.b.ref], k)
    \/ Child(h, e, k) \in E \cup T

Agrees(h, E, T, e) ==
    LET s == h[e.a.ref]
        t == h[e.b.ref]
    IN  /\ IsArray(s) = IsArray(t) /\ Counted(s, IgnoreFields) = Counted(t, IgnoreFields)
        /\ \A k \in Counted(s, IgnoreFields) : Settled(h, E, T, e, k)

\* The calls E have looked into two containers, the calls T are still to be made.
Walked(f, g, h, E, T, S) ==
    /\ RootCall \in E \cup T /\ E \cap T = {}
    /\ \A w \in E \cup T : w = RootCall \/ \E e \in E : CalledBy(h, e, w)
    /\ \A v, w \in E \cup T : v.path = w.path => v = w
    /\ \A e \in E : PairForm(f, g, e) /\ Agrees(h, E, T, e)
    /\ \A d, e \in E : d.b = e.b => d = e
    /\ \A x \in S : \E e \in E : x \in {e.a.ref, e.b.ref}

LEMMA CallsFormed ==
    ASSUME NEW f, NEW g, NEW h, World(f, g, h), NEW E, NEW T, NEW S, Walked(f, g, h, E, T, S),
           NEW w \in E \cup T
    PROVE  CallForm(f, g, w)
<1>1. CASE w = RootCall
  BY <1>1, RootForm DEF PairForm
<1>2. CASE \E e \in E : CalledBy(h, e, w)
  <2>1. PICK e \in E : \E k : w = Child(h, e, k)
    BY <1>2 DEF CalledBy
  <2>2. PairForm(f, g, e)
    BY DEF Walked
  <2> QED
    BY <2>1, <2>2, ChildForm
<1> QED
  BY <1>1, <1>2 DEF Walked

\* No call was made yet from one that is still to be made.
LEMMA NothingBelow ==
    ASSUME NEW f, NEW g, NEW h, World(f, g, h), NEW E, NEW T, NEW S, Walked(f, g, h, E, T, S),
           NEW w \in T, NEW v \in E \cup T, NEW k
    PROVE  v.path # Append(w.path, k)
<1> SUFFICES ASSUME v.path = Append(w.path, k) PROVE FALSE
  OBVIOUS
<1>1. PICK p : p = w.path
  OBVIOUS
<1>2. IsList(p)
  BY <1>1, CallsFormed DEF CallForm
<1>3. v.path # <<>> /\ Front(v.path) = p
  BY <1>1, <1>2, PathEnds
<1>4. v # RootCall
  BY <1>3 DEF RootCall
<1>5. PICK e \in E : CalledBy(h, e, v)
  BY <1>4 DEF Walked
<1>6. PICK q : q = e.path
  OBVIOUS
<1>7. IsList(q)
  BY <1>6, CallsFormed DEF CallForm
<1>8. \E l : v.path = Append(q, l)
  BY <1>5, <1>6 DEF CalledBy, Child
<1>9. q = p
  BY <1>3, <1>7, <1>8, PathEnds
<1> QED
  BY <1>1, <1>6, <1>9 DEF Walked

\* Nor was the other object that it is about looked into.
LEMMA NotBefore ==
    ASSUME NEW f, NEW g, NEW h, World(f, g, h), Unshared(g),
           NEW E, NEW T, NEW S, Walked(f, g, h, E, T, S),
           NEW w \in T, ~IsLeaf(w.b), NEW e \in E
    PROVE  e.b # w.b /\ e.path # w.path
<1>1. e.path # w.path
  BY DEF Walked
<1>2. SUFFICES ASSUME e.b = w.b PROVE FALSE
  BY <1>1
<1>3. ASSUME NEW v \in E \cup T, NEW d \in E, CalledBy(h, d, v), v.b = w.b
      PROVE  \E j \in DOMAIN g : \E k \in DOMAIN g[j].at :
                /\ d.b = Ref(j) /\ g[j].at[k] = w.b
                /\ v.b # Ref(Root("rep")) /\ v = Child(h, d, k)
  <2>1. PICK k : v = Child(h, d, k)
    BY <1>3 DEF CalledBy
  <2>2. PairForm(f, g, d)
    BY DEF Walked
  <2>3. PICK j \in DOMAIN g : d.b = Ref(j) /\ h[d.b.ref] = g[j]
    BY <2>2, RefForm DEF PairForm, CallForm, World
  <2>4. v.b = At(g[j], k) /\ v.b \in {Ref(x) : x \in DOMAIN g \ {Root("rep")}}
    BY <1>3, <2>1, <2>2, <2>3, ChildForm
  <2>5. k \in DOMAIN g[j].at /\ g[j].at[k] = w.b
    BY <1>3, <2>4, AtForm
  <2>6. v.b # Ref(Root("rep"))
    BY <2>4, RefForm
  <2> QED
    BY <2>1, <2>3, <2>5, <2>6
<1>4. w.b = Ref(Root("rep")) => w = RootCall /\ e = RootCall
  <2>1. ASSUME w.b = Ref(Root("rep")), NEW v \in {w, e} PROVE v = RootCall
    <3>1. v \in E \cup T /\ v.b = Ref(Root("rep")) /\ v.b = w.b
      BY <1>2, <2>1
    <3>2. v = RootCall \/ \E d \in E : CalledBy(h, d, v)
      BY <3>1 DEF Walked
    <3> QED
      BY <1>3, <3>1, <3>2
  <2> QED
    BY <2>1
<1>5. w.b # Ref(Root("rep"))
  BY <1>1, <1>4
<1>6. w # RootCall /\ e # RootCall
  BY <1>2, <1>5 DEF RootCall
<1>7. PICK c, d \in E : CalledBy(h, c, w) /\ CalledBy(h, d, e)
  BY <1>6 DEF Walked
<1>8. PICK i \in DOMAIN g : \E k \in DOMAIN g[i].at :
         c.b = Ref(i) /\ g[i].at[k] = w.b /\ w = Child(h, c, k)
  BY <1>3, <1>7
<1>k. PICK k \in DOMAIN g[i].at : c.b = Ref(i) /\ g[i].at[k] = w.b /\ w = Child(h, c, k)
  BY <1>8
<1>9. PICK j \in DOMAIN g : \E l \in DOMAIN g[j].at :
         d.b = Ref(j) /\ g[j].at[l] = w.b /\ e = Child(h, d, l)
  BY <1>2, <1>3, <1>7
<1>l. PICK l \in DOMAIN g[j].at : d.b = Ref(j) /\ g[j].at[l] = w.b /\ e = Child(h, d, l)
  BY <1>9
<1>10. PICK t, u : t = <<i, k>> /\ u = <<j, l>>
  OBVIOUS
<1>11. t \in Entries(g) /\ u \in Entries(g) /\ t[1] = i /\ t[2] = k /\ u[1] = j /\ u[2] = l
  BY <1>k, <1>l, <1>10 DEF Entries
<1>12. t = u
  BY <1>k, <1>l, <1>11 DEF Unshared
<1>13. c = d /\ k = l
  BY <1>k, <1>l, <1>11, <1>12 DEF Walked
<1> QED
  BY <1>1, <1>k, <1>l, <1>13

LEMMA WalkedBegins ==
    ASSUME NEW f, NEW g, NEW h
    PROVE  Walked(f, g, h, {}, {RootCall}, {})
BY DEF Walked

\* A call returns at once: what it is about is the same, or does not count.
LEMMA WalkedOver ==
    ASSUME NEW f, NEW g, NEW h, World(f, g, h), NEW E, NEW T, NEW S, Walked(f, g, h, E, T, S),
           NEW w \in T, w.a = w.b \/ ShouldIgnore(w.path)
    PROVE  Walked(f, g, h, E, T \ {w}, S)
<1>1. w # RootCall
  <2>1. RootCall.a # RootCall.b
    <3>1. Root("imp") # Root("rep")
      BY DEF Root
    <3> QED
      BY <3>1, RefForm DEF RootCall
  <2>2. ~ShouldIgnore(RootCall.path)
    BY DEF RootCall, ShouldIgnore
  <2> QED
    BY <2>1, <2>2
<1>2. ASSUME NEW e \in E, NEW k \in Counted(h[e.a.ref], IgnoreFields), w = Child(h, e, k)
      PROVE  At(h[e.a.ref], k) = At(h[e.b.ref], k)
  <2>1. PairForm(f, g, e)
    BY DEF Walked
  <2>2. /\ w.path = Append(e.path, k)
        /\ w.a = At(h[e.a.ref], k) /\ w.b = At(h[e.b.ref], k)
    BY <1>2, <2>1, ChildForm
  <2>3. k \notin IgnoreFields
    <3>1. CASE IsArray(h[e.a.ref])
      <4>1. PICK i \in DOMAIN f : h[e.a.ref] = f[i]
        BY <2>1, RefForm DEF PairForm, CallForm, World
      <4>2. k \in Indices
        BY <1>2, <3>1, <4>1 DEF Counted, World, TreeForm
      <4> QED
        BY <4>2, DiffConstants
    <3>2. CASE ~IsArray(h[e.a.ref])
      BY <1>2, <3>2 DEF Counted
    <3> QED
      BY <3>1, <3>2
  <2>4. ~ShouldIgnore(w.path)
    <3>1. PICK path : path = e.path
      OBVIOUS
    <3>2. IsList(path)
      BY <2>1, <3>1 DEF PairForm, CallForm
    <3>3. Last(w.path) = k
      BY <2>2, <3>1, <3>2, PathEnds
    <3> QED
      BY <2>3, <3>3 DEF ShouldIgnore
  <2> QED
    BY <2>2, <2>4
<1>3. ASSUME NEW e \in E PROVE Agrees(h, E, T \ {w}, e)
  <2>1. Agrees(h, E, T, e)
    BY DEF Walked
  <2> QED
    BY <1>2, <2>1 DEF Agrees, Settled
<1> QED
  BY <1>1, <1>3 DEF Walked

\* A call looks into two containers, and calls walk() for what both hold.
LEMMA WalkedInto ==
    ASSUME NEW f, NEW g, NEW h, World(f, g, h), Unshared(g),
           NEW E, NEW T, NEW S, Walked(f, g, h, E, T, S),
           NEW w \in T, ~IsLeaf(w.a), ~IsLeaf(w.b),
           IsArray(h[w.a.ref]) = IsArray(h[w.b.ref]),
           Counted(h[w.a.ref], IgnoreFields) = Counted(h[w.b.ref], IgnoreFields),
           Counted(h[w.a.ref], IgnoreFields) \subseteq Shared(h[w.a.ref], h[w.b.ref]),
           NEW N, N = {Child(h, w, k) : k \in Shared(h[w.a.ref], h[w.b.ref])},
           NEW U, U \subseteq S \cup {w.a.ref, w.b.ref}
    PROVE  Walked(f, g, h, E \cup {w}, (T \ {w}) \cup N, U)
<1> DEFINE D == E \cup {w}
           O == (T \ {w}) \cup N
<1>1. PairForm(f, g, w)
  BY CallsFormed DEF PairForm
<1>2. PICK p : p = w.path
  OBVIOUS
<1>3. IsList(p)
  BY <1>1, <1>2 DEF PairForm, CallForm
<1>4. \A v \in N : \E k : v = Child(h, w, k) /\ v.path = Append(p, k)
  BY <1>2 DEF Child
<1>5. ASSUME NEW v \in N, NEW u \in E \cup T PROVE u.path # v.path
  <2>1. PICK k : v.path = Append(w.path, k)
    BY <1>2, <1>4
  <2>2. u.path # Append(w.path, k)
    BY NothingBelow
  <2> QED
    BY <2>1, <2>2
<1>6. ASSUME NEW u \in N, NEW v \in N, u.path = v.path PROVE u = v
  <2>1. PICK k : u = Child(h, w, k) /\ u.path = Append(p, k)
    BY <1>4
  <2>2. PICK l : v = Child(h, w, l) /\ v.path = Append(p, l)
    BY <1>4
  <2>3. k = l
    BY <1>3, <1>6, <2>1, <2>2, PathEnds
  <2> QED
    BY <2>1, <2>2, <2>3
<1>7. RootCall \in D \cup O /\ D \cap O = {}
  <2>1. w \notin N /\ E \cap N = {}
    BY <1>5
  <2> QED
    BY <2>1 DEF Walked
<1>8. ASSUME NEW v \in D \cup O PROVE v = RootCall \/ \E e \in D : CalledBy(h, e, v)
  <2>1. CASE v \in E \cup T
    BY <2>1 DEF Walked
  <2>2. CASE v \in N
    BY <2>2 DEF CalledBy
  <2> QED
    BY <2>1, <2>2
<1>9. ASSUME NEW u \in D \cup O, NEW v \in D \cup O, u.path = v.path PROVE u = v
  <2>1. (u \in E \cup T \/ u \in N) /\ (v \in E \cup T \/ v \in N)
    OBVIOUS
  <2> QED
    BY <1>5, <1>6, <1>9, <2>1 DEF Walked
<1>10. ASSUME NEW e \in D PROVE PairForm(f, g, e) /\ Agrees(h, D, O, e)
  <2>1. CASE e \in E
    BY <2>1 DEF Walked, Agrees, Settled
  <2>2. CASE e = w
    BY <1>1, <2>2 DEF Agrees, Settled
  <2> QED
    BY <2>1, <2>2
<1>11. ASSUME NEW d \in D, NEW e \in D, d.b = e.b PROVE d = e
  <2>1. \A x \in E : x.b # w.b
    BY NotBefore
  <2> QED
    BY <1>11, <2>1 DEF Walked
<1>12. \A x \in U : \E e \in D : x \in {e.a.ref, e.b.ref}
  BY DEF Walked
<1> QED
  BY <1>7, <1>8, <1>9, <1>10, <1>11, <1>12 DEF Walked

\* Of what is to be looked into nothing was seen.
LEMMA NotSeen ==
    ASSUME NEW f, NEW g, NEW h, World(f, g, h), Unshared(g),
           NEW E, NEW T, NEW S, Walked(f, g, h, E, T, S),
           NEW w \in T, ~IsLeaf(w.a), ~IsLeaf(w.b)
    PROVE  {w.a.ref, w.b.ref} \cap S = {}
<1>1. ASSUME NEW v \in E \cup T, ~IsLeaf(v.a), ~IsLeaf(v.b)
      PROVE  \E j \in DOMAIN g : /\ v.a.ref = <<"imp", v.path>> /\ v.b = Ref(j)
                                 /\ v.b.ref = j /\ j[1] = "rep"
  <2>1. CallForm(f, g, v)
    BY CallsFormed
  <2> QED
    BY <1>1, <2>1, RefForm DEF CallForm, World, Branching
<1>2. ASSUME NEW x \in {w.a.ref, w.b.ref}, x \in S PROVE FALSE
  <2>1. PICK e \in E : x \in {e.a.ref, e.b.ref}
    BY <1>2 DEF Walked
  <2>2. ~IsLeaf(e.a) /\ ~IsLeaf(e.b)
    BY DEF Walked, PairForm
  <2>3. PICK i \in DOMAIN g : /\ e.a.ref = <<"imp", e.path>> /\ e.b = Ref(i)
                              /\ e.b.ref = i /\ i[1] = "rep"
    BY <1>1, <2>2
  <2>4. PICK j \in DOMAIN g : /\ w.a.ref = <<"imp", w.path>> /\ w.b = Ref(j)
                              /\ w.b.ref = j /\ j[1] = "rep"
    BY <1>1
  <2>5. e.b # w.b /\ e.path # w.path
    BY NotBefore
  <2>6. w.a.ref[1] = "imp" /\ w.a.ref[2] = w.path /\ e.a.ref[1] = "imp" /\ e.a.ref[2] = e.path
    BY <2>3, <2>4
  <2> QED
    BY <1>2, <2>1, <2>3, <2>4, <2>5, <2>6
<1> QED
  BY <1>2

\* All calls made: what was looked into is a reason to call the answers equal.
LEMMA WalkedIsAlike ==
    ASSUME NEW f, NEW g, NEW h, World(f, g, h), DOMAIN h = DOMAIN f \cup DOMAIN g,
           NEW E, NEW S, Walked(f, g, h, E, {}, S)
    PROVE  Same(h, Ref(Root("imp")), Ref(Root("rep")), IgnoreFields)
<1>1. PICK R : R = {<<e.a.ref, e.b.ref>> : e \in E}
  OBVIOUS
<1>2. IsFiniteSet(DOMAIN h)
  <2>1. IsFiniteSet(DOMAIN f) /\ IsFiniteSet(DOMAIN g)
    BY DEF World, TreeForm, Branching
  <2> QED
    BY <2>1, FS_Union
<1>3. ASSUME NEW e \in E PROVE e.a.ref \in DOMAIN h /\ e.b.ref \in DOMAIN h
  <2>1. PairForm(f, g, e)
    BY DEF Walked
  <2> QED
    BY <2>1, RefForm DEF PairForm, CallForm
<1>4. R \in SUBSET ((DOMAIN h) \X (DOMAIN h))
  BY <1>1, <1>3
<1>5. ASSUME NEW e \in E PROVE Alike(h, R, e.a.ref, e.b.ref, IgnoreFields)
  <2>1. PICK s, t : s = h[e.a.ref] /\ t = h[e.b.ref]
    OBVIOUS
  <2>2. /\ IsArray(s) = IsArray(t) /\ Counted(s, IgnoreFields) = Counted(t, IgnoreFields)
        /\ \A k \in Counted(s, IgnoreFields) : Settled(h, E, {}, e, k)
    BY <2>1 DEF Walked, Agrees
  <2>3. ASSUME NEW k \in Counted(s, IgnoreFields) PROVE Paired(R, s.at[k], t.at[k])
    <3>1. k \in DOMAIN s.at /\ k \in DOMAIN t.at
      BY <2>2 DEF Counted
    <3>2. At(s, k) = s.at[k] /\ At(t, k) = t.at[k]
      BY <3>1 DEF At
    <3>3. CASE At(s, k) = At(t, k)
      BY <3>2, <3>3 DEF Paired
    <3>4. CASE Child(h, e, k) \in E
      <4>1. PICK c \in E : c = Child(h, e, k)
        BY <3>4
      <4>2. c.a = s.at[k] /\ c.b = t.at[k]
        BY <2>1, <3>2, <4>1 DEF Child
      <4>3. ~IsLeaf(c.a) /\ ~IsLeaf(c.b)
        BY DEF Walked, PairForm
      <4> QED
        BY <1>1, <4>2, <4>3 DEF Paired
    <3> QED
      BY <2>1, <2>2, <3>3, <3>4 DEF Settled
  <2> QED
    BY <2>1, <2>2, <2>3 DEF Alike
<1>6. AllAlike(h, R, IgnoreFields)
  <2>1. ASSUME NEW p \in R PROVE Alike(h, R, p[1], p[2], IgnoreFields)
    <3>1. PICK e \in E : p = <<e.a.ref, e.b.ref>>
      BY <1>1
    <3>2. p[1] = e.a.ref /\ p[2] = e.b.ref
      BY <3>1
    <3> QED
      BY <1>5, <3>2
  <2> QED
    BY <2>1 DEF AllAlike
<1>7. Paired(R, Ref(Root("imp")), Ref(Root("rep")))
  <2>1. RootCall \in E
    BY DEF Walked
  <2>2. <<Root("imp"), Root("rep")>> \in R
    BY <1>1, <2>1, RefForm DEF RootCall
  <2> QED
    BY <2>2, RefForm DEF Paired
<1> QED
  BY <1>2, <1>4, <1>6, <1>7, PairedAreSame

Open == {todo[i] : i \in DOMAIN todo}

FoundInv ==
    /\ stage # "comparing" => seen = {} /\ entered = {}
    /\ stage = "comparing" /\ Root("rep") \in DOMAIN other /\ Unshared(other) /\ diffs = {} =>
          /\ IsInjective(todo)
          /\ Walked(imported.events, other, Both, entered, Open, seen)

LEMMA AnswersAreWorld ==
    ASSUME AnswersInv, stage = "comparing", Root("rep") \in DOMAIN other
    PROVE  /\ World(imported.events, other, Both)
           /\ DOMAIN Both = DOMAIN imported.events \cup DOMAIN other
<1>1. PICK f, g : f = imported.events /\ g = other
  OBVIOUS
<1>2. Both = [id \in DOMAIN f \cup DOMAIN g |-> IF id \in DOMAIN f THEN f[id] ELSE g[id]]
  BY <1>1 DEF Both
<1>3. TreeForm(f, "imp") /\ Branching(g, "rep") /\ Root("imp") \in DOMAIN f /\ Root("rep") \in DOMAIN g
  BY <1>1 DEF AnswersInv
<1>4. ASSUME NEW j \in DOMAIN g PROVE j \notin DOMAIN f
  <2>1. j[1] = "rep"
    BY <1>3 DEF Branching
  <2>2. ASSUME NEW i \in DOMAIN f PROVE i[1] = "imp"
    <3>1. i = <<"imp", i[2]>>
      BY <1>3 DEF TreeForm
    <3> QED
      BY <3>1
  <2> QED
    BY <2>1, <2>2
<1> QED
  BY <1>1, <1>2, <1>3, <1>4 DEF World

\* Nothing was called yet from this call.
NoneBelow(w) == \A i \in DOMAIN todo : \A k : todo[i].path # Append(w.path, k)

\* The calls that are open when one of them has returned.
LEMMA CallsOpen ==
    ASSUME NEW h, NEW w, NEW found, NEW keys, IsList(todo), todo # <<>>, w = Head(todo),
           IsInjective(todo),
           IsList(keys), IsInjective(keys),
           IsList(w.path), NoneBelow(w),
           Finds(h, found, keys)
    PROVE  /\ IsInjective(todo')
           /\ Open' = (Open \ {w}) \cup {Child(h, w, keys[i]) : i \in DOMAIN keys}
<1>1. PICK S : todo \in Seq(S)
  BY DEF IsList
<1>2. PICK t : t = [i \in DOMAIN keys |-> Child(h, w, keys[i])]
  OBVIOUS
<1>3. PICK C : C = S \cup {Child(h, w, keys[i]) : i \in DOMAIN keys}
  OBVIOUS
<1>4. todo \in Seq(C)
  BY <1>1, <1>3, SeqMonotonic
<1>5. t \in Seq(C) /\ Len(t) \in Nat
  <2>1. DOMAIN keys = 1..Len(keys) /\ Len(keys) \in Nat
    BY LenProperties DEF IsList
  <2>2. t \in [1..Len(keys) -> C]
    BY <1>2, <1>3, <2>1
  <2>3. t \in Seq(C)
    BY <2>1, <2>2, SeqDef
  <2> QED
    BY <2>3, LenProperties
<1>6. todo' = t \o Tail(todo)
  BY <1>2 DEF Finds
<1>7. todo' \in Seq(C) /\ NewFront(todo, t, todo')
  BY <1>4, <1>5, <1>6, CallReplaced
<1>8. w = todo[1] /\ 1 \in DOMAIN todo
  BY <1>4, HeadTailProperties, EmptySeq, LenProperties
<1>9. DOMAIN t = DOMAIN keys /\ \A i \in DOMAIN t : t[i] = Child(h, w, keys[i])
  BY <1>2
<1>10. PICK p : p = w.path
  OBVIOUS
<1>11. \A i \in DOMAIN t : t[i].path = Append(p, keys[i])
  BY <1>9, <1>10 DEF Child
<1>12. ASSUME NEW i \in DOMAIN t, NEW j \in DOMAIN t, t[i] = t[j] PROVE i = j
  <2>1. Append(p, keys[i]) = Append(p, keys[j])
    BY <1>11, <1>12
  <2>2. keys[i] = keys[j]
    BY <1>10, <2>1, PathEnds
  <2> QED
    BY <1>9, <2>2 DEF IsInjective
<1>13. ASSUME NEW i \in DOMAIN t, NEW j \in DOMAIN todo PROVE t[i] # todo[j]
  BY <1>10, <1>11 DEF NoneBelow
<1> DEFINE New(i) == i - Len(t) + 1
<1>14. ASSUME NEW i \in DOMAIN todo'
       PROVE  \/ i \in DOMAIN t /\ todo'[i] = t[i]
              \/ /\ New(i) \in DOMAIN todo /\ New(i) # 1 /\ i \in Nat
                 /\ todo'[i] = todo[New(i)]
  BY <1>7 DEF NewFront
<1>15. ASSUME NEW i \in DOMAIN todo', NEW j \in DOMAIN todo', todo'[i] = todo'[j] PROVE i = j
  <2>1. CASE i \in DOMAIN t /\ todo'[i] = t[i] /\ j \in DOMAIN t /\ todo'[j] = t[j]
    BY <1>12, <1>15, <2>1
  <2>2. CASE /\ New(i) \in DOMAIN todo /\ i \in Nat /\ todo'[i] = todo[New(i)]
             /\ New(j) \in DOMAIN todo /\ j \in Nat /\ todo'[j] = todo[New(j)]
    <3>1. New(i) = New(j)
      BY <1>15, <2>2 DEF IsInjective
    <3> QED
      BY <1>5, <2>2, <3>1
  <2> QED
    BY <1>13, <1>14, <1>15, <2>1, <2>2
<1>16. ASSUME NEW x PROVE x \in Open' <=> x \in (Open \ {w}) \cup {t[i] : i \in DOMAIN t}
  <2>1. x \in Open' <=> \E i \in DOMAIN todo' : todo'[i] = x
    BY DEF Open
  <2>2. x \in Open \ {w} <=> \E j \in DOMAIN todo : j # 1 /\ todo[j] = x
    BY <1>8 DEF Open, IsInjective
  <2>3. \A j \in DOMAIN todo : j # 1 => \E i \in DOMAIN todo' : todo'[i] = todo[j]
    BY <1>7 DEF NewFront
  <2>4. \A i \in DOMAIN t : i \in DOMAIN todo' /\ todo'[i] = t[i]
    BY <1>7 DEF NewFront
  <2> QED
    BY <1>14, <2>1, <2>2, <2>3, <2>4
<1> QED
  BY <1>9, <1>15, <1>16 DEF IsInjective

\* A call of walk() that finds no difference.
LEMMA WalkedOn ==
    ASSUME NEW f, NEW g, NEW h, World(f, g, h), Unshared(g), IsList(todo), todo # <<>>,
           IsInjective(todo),
           Walked(f, g, h, entered, Open, seen), WalkBoth(h), diffs' = {}
    PROVE  /\ IsInjective(todo')
           /\ Walked(f, g, h, entered', Open', seen')
<1>1. PICK w : w = Head(todo)
  OBVIOUS
<1>2. w \in Open
  <2>1. PICK S : todo \in Seq(S)
    BY DEF IsList
  <2>2. w = todo[1] /\ 1 \in DOMAIN todo
    BY <1>1, <2>1, HeadTailProperties, EmptySeq, LenProperties
  <2> QED
    BY <2>2 DEF Open
<1>3. CallForm(f, g, w)
  BY <1>2, CallsFormed
<1>4. IsList(w.path) /\ ~(w.depth > MaxDiffDepth)
  <2>1. w.depth = Len(w.path) /\ w.depth <= MaxDiffDepth /\ IsList(w.path)
    BY <1>3 DEF CallForm
  <2>2. w.depth \in Nat
    BY <2>1, LenProperties DEF IsList
  <2> QED
    BY <2>1, <2>2, DiffConstants
<1>5. NoneBelow(w)
  <2>1. ASSUME NEW v \in Open, NEW k PROVE v.path # Append(w.path, k)
    BY <1>2, NothingBelow
  <2> QED
    BY <2>1 DEF NoneBelow, Open
<1>6. PICK s, t : s = h[w.a.ref] /\ t = h[w.b.ref]
  OBVIOUS
\* It returns at once.
<1>7. CASE PassOver(h, w)
  <2>1. w.a = w.b \/ ShouldIgnore(w.path)
    BY <1>4, <1>7 DEF PassOver
  <2>2. Walked(f, g, h, entered, Open \ {w}, seen)
    BY <1>2, <2>1, WalkedOver
  <2>3. IsList(<<>>) /\ DOMAIN <<>> = {}
    BY EmptySeq DEF IsList
  <2>4. Finds(h, {}, <<>>) /\ entered' = entered /\ seen' = seen
    BY <1>7 DEF PassOver
  <2>5. PICK keys : keys = <<>> /\ IsInjective(keys)
    BY <2>3 DEF IsInjective
  <2>6. /\ IsInjective(todo')
        /\ Open' = (Open \ {w}) \cup {Child(h, w, keys[i]) : i \in DOMAIN keys}
    BY <1>1, <1>4, <1>5, <2>3, <2>4, <2>5, CallsOpen
  <2>7. Open' = Open \ {w}
    BY <2>3, <2>5, <2>6
  <2> QED
    BY <2>2, <2>4, <2>6, <2>7
<1>8. CASE WalkLeaf(h, w)
  BY <1>8 DEF WalkLeaf, Finds
\* It looks into two containers, under these keys.
<1>9. ASSUME NEW indexed, NEW keys \in Orders(Shared(s, t), indexed), NEW found,
             Finds(h, found, keys), ~IsLeaf(w.a), ~IsLeaf(w.b), IsArray(s) = IsArray(t),
             Counted(s, IgnoreFields) = Counted(t, IgnoreFields),
             Counted(s, IgnoreFields) \subseteq Shared(s, t),
             entered' = entered \cup {w}, seen' \subseteq seen \cup {w.a.ref, w.b.ref}
      PROVE  /\ IsInjective(todo')
             /\ Walked(f, g, h, entered', Open', seen')
  <2>1. /\ keys \in Seq(Shared(s, t))
        /\ \A k \in Shared(s, t) : \E i \in DOMAIN keys : keys[i] = k
        /\ IsInjective(keys)
    BY OrderedKeys DEF IsInjective
  <2>2. IsList(keys) /\ \A i \in DOMAIN keys : keys[i] \in Shared(s, t)
    BY <2>1, LenProperties, ElementOfSeq DEF IsList
  <2>3. PICK N : N = {Child(h, w, k) : k \in Shared(s, t)}
    OBVIOUS
  <2>4. {Child(h, w, keys[i]) : i \in DOMAIN keys} = N
    BY <2>1, <2>2, <2>3
  <2>5. /\ IsInjective(todo')
        /\ Open' = (Open \ {w}) \cup {Child(h, w, keys[i]) : i \in DOMAIN keys}
    BY <1>1, <1>4, <1>5, <1>9, <2>1, <2>2, CallsOpen
  <2>6. PICK U : U = seen'
    OBVIOUS
  <2>7. Walked(f, g, h, entered \cup {w}, (Open \ {w}) \cup N, U)
    BY <1>2, <1>6, <1>9, <2>3, <2>6, WalkedInto
  <2> QED
    BY <1>9, <2>4, <2>5, <2>6, <2>7
\* What walk() looks into.
<1>10. ASSUME Kind(h, w.a, w.b) \in {"array", "object"}
       PROVE  /\ ~IsLeaf(w.a) /\ ~IsLeaf(w.b) /\ IsArray(s) = IsArray(t)
              /\ Kind(h, w.a, w.b) = "array" <=> IsArray(s)
  BY <1>6, <1>10 DEF Kind, IsArray, IsLeaf
<1>11. CASE WalkArray(h, w)
  <2>1. PICK keys \in Orders(Shared(s, t), TRUE) :
            Finds(h, IF DOMAIN s.at = DOMAIN t.at THEN {} ELSE {Difference(w, "array_length")}, keys)
    BY <1>6, <1>11 DEF WalkArray
  <2>2. /\ Kind(h, w.a, w.b) = "array" /\ entered' = entered \cup {w} /\ seen' = seen
    BY <1>11 DEF WalkArray, Differing
  <2>3. DOMAIN s.at = DOMAIN t.at
    BY <2>1 DEF Finds
  <2>4. IsArray(s) /\ ~IsLeaf(w.a) /\ ~IsLeaf(w.b) /\ IsArray(s) = IsArray(t)
    BY <1>10, <2>2
  <2>5. /\ Counted(s, IgnoreFields) = Counted(t, IgnoreFields)
        /\ Counted(s, IgnoreFields) \subseteq Shared(s, t)
    BY <2>3, <2>4 DEF Counted, Shared
  <2>6. seen' \subseteq seen \cup {w.a.ref, w.b.ref}
    BY <2>2
  <2> QED
    BY <1>9, <2>1, <2>2, <2>4, <2>5, <2>6
<1>12. CASE WalkObject(h, w)
  <2>1. Kind(h, w.a, w.b) = "object"
    BY <1>12 DEF WalkObject, Differing
  <2>2. ~IsArray(s) /\ ~IsLeaf(w.a) /\ ~IsLeaf(w.b) /\ IsArray(s) = IsArray(t)
    BY <1>10, <2>1
  <2>3. {w.a.ref, w.b.ref} \cap seen = {}
    BY <1>2, <2>2, NotSeen
  <2>4. /\ entered' = entered \cup {w} /\ seen' = seen \cup {w.a.ref, w.b.ref}
        /\ \E keys \in Orders(Shared(s, t), FALSE) : Finds(h, Lacking(h, w), keys)
    BY <1>6, <1>12, <2>3 DEF WalkObject
  <2>5. PICK keys \in Orders(Shared(s, t), FALSE) : Finds(h, Lacking(h, w), keys)
    BY <2>4
  <2>6. Lacking(h, w) = {}
    BY <2>5 DEF Finds
  <2>7. ASSUME NEW k, k \notin Unsafe \cup IgnoreFields
        PROVE  k \in DOMAIN s.at <=> k \in DOMAIN t.at
    <3>1. ~ShouldIgnore(Append(w.path, k))
      <4>1. PICK p : p = w.path
        OBVIOUS
      <4>2. Last(Append(p, k)) = k
        BY <1>4, <4>1, PathEnds
      <4> QED
        BY <2>7, <4>1, <4>2 DEF ShouldIgnore
    <3>2. ASSUME NEW kind PROVE Difference(Child(h, w, k), kind).path = Append(w.path, k)
      BY DEF Difference, Child
    <3>3. ASSUME k \in DOMAIN s.at, k \notin DOMAIN t.at PROVE FALSE
      <4>1. Difference(Child(h, w, k), "missing_right") \in Lacking(h, w)
        BY <1>6, <2>7, <3>1, <3>2, <3>3 DEF Lacking
      <4> QED
        BY <2>6, <4>1
    <3>4. ASSUME k \in DOMAIN t.at, k \notin DOMAIN s.at PROVE FALSE
      <4>1. Difference(Child(h, w, k), "missing_left") \in Lacking(h, w)
        BY <1>6, <2>7, <3>1, <3>2, <3>4 DEF Lacking
      <4> QED
        BY <2>6, <4>1
    <3> QED
      BY <3>3, <3>4
  <2>8. /\ Counted(s, IgnoreFields) = Counted(t, IgnoreFields)
        /\ Counted(s, IgnoreFields) \subseteq Shared(s, t)
    BY <2>2, <2>7 DEF Counted, Shared
  <2> QED
    BY <1>9, <2>2, <2>4, <2>5, <2>8
<1> QED
  BY <1>1, <1>7, <1>8, <1>11, <1>12 DEF WalkBoth

LEMMA FoundReplayed ==
    ASSUME DiffInv, FoundInv, CallDeepDiff
    PROVE  FoundInv'
<1>1. stage = "imported" /\ stage' = "comparing" /\ UNCHANGED <<seen, entered>>
  BY DEF CallDeepDiff
<1>2. seen' = {} /\ entered' = {}
  BY <1>1 DEF FoundInv
<1>3. ASSUME Root("rep") \in DOMAIN other'
      PROVE  /\ IsInjective(todo')
             /\ Open' = {RootCall}
  <2>1. todo' = <<RootCall>>
    BY <1>3 DEF CallDeepDiff, DeepDiffOf, RootOf, RootCall
  <2>2. PICK c : c = RootCall
    OBVIOUS
  <2>3. PICK l : l = <<c>>
    OBVIOUS
  <2>4. DOMAIN l = {1} /\ l[1] = c
    BY <2>3
  <2>5. todo' = l
    BY <2>1, <2>2, <2>3
  <2> QED
    BY <2>2, <2>4, <2>5 DEF Open, IsInjective
<1>4. \A f, g, h : Walked(f, g, h, {}, {RootCall}, {})
  BY WalkedBegins
<1> QED
  BY <1>1, <1>2, <1>3, <1>4 DEF FoundInv

LEMMA FoundCompared ==
    ASSUME DiffInv, AnswersInv, FoundInv, Compare
    PROVE  FoundInv'
<1>1. WalkBoth(Both) /\ UNCHANGED <<stage, imported, other>> /\ todo # <<>>
  BY DEF Compare, fileVars, WalkBoth
<1>2. stage = "comparing" /\ IsList(todo)
  BY <1>1 DEF DiffInv
<1>3. diffs \subseteq diffs'
  BY <1>1 DEF WalkBoth, PassOver, WalkLeaf, WalkArray, WalkObject, Finds
<1>4. PICK f, g, h : f = imported.events /\ g = other /\ h = Both
  OBVIOUS
<1>5. imported.events' = f /\ other' = g /\ Both' = h
  BY <1>1, <1>4 DEF Both
<1>6. ASSUME Root("rep") \in DOMAIN g, Unshared(g), diffs' = {}
      PROVE  /\ IsInjective(todo')
             /\ Walked(f, g, h, entered', Open', seen')
  <2>1. World(f, g, h)
    BY <1>2, <1>4, <1>6, AnswersAreWorld
  <2>2. /\ IsInjective(todo)
        /\ Walked(f, g, h, entered, Open, seen)
    BY <1>2, <1>3, <1>4, <1>6 DEF FoundInv
  <2>3. WalkBoth(h)
    BY <1>1, <1>4
  <2> QED
    BY <1>1, <1>2, <1>6, <2>1, <2>2, <2>3, WalkedOn
<1> QED
  BY <1>1, <1>2, <1>5, <1>6 DEF FoundInv

LEMMA FoundStays ==
    ASSUME FoundInv, UNCHANGED diffVars, stage' = "comparing" => stage = "comparing",
           stage = "comparing" => stage' = "comparing" /\ UNCHANGED <<imported, other>>
    PROVE  FoundInv'
<1>1. todo' = todo /\ seen' = seen /\ entered' = entered /\ diffs' = diffs
  BY DEF diffVars
<1>2. Open' = Open
  BY <1>1 DEF Open
<1>3. CASE stage # "comparing"
  BY <1>1, <1>3 DEF FoundInv
<1>4. CASE stage = "comparing"
  <2>1. PICK f, g, h : f = imported.events /\ g = other /\ h = Both
    OBVIOUS
  <2>2. stage' = "comparing" /\ imported.events' = f /\ other' = g /\ Both' = h
    BY <1>4, <2>1 DEF Both
  <2>3. Root("rep") \in DOMAIN g /\ Unshared(g) /\ diffs = {} =>
          /\ IsInjective(todo)
          /\ Walked(f, g, h, entered, Open, seen)
    BY <1>4, <2>1 DEF FoundInv
  <2> QED
    BY <1>1, <1>2, <2>2, <2>3 DEF FoundInv
<1> QED
  BY <1>3, <1>4

-----------------------------------------------------------------------------
LEMMA WalkAlways == Spec => []WalkInv
<1>1. Init => WalkInv
  BY WalkInitial DEF Init
<1>2. WalkInv /\ [Next]_vars => WalkInv'
  <2>1. Capture => Walk
    BY DEF Capture
  <2>2. Export \/ Damage \/ Import \/ CallDeepDiff \/ Compare \/ UNCHANGED vars => UNCHANGED redactVars
    BY DEF Export, Damage, Import, CallDeepDiff, Compare, vars
  <2> QED
    BY <2>1, <2>2, WalkKeeps, WalkStays DEF Next
<1> QED
  BY <1>1, <1>2, PTL DEF Spec

\* Whatever the shape of a value - shared or cyclic objects, arrays, depth - no
\* leaf that looks like a secret and nothing under a sensitive name is in what
\* redactDeep() returns.  What is recorded without a call of it is not covered.
THEOREM SecretsStayOut == Spec => []NoSecretKept
BY WalkAlways, WalkTells, PTL

\* The result has the value's own objects, keys and leaves, each once and at its
\* place; only what is secret, too deep or shown elsewhere is replaced, what is
\* no array is an object, and when walk() has ended only what lies under a key
\* "__proto__" is left out (redactDeep()).
THEOREM NothingElseIsRedacted == Spec => []RedactsNothingElse
BY WalkAlways, WalkTells, PTL

LEMMA FileAlways == Spec => []FileInv
BY FileInitial, FileKeeps, PTL DEF Spec

\* A binary file is read as what was written or not at all: changed, cut, extended
\* or reordered it never passes for another session (importSessionBinary()).  A
\* text file has no checksum: it is read as what was written if it was not changed
\* (importSessionsJSON()).
THEOREM FilesAreReadBack == Spec => []ReadsWhatWasWritten
<1>1. FileInv => ReadsWhatWasWritten
  BY DEF FileInv
<1> QED
  BY <1>1, FileAlways, PTL

LEMMA DiffAlways == Spec => []DiffInv
BY DiffInitial, DiffKeeps, PTL DEF Spec

\* deepDiff() reports no difference between values that are the same, however the
\* other one is built of shared or cyclic objects.
THEOREM EqualAnswersMatch == Spec => []DifferencesAreReal
<1>1. DiffInv => DifferencesAreReal
  BY DEF DiffInv, DifferencesAreReal, Equal, Same, EqualBy
<1> QED
  BY <1>1, DiffAlways, PTL

\* The same for every notion of sameness: when deepDiff() has reported a difference
\* no relation pairs the two values and, with every pair, what lies under each key that counts.
THEOREM NothingPairsDifferent == Spec => [](diffs # {} => \A R : ~EqualBy(R))
<1>1. DiffInv => (diffs # {} => \A R : ~EqualBy(R))
  BY DEF DiffInv
<1> QED
  BY <1>1, DiffAlways, PTL

LEMMA KeptAlways == Spec => []KeptInv
<1>1. Init => KeptInv
  BY KeptInitial DEF Init
<1>2. WalkInv /\ KeptInv /\ [Next]_vars => KeptInv'
  <2>1. Capture => Walk
    BY DEF Capture
  <2>2. Export \/ Damage \/ Import \/ CallDeepDiff \/ Compare \/ UNCHANGED vars => UNCHANGED kept
    BY DEF Export, Damage, Import, CallDeepDiff, Compare, vars, redactVars
  <2>3. KeptInv /\ UNCHANGED kept => KeptInv'
    BY DEF KeptInv, HasEntries
  <2> QED
    BY <2>1, <2>2, <2>3, KeptKeeps DEF Next
<1> QED
  BY <1>1, <1>2, WalkAlways, PTL DEF Spec

LEMMA AnswersAlways == Spec => []AnswersInv
<1>1. Init => AnswersInv
  BY DEF Init, AnswersInv
<1>2. WalkInv /\ KeptInv /\ FileInv /\ AnswersInv /\ [Next]_vars => AnswersInv'
  <2> SUFFICES ASSUME WalkInv, KeptInv, FileInv, AnswersInv, [Next]_vars PROVE AnswersInv'
    OBVIOUS
  <2>1. CASE CallDeepDiff
    BY <2>1, AnswersReplayed
  <2>2. CASE Import \/ Export
    BY <2>2 DEF Import, Export, AnswersInv
  <2>3. CASE Capture \/ Damage \/ Compare \/ UNCHANGED vars
    <3>1. UNCHANGED <<stage, imported, other>>
      BY <2>3 DEF Capture, Damage, Compare, vars, fileVars
    <3> QED
      BY <3>1, AnswersStay
  <2> QED
    BY <2>1, <2>2, <2>3 DEF Next
<1> QED
  BY <1>1, <1>2, WalkAlways, KeptAlways, FileAlways, PTL DEF Spec

LEMMA FoundAlways == Spec => []FoundInv
<1>1. Init => FoundInv
  BY DEF Init, FoundInv
<1>2. DiffInv /\ AnswersInv /\ FoundInv /\ [Next]_vars => FoundInv'
  <2> SUFFICES ASSUME DiffInv, AnswersInv, FoundInv, [Next]_vars PROVE FoundInv'
    OBVIOUS
  <2>1. CASE CallDeepDiff
    BY <2>1, FoundReplayed
  <2>2. CASE Compare
    BY <2>2, FoundCompared
  <2>3. CASE Import \/ Export
    BY <2>3, FoundStays DEF Import, Export
  <2>4. CASE Capture \/ Damage \/ UNCHANGED vars
    <3>1. UNCHANGED <<stage, imported, other>>
      BY <2>4 DEF Capture, Damage, vars, fileVars
    <3>2. UNCHANGED diffVars
      BY <2>4 DEF Capture, Damage, vars
    <3> QED
      BY <3>1, <3>2, FoundStays
  <2> QED
    BY <2>1, <2>2, <2>3, <2>4 DEF Next
<1> QED
  BY <1>1, <1>2, DiffAlways, AnswersAlways, PTL DEF Spec

\* A deepDiff() that ends without a difference was one of values that are the same,
\* if no object of the other one lies in two places: every changed, added or lost
\* entry of any value is found, at any depth that the recording reaches.
THEOREM DifferencesShow == Spec => []DifferencesAreFound
<1>1. DiffInv /\ AnswersInv /\ FoundInv => DifferencesAreFound
  <2> SUFFICES ASSUME AnswersInv, FoundInv, stage = "comparing", todo = <<>>, diffs = {},
                      Root("rep") \in DOMAIN other, Unshared(other)
               PROVE  Equal
    BY DEF DifferencesAreFound
  <2>1. PICK f, g, h : f = imported.events /\ g = other /\ h = Both
    OBVIOUS
  <2>2. World(f, g, h) /\ DOMAIN h = DOMAIN f \cup DOMAIN g
    BY <2>1, AnswersAreWorld
  <2>3. Open = {}
    BY EmptySeq DEF Open
  <2>4. Walked(f, g, h, entered, {}, seen)
    BY <2>1, <2>3 DEF FoundInv
  <2>5. Same(h, Ref(Root("imp")), Ref(Root("rep")), IgnoreFields)
    BY <2>2, <2>4, WalkedIsAlike
  <2> QED
    BY <2>1, <2>5 DEF Equal, RootOf
<1> QED
  BY <1>1, DiffAlways, AnswersAlways, FoundAlways, PTL
=============================================================================
