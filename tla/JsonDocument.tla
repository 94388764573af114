------------------------------ MODULE JsonDocument ------------------------------
(***************************************************************************)
(* JSON documents as the registries of values use them (json::locate,      *)
(* Location): a document is a function from places, sequences of keys, to  *)
(* what is there, Obj for an object.  The empty sequence is the root.      *)
(* Arrays are left out: no operation of a registry makes one.              *)
(***************************************************************************)
EXTENDS Naturals, Sequences

CONSTANTS Tokens,   \* the keys of objects
          Values,
          Obj, Null

IsAtOrUnder(f, g) == Len(f) <= Len(g) /\ SubSeq(g, 1, Len(f)) = f

OnTheWayTo(f) == {SubSeq(f, 1, k) : k \in 0..(Len(f) - 1)}

\* What a document has below a place where it has nothing: not even a root.
Nothing == [f \in {} |-> Obj]

EmptyObject == [f \in {<<>>} |-> Obj]

IsObject(d) == d # Nothing /\ d[<<>>] = Obj

\* locate_const: what is at f, with all below it
Located(d, f) ==
    [g \in {SubSeq(h, Len(f) + 1, Len(h)) : h \in {h \in DOMAIN d : IsAtOrUnder(f, h)}} |-> d[f \o g]]

\* locate with create, and the assignment: what is on the way becomes an object
Put(d, f, sub) ==
    LET way == OnTheWayTo(f)
        places == {g \in DOMAIN d : ~IsAtOrUnder(f, g)} \cup way \cup {f \o g : g \in DOMAIN sub}
    IN  [g \in places |-> IF IsAtOrUnder(f, g) THEN sub[SubSeq(g, Len(f) + 1, Len(g))]
                          ELSE IF g \in way THEN Obj ELSE d[g]]

Leaf(v) == [f \in {<<>>} |-> v]

\* Location::erase
Erased(d, f) == [g \in {g \in DOMAIN d : ~IsAtOrUnder(f, g)} |-> d[g]]

\* jsonToOption: null is no value
Option(sub) == IF sub = Leaf(Null) THEN Nothing ELSE sub

-------------------------------------------------------------------------------

\* A document as the parser reads one: a root, and objects on the way to everything.
IsTree(d) ==
    /\ DOMAIN d \subseteq Seq(Tokens) /\ <<>> \in DOMAIN d
    /\ \A f \in DOMAIN d : \A g \in OnTheWayTo(f) : g \in DOMAIN d /\ d[g] = Obj
===============================================================================
