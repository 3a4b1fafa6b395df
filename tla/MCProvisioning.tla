--------------------------- MODULE MCProvisioning ---------------------------
(***************************************************************************)
(* Small instances of Provisioning for TLC.                                *)
(***************************************************************************)
EXTENDS Provisioning

T(v, n)     == [v |-> v, number |-> n]
P(k, n, t)  == [kind |-> k, name |-> n, tag |-> t]
E(n, i, t)  == [name |-> n, package |-> i, tag |-> t]
V(t, c, i)  == [version |-> t, chart |-> c, image |-> i]
By(p, f)    == [k \in Kinds |-> IF k = "provider" THEN p ELSE f]

v1 == T(TRUE, "1")
v2 == T(TRUE, "2")
n1 == T(FALSE, "1")

Bare  == [version |-> v1, lists |-> {}, packages |-> {}]
Both  == [version |-> v1, lists |-> Kinds,
          packages |-> {P("provider", "a", v1), P("function", "b", n1)}]
\* With a list of functions that is empty, but not nil.
Newer == [version |-> v2, lists |-> Kinds, packages |-> {P("provider", "a", v2)}]

\* Two entries of one provider; functions fall back to its secret.
Shared == [versions |-> <<V(v1, "s", "t"), V(v2, "", NoImage)>>,
           packages |-> By(<<E("a", "x", n1), E("a", "y", v1), E("a", "y", v2)>>,
                           <<E("b", "z", v1)>>),
           secrets  |-> By({"s"}, {}), ca |-> TRUE]

\* Secrets have changed places, version 1 of the provider is gone.
Moved == [versions |-> <<V(v1, "", NoImage), V(v1, "t", "t"), V(v2, "t", "")>>,
          packages |-> By(<<E("a", "x", v2)>>, <<E("b", "z", n1), E("b", "z", v2)>>),
          secrets  |-> By({"t", ""}, {"s"}), ca |-> FALSE]

\* No functions, and no version 2.
Reduced == [versions |-> <<V(v1, "", NoImage)>>,
            packages |-> By(<<E("a", "x", v1)>>, <<>>),
            secrets  |-> By({}, {}), ca |-> TRUE]

MCSpecs  == {Bare, Both, Newer}
MCOffers == {Shared, Moved, Reduced}

\* A provider and a function that share their name.
Namesake  == [version |-> v1, lists |-> Kinds,
              packages |-> {P("provider", "a", v1), P("function", "a", v1)}]
Namesakes == [Shared EXCEPT !.packages = By(<<E("a", "x", v1)>>, <<E("a", "z", v1)>>)]
MCNamesakeSpecs  == {Bare, Namesake}
MCNamesakeOffers == {Namesakes}
=============================================================================
