---------------------------- MODULE MCNetRouting ----------------------------
(* NetRouting on small networks; the destination is terminal 1.            *)
EXTENDS NetRouting

Both(pairs) == pairs \cup {<<p[2], p[1]>> : p \in pairs}

\* A ring of four.
Ring == Both({<<1, 2>>, <<2, 3>>, <<3, 4>>, <<4, 1>>})

\* Three in a triangle.
Triangle == Both({<<1, 2>>, <<2, 3>>, <<3, 1>>})
=============================================================================
