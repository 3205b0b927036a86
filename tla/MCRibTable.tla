----------------------------- MODULE MCRibTable -----------------------------
EXTENDS RibTable

CONSTANTS a, m1, m2, path1, path2, path3, attr1, attr2

\* Two nodes share a path, and two paths share a bucket.
MCKeys == {[path |-> path1, attr |-> attr1, mp |-> TRUE],
           [path |-> path1, attr |-> attr2, mp |-> FALSE],
           [path |-> path2, attr |-> attr1, mp |-> FALSE],
           [path |-> path3, attr |-> NoAttr, mp |-> TRUE]}

MCHash == [path \in {path1, path2, path3} |-> IF path = path3 THEN 2 ELSE 1]
=============================================================================
