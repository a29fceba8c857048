------------------------------- MODULE GoMaps -------------------------------
\* Maps of Go as functions: an assignment to one key, delete, and the entries of
\* f over those of g.
With(f, x, v) == [y \in DOMAIN f \cup {x} |-> IF y = x THEN v ELSE f[y]]
Dropped(f, x) == [y \in DOMAIN f \ {x} |-> f[y]]
Over(f, g) == [y \in DOMAIN f \cup DOMAIN g |-> IF y \in DOMAIN f THEN f[y] ELSE g[y]]
=============================================================================
