---- MODULE MCModelManager ----
EXTENDS ModelManager
CONSTANTS m1, m2, m3

\* Of two models that can be transferred one has left a file that does not match; one
\* that cannot be transferred is there.
FoundFiles == {[m \in Models |-> CASE m = m1 -> "bad" [] m = m2 -> "missing" [] m = m3 -> "good"]}
====
