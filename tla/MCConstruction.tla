--------------------------- MODULE MCConstruction ---------------------------
(* Construction for TLC: every constructor but From<Box<T>>, and that one.  *)
EXTENDS Construction

MCSource == {"value", "closure", "vec", "clone", "exact", "buffered"}
MCBox == {"box"}
=============================================================================
