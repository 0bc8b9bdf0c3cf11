-------------------------------- MODULE Dicts --------------------------------
(* Python dicts as functions whose domain changes. *)

\* A dict with key k set to v: data[k] = v.
Put(dict, k, v) ==
    [x \in DOMAIN dict \cup {k} |-> IF x = k THEN v ELSE dict[x]]

\* A dict without the keys in ks: pop(k, None), path.unlink().
Drop(dict, ks) == [x \in DOMAIN dict \ ks |-> dict[x]]

\* The list stored under k, or the empty list when there is none.
ListAt(dict, k) == IF k \in DOMAIN dict THEN dict[k] ELSE << >>
=============================================================================
